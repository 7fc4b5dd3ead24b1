------------------------------ MODULE MCFrontend -------------------------------
(***************************************************************************)
(* The pages of dev-frontend.  The panels, the table of troves and the      *)
(* bonds share no state, so their interleavings are left out: part says     *)
(* which of them moves, and of the bonds whether it is the bonds themselves *)
(* or the exchange and its liquidity, where the list of bonds has been      *)
(* loaded and stays.                                                        *)
(***************************************************************************)
EXTENDS Frontend, Bonds

VARIABLE part

allVars == <<part, vars, bondVars, tableVars>>

MCInit ==
    /\ Init /\ BondsInit /\ TableInit
    /\ part \in {"panels", "bonds", "exchange", "table"}
    /\ part # "panels" => chain = NoPosition("trove")
    /\ part # "table" => numberOfTroves = 0
    /\ CASE part \in {"panels", "table"} -> allowed = approvals
         [] part = "bonds" -> approvals \ allowed \in {{}, {<<"LUSD", "bonds">>}}
         [] part = "exchange" -> <<"LUSD", "bonds">> \in allowed

MCNext ==
    /\ UNCHANGED part
    /\ \/ part = "panels" /\ Next /\ UNCHANGED <<bondVars, tableVars>>
       \/ part = "table" /\ TableNext /\ UNCHANGED <<vars, bondVars>>
       \/ /\ part = "bonds" /\ BondsNext /\ UNCHANGED <<vars, tableVars>>
          /\ bondView' \in {"IDLE", "CREATING", "CANCELLING", "CLAIMING"}
       \/ /\ part = "exchange" /\ BondsNext /\ UNCHANGED <<vars, tableVars>>
          /\ bondView' \in {"IDLE", "SWAPPING", "MANAGING_LIQUIDITY"}
          /\ hasLoaded => sync'.step = "none" /\ sync'.timer

\* Reads of the bonds are answered and its transactions end, and the timer fires.
BondsFairness ==
    /\ WF_bondVars(syncSteps) /\ WF_bondVars(commitBondView)
    /\ \A n \in 1 .. MaxBondActivity :
          WF_bondVars(n \in DOMAIN btxs /\ (mineBondTransaction(n) \/ approvalConfirmed(n)
                                               \/ confirmed(n) \/ transactionFailed(n)))

MCSpec == MCInit /\ [][MCNext]_allVars /\ BondsFairness

\* No late answer stays on the screen, neither a page of the table of troves nor
\* an estimate or an approval of the panes for bonds.
AnswersCurrent == RowsCurrent /\ PanesCurrent

\* Where the bonds move, the list of BondViewProvider becomes and stays that of
\* the chain when the user does nothing more, whatever reads failed and whatever
\* transactions and synchronisations overlapped.
BondsCatchUp == part = "bonds" => ListCatchesUp
================================================================================
