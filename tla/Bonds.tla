--------------------------------- MODULE Bonds ---------------------------------
(***************************************************************************)
(* dev-frontend: the pages for chicken bonds.  BondViewProvider keeps the  *)
(* view, the user's bonds as the last synchronisation read them, what it   *)
(* knows of the token approvals and the status of each kind of             *)
(* transaction; the panes estimate what a swap or a deposit yields.        *)
(* Amounts matter only in that an estimate is one for an amount.           *)
(***************************************************************************)
EXTENDS Naturals, Sequences

CONSTANTS
    NumBonds,              \* the bonds there can be, numbered in the order of their creation
    MaxBondActivity        \* bound on the transactions started, the edits of an amount and
                           \* the reads that fail, together

ASSUME BondsAssumption == NumBonds \in Nat /\ MaxBondActivity \in Nat

VARIABLES
    bondView, bondViewRef, \* the view set last, and the one that is drawn
    selectedBondId, inputToken,
    bonds, hasLoaded,      \* the list: a status for every bond, NON_EXISTENT if it is not there
    optimisticBond,
    sync,                  \* should: shouldSynchronize; timer: of the interval; step, ids, list
    approved, checks,      \* the isXApproved flags, and the reads of allowances under way
    statuses,              \* of the kinds of transactions
    pane,                  \* the form: input, estimate, and the timer before an estimate
    asked,                 \* the estimates under way
    btxs,                  \* the transactions, in the order of their start
    owned, allowed,        \* on the chain: the bonds' statuses, and the allowances
    activity               \* the edits and failures so far

listVars == <<bonds, hasLoaded, optimisticBond, sync>>
approvalVars == <<approved, checks>>
paneVars == <<pane, asked>>
bondVars == <<bondView, bondViewRef, selectedBondId, inputToken, listVars, approvalVars, statuses,
              paneVars, btxs, owned, allowed, activity>>

transitions ==
    [IDLE |-> [CREATE_BOND_PRESSED |-> "CREATING", CANCEL_BOND_PRESSED |-> "CANCELLING",
               CLAIM_BOND_PRESSED |-> "CLAIMING", SWAP_PRESSED |-> "SWAPPING",
               MANAGE_LIQUIDITY_PRESSED |-> "MANAGING_LIQUIDITY"],
     CREATING |-> [ABORT_PRESSED |-> "IDLE", CREATE_BOND_CONFIRMED |-> "IDLE",
                   BACK_PRESSED |-> "IDLE", APPROVE_PRESSED |-> "CREATING",
                   CONFIRM_PRESSED |-> "CREATING"],
     CLAIMING |-> [ABORT_PRESSED |-> "IDLE", BACK_PRESSED |-> "IDLE",
                   CONFIRM_PRESSED |-> "CLAIMING", CLAIM_BOND_CONFIRMED |-> "IDLE"],
     CANCELLING |-> [ABORT_PRESSED |-> "IDLE", BACK_PRESSED |-> "IDLE",
                     CONFIRM_PRESSED |-> "CANCELLING", CANCEL_BOND_CONFIRMED |-> "IDLE"],
     SWAPPING |-> [ABORT_PRESSED |-> "IDLE", BACK_PRESSED |-> "IDLE",
                   APPROVE_PRESSED |-> "SWAPPING", CONFIRM_PRESSED |-> "SWAPPING",
                   SWAP_CONFIRMED |-> "IDLE"],
     MANAGING_LIQUIDITY |-> [ABORT_PRESSED |-> "IDLE", BACK_PRESSED |-> "IDLE",
                             APPROVE_PRESSED |-> "MANAGING_LIQUIDITY",
                             CONFIRM_PRESSED |-> "MANAGING_LIQUIDITY",
                             MANAGE_LIQUIDITY_CONFIRMED |-> "IDLE"]]

isValidEvent(v, event) == event \in DOMAIN transitions[v]
bondTransition(v, event) == IF isValidEvent(v, event) THEN transitions[v][event] ELSE v

NoBonds == [b \in 1 .. NumBonds |-> "NON_EXISTENT"]

mayGoOn == Len(btxs) + activity < MaxBondActivity

Kinds == {"APPROVE", "CREATE", "CANCEL", "CLAIM", "APPROVE_AMM", "APPROVE_SPENDER", "SWAP",
          "MANAGE_LIQUIDITY"}

confirmedEvent ==
    [CREATE |-> "CREATE_BOND_CONFIRMED", CANCEL |-> "CANCEL_BOND_CONFIRMED",
     CLAIM |-> "CLAIM_BOND_CONFIRMED", SWAP |-> "SWAP_CONFIRMED",
     MANAGE_LIQUIDITY |-> "MANAGE_LIQUIDITY_CONFIRMED"]

--------------------------------------------------------------------------------
(***************************************************************************)
(* Approvals, as <<token, spender>>.                                       *)
(***************************************************************************)
checked == {<<"LUSD", "bonds">>, <<"LUSD", "amm">>, <<"BLUSD", "amm">>,
            <<"LUSD", "zapper">>, <<"BLUSD", "zapper">>, <<"LP", "zapper">>}
approvals == checked \cup {<<"LP", "gauge">>}

\* The flag an answer about p is written to: the answer about bLUSD and the zapper
\* goes to the flag of LUSD.
flagOf(p) == IF p = <<"BLUSD", "zapper">> THEN <<"LUSD", "zapper">> ELSE p

\* Reads started by the effects that depend on the flags that change to new.
rechecked(new) ==
    {[of |-> p, value |-> p \in allowed] : p \in {q \in checked : q \in approved /\ q \notin new}}

isTokenApproved(check) ==
    LET new == IF check.value THEN approved \cup {flagOf(check.of)} ELSE approved \ {flagOf(check.of)}
    IN  /\ check \in checks
        /\ approved' = new
        /\ checks' = (checks \ {check}) \cup rechecked(new)
        /\ UNCHANGED <<bondView, bondViewRef, selectedBondId, inputToken, listVars, statuses,
                       paneVars, btxs, owned, allowed, activity>>

--------------------------------------------------------------------------------
(***************************************************************************)
(* What the panes offer: the transactions as [kind, pairs, needs], where    *)
(* pairs are the approvals that are given and needs those it rests on.      *)
(***************************************************************************)
pending(kind) == statuses[kind] = "PENDING"
offer(kind, pairs, needs) == [kind |-> kind, pairs |-> pairs, needs |-> needs]

Details ==
    IF pending("APPROVE") \/ pending("CREATE") THEN {}
    ELSE IF <<"LUSD", "bonds">> \in approved
    THEN {offer("CREATE", <<>>, {<<"LUSD", "bonds">>})}
    ELSE {offer("APPROVE", <<<<"LUSD", "bonds">>>>, {})}

selectedBond == IF selectedBondId = 0 THEN "NON_EXISTENT" ELSE bonds[selectedBondId]

Cancel == IF selectedBond = "NON_EXISTENT" \/ pending("CANCEL") THEN {} ELSE {offer("CANCEL", <<>>, {})}
Claim == IF selectedBond = "NON_EXISTENT" \/ pending("CLAIM") THEN {} ELSE {offer("CLAIM", <<>>, {})}

SwapPane ==
    LET p == <<inputToken, "amm">>
    IN  IF p \notin approved
        THEN IF pending("APPROVE_AMM") THEN {} ELSE {offer("APPROVE_AMM", <<p>>, {})}
        ELSE IF pane.input = 0 \/ pane.estimate = {} \/ pending("SWAP") THEN {}
        ELSE {offer("SWAP", <<>>, {p})}

\* The api's transactions on the liquidity, by the allowances they spend.
addLiquidity(tokens) == {<<token, "zapper">> : token \in tokens}
removeLiquidity == {<<"LP", "zapper">>}
removeLiquidityLUSD == {<<"LP", "zapper">>}
removeLiquidityBLUSD == {}          \* by the exchange itself
removeLiquidityOneCoin(output) == IF output = "LUSD" THEN removeLiquidityLUSD ELSE removeLiquidityBLUSD
stakeLiquidity == {<<"LP", "gauge">>}
unstakeLiquidity == {}
claimLpRewards == {}

\* Approve the tokens that lack the approval, in this order, or go on with what
\* spends these allowances.
approveOr(needed, enabled, spends) ==
    LET lacks(p) == p \notin approved
        missing  == SelectSeq(needed, lacks)
    IN  IF missing # <<>>
        THEN IF pending("APPROVE_SPENDER") THEN {} ELSE {offer("APPROVE_SPENDER", missing, {})}
        ELSE IF enabled THEN {offer("MANAGE_LIQUIDITY", <<>>, spends)} ELSE {}

DepositPane ==
    UNION {approveOr([i \in DOMAIN tokens |-> <<tokens[i], "zapper">>],
                     pane.input > 0 /\ ~pending("MANAGE_LIQUIDITY"),
                     addLiquidity({tokens[i] : i \in DOMAIN tokens})) :
              tokens \in {<<"LUSD">>, <<"BLUSD">>, <<"LUSD", "BLUSD">>}}

\* Of bLUSD alone, liquidity is withdrawn without the zapper.
WithdrawPane ==
    IF pane.input = 0 THEN {}
    ELSE approveOr(<<<<"LP", "zapper">>>>, ~pending("MANAGE_LIQUIDITY"), removeLiquidity)
         \cup approveOr(<<<<"LP", "zapper">>>>, ~pending("MANAGE_LIQUIDITY"), removeLiquidityOneCoin("LUSD"))
         \cup approveOr(<<>>, ~pending("MANAGE_LIQUIDITY"), removeLiquidityOneCoin("BLUSD"))

StakePane ==
    IF pane.input = 0 THEN {}
    ELSE approveOr(<<<<"LP", "gauge">>>>, ~pending("MANAGE_LIQUIDITY"), stakeLiquidity)
UnstakePane ==
    IF pane.input = 0 THEN {} ELSE approveOr(<<>>, ~pending("MANAGE_LIQUIDITY"), unstakeLiquidity)
\* Its button is not disabled while a transaction is pending.
RewardsPane == approveOr(<<>>, TRUE, claimLpRewards)

ManagingLiquidity == DepositPane \cup WithdrawPane \cup StakePane \cup UnstakePane \cup RewardsPane

offered ==
    CASE bondViewRef = "CREATING" -> Details
      [] bondViewRef = "CANCELLING" -> Cancel
      [] bondViewRef = "CLAIMING" -> Claim
      [] bondViewRef = "SWAPPING" -> SwapPane
      [] bondViewRef = "MANAGING_LIQUIDITY" -> ManagingLiquidity
      [] OTHER -> {}

\* Back is disabled while the pane's transaction is pending, Close is not.
backEnabled ==
    CASE bondViewRef = "CREATING" -> ~pending("APPROVE") /\ ~pending("CREATE")
      [] bondViewRef = "CANCELLING" -> selectedBond # "NON_EXISTENT" /\ ~pending("CANCEL")
      [] bondViewRef = "CLAIMING" -> selectedBond # "NON_EXISTENT" /\ ~pending("CLAIM")
      [] bondViewRef = "SWAPPING" -> ~pending("APPROVE_AMM") /\ ~pending("SWAP")
      [] bondViewRef = "MANAGING_LIQUIDITY" -> ~pending("MANAGE_LIQUIDITY")
      [] OTHER -> FALSE

--------------------------------------------------------------------------------
(***************************************************************************)
(* The user, and dispatchEvent.                                            *)
(***************************************************************************)
NoPane == [input |-> 0, estimate |-> {}, timer |-> FALSE]

\* The form of a new view: SwapPane asks for the exchange rate at once.
paneFor(v) ==
    [NoPane EXCEPT !.timer = v = "SWAPPING", !.estimate = IF v = "MANAGING_LIQUIDITY" THEN {0} ELSE {}]

\* The estimates under way are no longer waited for.
cancelled(answers) == {[a EXCEPT !.cancelled = TRUE] : a \in answers}

\* A view that is new starts with an empty form.
goTo(v) ==
    /\ bondView' = v
    /\ IF v = bondView THEN UNCHANGED paneVars
       ELSE pane' = paneFor(v) /\ asked' = cancelled(asked)

Idle ==
    {[event |-> "CREATE_BOND_PRESSED", bond |-> 0, token |-> inputToken],
     [event |-> "MANAGE_LIQUIDITY_PRESSED", bond |-> 0, token |-> inputToken]}
    \cup [event : {"SWAP_PRESSED"}, bond : {0}, token : {"LUSD", "BLUSD"}]

\* Only a pending bond has buttons.
Actions ==
    [event : {"CANCEL_BOND_PRESSED", "CLAIM_BOND_PRESSED"},
     bond : {b \in 1 .. NumBonds : bonds[b] = "PENDING"}, token : {inputToken}]

pressButton(e) ==
    /\ hasLoaded
    /\ IF e.event = "ABORT_PRESSED" THEN bondViewRef # "IDLE"
       ELSE IF e.event = "BACK_PRESSED" THEN backEnabled
       ELSE e \in Idle \cup Actions
    /\ isValidEvent(bondViewRef, e.event)
    /\ goTo(bondTransition(bondViewRef, e.event))
    /\ selectedBondId' = IF e.bond # 0 THEN e.bond ELSE selectedBondId
    /\ inputToken' = e.token
    /\ UNCHANGED <<bondViewRef, listVars, approvalVars, statuses, btxs, owned, allowed, activity>>

\* APPROVE_PRESSED and CONFIRM_PRESSED.  A transaction that changes the list will
\* change the list of the render it was started in.
dispatchEvent(o) ==
    /\ hasLoaded /\ o \in offered
    /\ mayGoOn
    /\ btxs' = Append(btxs, [kind |-> o.kind, pairs |-> o.pairs, needs |-> o.needs, list |-> bonds,
                             bond |-> selectedBondId, status |-> "sent"])
    /\ statuses' = [statuses EXCEPT ![o.kind] = "PENDING"]
    /\ goTo(bondViewRef)
    /\ UNCHANGED <<bondViewRef, selectedBondId, inputToken, listVars, approvalVars, owned, allowed,
                   activity>>

editAmount(amount) ==
    /\ bondViewRef \in {"SWAPPING", "MANAGING_LIQUIDITY"} /\ bondView = bondViewRef
    /\ amount # pane.input /\ mayGoOn
    /\ activity' = activity + 1
    /\ pane' = IF amount = 0 /\ bondView = "MANAGING_LIQUIDITY" THEN paneFor(bondView)
               ELSE [pane EXCEPT !.input = amount, !.timer = TRUE]
    /\ asked' = cancelled(asked)
    /\ UNCHANGED <<bondView, bondViewRef, selectedBondId, inputToken, listVars, approvalVars, statuses,
                   btxs, owned, allowed>>

\* 200 ms after the last edit the output is asked for.  Only SwapPane forgets
\* the old one then.
askForEstimate ==
    /\ pane.timer
    /\ pane' = [pane EXCEPT !.timer = FALSE,
                            !.estimate = IF bondView = "SWAPPING" THEN {} ELSE @]
    /\ asked' = asked \cup {[input |-> pane.input, cancelled |-> FALSE]}
    /\ UNCHANGED <<bondView, bondViewRef, selectedBondId, inputToken, listVars, approvalVars, statuses,
                   btxs, owned, allowed, activity>>

\* Mutated form: an answer that came late is taken.
estimateTaken_Late(a) == TRUE

estimateTaken(a) == ~a.cancelled

getExpectedSwapOutput(a) ==
    /\ a \in asked
    /\ asked' = asked \ {a}
    /\ \/ /\ pane' = IF estimateTaken(a) THEN [pane EXCEPT !.estimate = {a.input}] ELSE pane
          /\ UNCHANGED activity
       \/ /\ mayGoOn /\ activity' = activity + 1
          /\ UNCHANGED pane
    /\ UNCHANGED <<bondView, bondViewRef, selectedBondId, inputToken, listVars, approvalVars, statuses,
                   btxs, owned, allowed>>

--------------------------------------------------------------------------------
(***************************************************************************)
(* useTransaction and the api's transactions.                              *)
(***************************************************************************)
\* What a transaction leaves of the bonds on the chain; nothing when it reverts.
createBond ==
    {[owned EXCEPT ![b] = "PENDING"] : b \in {c \in 1 .. NumBonds :
        owned[c] = "NON_EXISTENT" /\ \A d \in 1 .. c - 1 : owned[d] # "NON_EXISTENT"}}
cancelBond(b) == IF owned[b] = "PENDING" THEN {[owned EXCEPT ![b] = "CANCELLED"]} ELSE {}
claimBond(b) == IF owned[b] = "PENDING" THEN {[owned EXCEPT ![b] = "CLAIMED"]} ELSE {}

outcomes(tx) ==
    IF ~(tx.needs \subseteq allowed) THEN {}
    ELSE CASE tx.kind = "CREATE" -> createBond
           [] tx.kind = "CANCEL" -> cancelBond(tx.bond)
           [] tx.kind = "CLAIM" -> claimBond(tx.bond)
           [] OTHER -> {owned}

\* approveInfiniteBond, approveTokenWithBLusdAmm and approveToken
approveNext(pairs) == IF pairs = <<>> THEN allowed ELSE allowed \cup {Head(pairs)}

mineBondTransaction(n) ==
    /\ btxs[n].status = "sent"
    /\ \/ /\ owned' \in outcomes(btxs[n])
          /\ btxs' = [btxs EXCEPT ![n].status = "mined"]
          /\ allowed' = approveNext(btxs[n].pairs)
       \/ /\ btxs' = [btxs EXCEPT ![n].status = "failed"]
          /\ UNCHANGED <<owned, allowed>>
    /\ UNCHANGED <<bondView, bondViewRef, selectedBondId, inputToken, listVars, approvalVars, statuses,
                   paneVars, activity>>

\* removeBondFromList and changeBondStatusToClaimed
listAfter(tx) ==
    CASE tx.kind = "CANCEL" -> [tx.list EXCEPT ![tx.bond] = "NON_EXISTENT"]
      [] tx.kind = "CLAIM" -> [tx.list EXCEPT ![tx.bond] = "CLAIMED"]
      [] OTHER -> bonds

\* approveInfiniteBond, approveAmm and approveTokens: the flag of the token is set,
\* and the next one is approved.
approvalConfirmed(n) ==
    LET tx == btxs[n] IN
    /\ tx.status = "mined" /\ tx.pairs # <<>>
    /\ approved' = approved \cup {Head(tx.pairs)}
    /\ IF Len(tx.pairs) > 1
       THEN /\ btxs' = [btxs EXCEPT ![n].pairs = Tail(@), ![n].status = "sent"]
            /\ UNCHANGED statuses
       ELSE /\ btxs' = [btxs EXCEPT ![n].status = "done"]
            /\ statuses' = [statuses EXCEPT ![tx.kind] = "CONFIRMED"]
    /\ UNCHANGED <<bondView, bondViewRef, selectedBondId, inputToken, listVars, checks, paneVars,
                   owned, allowed, activity>>

\* The other transactions change the list, ask for a synchronisation and say that
\* they are confirmed.
confirmed(n) ==
    LET tx == btxs[n] IN
    /\ tx.status = "mined" /\ tx.pairs = <<>>
    /\ btxs' = [btxs EXCEPT ![n].status = "done"]
    /\ statuses' = [statuses EXCEPT ![tx.kind] = "CONFIRMED"]
    /\ bonds' = listAfter(tx)
    /\ optimisticBond' = (optimisticBond \/ tx.kind = "CREATE")
    /\ sync' = [sync EXCEPT !.should = TRUE]
    /\ IF isValidEvent(bondViewRef, confirmedEvent[tx.kind])
       THEN goTo(bondTransition(bondViewRef, confirmedEvent[tx.kind]))
       ELSE UNCHANGED <<bondView, paneVars>>
    /\ UNCHANGED <<bondViewRef, selectedBondId, inputToken, hasLoaded, approvalVars, owned, allowed, activity>>

transactionFailed(n) ==
    /\ btxs[n].status = "failed"
    /\ btxs' = [btxs EXCEPT ![n].status = "done"]
    /\ statuses' = [statuses EXCEPT ![btxs[n].kind] = "FAILED"]
    /\ UNCHANGED <<bondView, bondViewRef, selectedBondId, inputToken, listVars, approvalVars, paneVars,
                   owned, allowed, activity>>

\* The status goes after 2.6 seconds.
statusTimer(kind) ==
    /\ statuses[kind] \in {"CONFIRMED", "FAILED"}
    /\ statuses' = [statuses EXCEPT ![kind] = "IDLE"]
    /\ UNCHANGED <<bondView, bondViewRef, selectedBondId, inputToken, listVars, approvalVars, paneVars,
                   btxs, owned, allowed, activity>>

--------------------------------------------------------------------------------
(***************************************************************************)
(* Synchronisation: every 15 seconds and after every transaction.          *)
(***************************************************************************)
unchangedBySync ==
    UNCHANGED <<bondView, bondViewRef, selectedBondId, inputToken, approvalVars, statuses, paneVars,
                btxs, owned, allowed>>

\* setIsSynchronizing(true) clears the timer of the interval.
synchronize ==
    /\ sync.should /\ sync.step = "none"
    /\ sync' = [sync EXCEPT !.step = "ids", !.timer = FALSE]
    /\ UNCHANGED <<bonds, hasLoaded, optimisticBond, activity>> /\ unchangedBySync

\* getAccountBonds first reads which bonds there are, then their statuses.
getAccountBonds ==
    /\ \/ /\ sync.step = "ids"
          /\ sync' = [sync EXCEPT !.step = "statuses", !.ids = {b \in 1 .. NumBonds : owned[b] # "NON_EXISTENT"}]
       \/ /\ sync.step = "statuses"
          /\ sync' = [sync EXCEPT !.step = "read", !.list =
                        [b \in 1 .. NumBonds |-> IF b \in sync.ids THEN owned[b] ELSE "NON_EXISTENT"]]
    /\ UNCHANGED <<bonds, hasLoaded, optimisticBond, activity>> /\ unchangedBySync

\* Mutated form: the interval is not started again.
timerAfterSync_Off == FALSE

timerAfterSync == TRUE

\* A list that could not be read is taken for an empty one.
getLatestData ==
    /\ \/ sync.step = "read" /\ bonds' = sync.list /\ UNCHANGED activity
       \/ /\ sync.step \in {"ids", "statuses"} /\ mayGoOn /\ activity' = activity + 1
          /\ bonds' = NoBonds
    /\ hasLoaded' = TRUE
    /\ optimisticBond' = FALSE
    /\ sync' = [sync EXCEPT !.should = FALSE, !.step = "none", !.timer = timerAfterSync,
                            !.ids = {}, !.list = NoBonds]
    /\ unchangedBySync

\* Another read fails: the synchronisation starts again.
synchronizeFails ==
    /\ sync.step # "none" /\ mayGoOn
    /\ activity' = activity + 1
    /\ sync' = [sync EXCEPT !.step = "none", !.timer = TRUE, !.ids = {}, !.list = NoBonds]
    /\ UNCHANGED <<bonds, hasLoaded, optimisticBond>> /\ unchangedBySync

interval ==
    /\ sync.timer
    /\ sync' = [sync EXCEPT !.timer = FALSE, !.should = TRUE]
    /\ UNCHANGED <<bonds, hasLoaded, optimisticBond, activity>> /\ unchangedBySync

commitBondView ==
    /\ bondViewRef # bondView
    /\ bondViewRef' = bondView
    /\ UNCHANGED <<bondView, selectedBondId, inputToken, listVars, approvalVars, statuses, paneVars, btxs,
                   owned, allowed, activity>>

--------------------------------------------------------------------------------
\* The approvals of one pane are unknown, not given and being read; or all are known.
BondsInit ==
    /\ bondView = "IDLE" /\ bondViewRef = "IDLE" /\ selectedBondId = 0 /\ inputToken = "BLUSD"
    /\ owned = [b \in 1 .. NumBonds |-> IF b = 1 THEN "PENDING" ELSE "NON_EXISTENT"]
    /\ bonds = NoBonds /\ hasLoaded = FALSE /\ optimisticBond = FALSE
    /\ sync = [should |-> TRUE, timer |-> TRUE, step |-> "none", ids |-> {}, list |-> NoBonds]
    /\ \E missing \in {{}, {<<"LUSD", "bonds">>}, {<<"BLUSD", "amm">>}, {<<"LP", "gauge">>},
                       {<<"LUSD", "zapper">>, <<"BLUSD", "zapper">>}, {<<"LUSD", "zapper">>},
                       {<<"LP", "zapper">>}} :
          /\ allowed = approvals \ missing /\ approved = allowed
          /\ checks = [of : missing \cap checked, value : {FALSE}]
    /\ statuses = [k \in Kinds |-> "IDLE"]
    /\ pane = NoPane /\ asked = {} /\ btxs = <<>> /\ activity = 0

syncSteps == synchronize \/ getAccountBonds \/ getLatestData \/ interval

BondsNext ==
    \/ syncSteps \/ synchronizeFails \/ commitBondView
    \/ \E check \in checks : isTokenApproved(check)
    \/ \E e \in Idle \cup Actions
               \cup [event : {"ABORT_PRESSED", "BACK_PRESSED"}, bond : {0}, token : {inputToken}] : pressButton(e)
    \/ \E o \in offered : dispatchEvent(o)
    \/ \E amount \in 0 .. 2 : editAmount(amount)
    \/ askForEstimate
    \/ \E a \in asked : getExpectedSwapOutput(a)
    \/ \E n \in DOMAIN btxs : mineBondTransaction(n) \/ approvalConfirmed(n) \/ confirmed(n) \/ transactionFailed(n)
    \/ \E kind \in Kinds : statusTimer(kind)

--------------------------------------------------------------------------------
(* When nothing more happens the list shows the user's bonds as they are:   *)
(* not a list of before the last transaction, which a synchronisation that  *)
(* was under way or the callback of another transaction wrote, not the      *)
(* empty list of a read that failed, and not a bond that was assumed.       *)
ListCatchesUp == <>[](hasLoaded /\ bonds = owned /\ ~optimisticBond)

(* What a pane rests on is no late answer: the output that a swap will be   *)
(* held to is the one for the amount and token in the form, once the form   *)
(* has not been edited for a while; and an approval that is thought to be   *)
(* given is given, except that LUSD is thought approved for the zapper when *)
(* bLUSD is.                                                                *)
PanesCurrent ==
    /\ bondView = "SWAPPING" /\ ~pane.timer /\ pane.estimate # {} => pane.estimate = {pane.input}
    /\ \A p \in approved :
          p \in allowed \/ (p = <<"LUSD", "zapper">> /\ <<"BLUSD", "zapper">> \in allowed)
================================================================================
