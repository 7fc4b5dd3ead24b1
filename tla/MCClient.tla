-------------------------------- MODULE MCClient --------------------------------
(***************************************************************************)
(* The client libraries for TLC: EthersLiquity with its store, the watch   *)
(* methods and the conversions of Decimal.  They share no state; part says *)
(* which of them moves.  In EthersLiquity a minute is three seconds and    *)
(* one is 1000, so that the tolerances of half and a tenth of a percent    *)
(* are whole numbers.                                                      *)
(***************************************************************************)
EXTENDS EthersLiquity, Observable, Decimals

VARIABLE part

\* Others have a trove of 4000 against 2000; the user has none or one of the
\* smallest size, which is the one a store is watched with.
MCUserTroves == {emptyTrove, trove(500, MIN_NET_DEBT + LUSD_GAS_COMPENSATION)}
MCOthersTrove == trove(4000, 2000)

Init ==
    /\ ClientInit /\ ObservableInit /\ DecimalsInit
    /\ part \in {"client", "observable", "decimals"}
    /\ part # "client" => blocks[1].baseRate = 0 /\ blocks[1].trove = emptyTrove
    /\ part # "observable" => watch = "trove"
    /\ part # "decimals" => shown = {} /\ typed = {}

MCNext ==
    /\ UNCHANGED <<part, decimalVars>>
    /\ \/ /\ part = "client" /\ Next /\ UNCHANGED observableVars
          /\ useStore' => blocks[1].trove # emptyTrove /\ blocks[1].baseRate = 40
       \/ part = "observable" /\ ObservableNext /\ UNCHANGED vars

Spec == Init /\ [][MCNext]_<<part, vars, observableVars, decimalVars>>

\* Small Decimals, and those around which one more digit or thousand is shown.
MCAmounts ==
    (0..1100) \cup {Infinity} \cup
    UNION {(5 * k - 6)..(5 * k + 6) :
              k \in {1999, 2000, 19990, 20000, 199899, 199900, 199990, 200000, 1999900, 2000000, 20000000}}
MCMantissas == [value : {0, 5, 50, 123, 999}, length : 3..4] \cup [value : {0, 4}, length : 0..1]

\* A loan that decay takes below the minimum, and one that it does not; a
\* deposit, a withdrawal and a repayment.
MCTroveRequests ==
    {[NoParams EXCEPT !.depositCollateral = 500, !.borrowLUSD = loan] : loan \in {195, 230}}
    \cup {[NoParams EXCEPT !.withdrawCollateral = 50, !.borrowLUSD = 20],
          [NoParams EXCEPT !.repayLUSD = 10]}
================================================================================
