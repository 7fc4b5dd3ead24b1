------------------------------- MODULE MCLiquity --------------------------------
(***************************************************************************)
(* Small instances of Liquity for TLC: three borrowers, few amounts, and a *)
(* bound on the number of transactions.  A fixed-point one is 200, so that *)
(* half a percent is a unit and divisions round visibly.                   *)
(***************************************************************************)
EXTENDS Fuzzer, TLC

CONSTANTS MaxTransactions   \* how many transactions are sent

VARIABLE transactions       \* how many were sent

MCInit == Init /\ transactions = 0

MCNext ==
    \/ /\ transactions < MaxTransactions
       /\ BorrowerAction \/ DepositorAction \/ TransferAction \/ LiquidatorAction \/ RedeemerAction
            \/ PriceAction
       /\ transactions' = transactions + 1
    \/ /\ LiquidationStep \/ RedemptionStep
       /\ UNCHANGED transactions

MCSpec == MCInit /\ [][MCNext]_<<vars, transactions>>

BorrowersSymmetry == Permutations(Borrowers)

\* Arrays for batchLiquidateTroves, one that names a trove twice too.
MCBatches == [1..2 -> Borrowers]

\* Signed changes, which a configuration file cannot write.
MCChanges == {-60, 0, 60}
================================================================================
