------------------------------- MODULE MCSubgraph -------------------------------
(***************************************************************************)
(* Small instances of Liquity, the Subgraph and the readers of troves.     *)
(***************************************************************************)
EXTENDS TroveListing, TLC

CONSTANTS MaxTransactions   \* how many transactions are sent

VARIABLE transactions       \* how many were sent

MCInit == SInit /\ transactions = 0

MCNext ==
    \/ /\ transactions < MaxTransactions
       /\ STransaction
       /\ transactions' = transactions + 1
    \/ /\ IndexedStep
       /\ UNCHANGED transactions

MCSpec == MCInit /\ [][MCNext]_<<svars, transactions>>

BorrowersSymmetry == Permutations(Borrowers)

\* Arrays for batchLiquidateTroves, one that names a trove twice too.
MCBatches == [1..2 -> Borrowers]

\* Signed changes, which a configuration file cannot write.
MCChanges == {-60, 0, 60}
================================================================================
