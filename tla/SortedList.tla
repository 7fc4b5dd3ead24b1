------------------------------- MODULE SortedList -------------------------------
(***************************************************************************)
(* What SortedTroves.sol promises: one list of ids, largest nominal ICR    *)
(* first.  An id enters only between two neighbours whose ratios bracket   *)
(* its own, and leaves without disturbing the others.  The ratios belong   *)
(* to the TroveManager and change as it likes between two operations.      *)
(***************************************************************************)
EXTENDS Naturals, Sequences, SequencesExt

CONSTANT Ids

VARIABLES list, nicr

Init == list = <<>>

\* id becomes the element at position k.
Insert(id, k) ==
    /\ ~Contains(list, id)
    /\ k > 1 => nicr[list[k - 1]] >= nicr[id]
    /\ k <= Len(list) => nicr[id] >= nicr[list[k]]
    /\ list' = InsertAt(list, k, id)

Delete(k) == list' = RemoveAt(list, k)

Next ==
    \/ \E k \in 1..Len(list) : Delete(k)
    \/ \E id \in Ids, k \in 1..(Len(list) + 1) : Insert(id, k)

Spec == Init /\ [][Next]_list
================================================================================
