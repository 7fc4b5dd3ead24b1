------------------------------ MODULE SortedTroves ------------------------------
(***************************************************************************)
(* The doubly linked list of SortedTroves.sol, kept in descending order of *)
(* the troves' nominal collateral ratio (NICR).  A caller passes two       *)
(* neighbours as a hint for the insert position.  The hint may be wrong or *)
(* stale (the list changes between the moment the client computes it and   *)
(* the transaction), and then the list is walked from whatever is left of  *)
(* it.  The ratios are read from the TroveManager at run time; between two *)
(* transactions they change, and no order of them is assumed here.         *)
(*                                                                         *)
(* One transaction takes several steps: search holds the loop variables of *)
(* _descendList or _ascendList, and nothing else happens until the node is *)
(* linked.                                                                 *)
(***************************************************************************)
EXTENDS Integers

CONSTANTS
    Ids,        \* addresses of borrowers
    Null,       \* address(0)
    maxSize,    \* capacity, fixed by setParams
    UintMax,    \* NICR of a trove without debt (2^256 - 1)
    MaxNICR     \* bound: largest ratio of a trove with debt

ASSUME SortedTrovesAssumption ==
    /\ Null \notin Ids
    /\ maxSize \in Nat \ {0}
    /\ UintMax \in Nat /\ MaxNICR \in Nat /\ MaxNICR < UintMax

VARIABLES
    listed,     \* ids whose node has exists = true
    nextId,     \* node -> next node, smaller NICR
    prevId,     \* node -> previous node, larger NICR
    head, tail, size,
    nicr,       \* what TroveManager.getNominalICR returns
    search      \* the insertion in progress

vars == <<listed, nextId, prevId, head, tail, size, nicr, search>>

Addr == Ids \union {Null}
Ratios == 1..MaxNICR

Search == [phase : {"idle", "hint", "descend", "ascend", "link"}, id : Addr, prev : Addr, next : Addr]

NoSearch == [phase |-> "idle", id |-> Null, prev |-> Null, next |-> Null]

contains(id) == id \in listed
isFull == size = maxSize
isEmpty == size = 0
getNominalICR(id) == nicr[id]

\* Mutated form: the previous node's ratio is not compared.
validInsertPosition_OneSided(N, prev, next) ==
    \/ /\ prev = Null /\ next = Null
       /\ isEmpty
    \/ /\ prev = Null /\ next # Null
       /\ head = next /\ N >= getNominalICR(next)
    \/ /\ prev # Null /\ next = Null
       /\ tail = prev /\ N <= getNominalICR(prev)
    \/ /\ prev # Null /\ next # Null
       /\ nextId[prev] = next /\ N >= getNominalICR(next)

\* May a node with ratio N go between prev and next?
validInsertPosition(N, prev, next) ==
    \/ /\ prev = Null /\ next = Null
       /\ isEmpty
    \/ /\ prev = Null /\ next # Null
       /\ head = next /\ N >= getNominalICR(next)
    \/ /\ prev # Null /\ next = Null
       /\ tail = prev /\ N <= getNominalICR(prev)
    \/ /\ prev # Null /\ next # Null
       /\ nextId[prev] = next
       /\ getNominalICR(prev) >= N /\ N >= getNominalICR(next)

(***************************************************************************)
(* _findInsertPosition: drop the halves of the hint that no longer hold,   *)
(* then start the walk.  A walk that starts at an end of the list may be   *)
(* over at once.                                                           *)
(***************************************************************************)
At(phase, id, prev, next) == [phase |-> phase, id |-> id, prev |-> prev, next |-> next]

descendList(id, N, start) ==
    IF head = start /\ N >= getNominalICR(start)
    THEN At("link", id, Null, start)
    ELSE At("descend", id, start, nextId[start])

ascendList(id, N, start) ==
    IF tail = start /\ N <= getNominalICR(start)
    THEN At("link", id, start, Null)
    ELSE At("ascend", id, prevId[start], start)

findInsertPosition(id, N, prevHint, nextHint) ==
    LET prev == IF contains(prevHint) /\ N <= getNominalICR(prevHint) THEN prevHint ELSE Null
        next == IF contains(nextHint) /\ N >= getNominalICR(nextHint) THEN nextHint ELSE Null
    IN  IF prev = Null /\ next = Null THEN descendList(id, N, head)
        ELSE IF prev = Null THEN ascendList(id, N, next)
        ELSE descendList(id, N, prev)

\* The part of _insert before the node is written.
FindPosition(id, N, prevHint, nextHint) ==
    IF validInsertPosition(N, prevHint, nextHint)
    THEN At("link", id, prevHint, nextHint)
    ELSE findInsertPosition(id, N, prevHint, nextHint)

(***************************************************************************)
(* _remove: unlink the node and delete its struct.                         *)
(***************************************************************************)
RemovedNext(id) ==
    LET unlinked ==
          IF size = 1 \/ id = head THEN nextId
          ELSE IF id = tail THEN [nextId EXCEPT ![prevId[id]] = Null]
          ELSE [nextId EXCEPT ![prevId[id]] = nextId[id]]
    IN  [unlinked EXCEPT ![id] = Null]

\* Mutated form: the new head keeps its pointer to the removed node.
RemovedPrev_StaleHead(id) ==
    LET unlinked ==
          IF size = 1 \/ id = head \/ id = tail THEN prevId
          ELSE [prevId EXCEPT ![nextId[id]] = prevId[id]]
    IN  [unlinked EXCEPT ![id] = Null]

RemovedPrev(id) ==
    LET unlinked ==
          IF size = 1 THEN prevId
          ELSE IF id = head THEN [prevId EXCEPT ![nextId[id]] = Null]
          ELSE IF id = tail THEN prevId
          ELSE [prevId EXCEPT ![nextId[id]] = prevId[id]]
    IN  [unlinked EXCEPT ![id] = Null]

\* Mutated form: the head is not moved.
RemovedHead_Kept(id) == IF size = 1 THEN Null ELSE head

RemovedHead(id) == IF size = 1 THEN Null ELSE IF id = head THEN nextId[id] ELSE head

RemovedTail(id) ==
    IF size = 1 THEN Null ELSE IF id = tail /\ id # head THEN prevId[id] ELSE tail

Unlink(id) ==
    /\ listed' = listed \ {id}
    /\ nextId' = RemovedNext(id)
    /\ prevId' = RemovedPrev(id)
    /\ head' = RemovedHead(id)
    /\ tail' = RemovedTail(id)
    /\ size' = size - 1

--------------------------------------------------------------------------------
(***************************************************************************)
(* Actions.                                                                *)
(***************************************************************************)

\* insert(id, N, prevHint, nextHint), called by BorrowerOperations.openTrove
\* after the new trove was stored with ratio N: the checks and the hint.
insert(id, N, prevHint, nextHint) ==
    /\ search.phase = "idle"
    /\ ~isFull /\ ~contains(id) /\ N > 0
    /\ search' = FindPosition(id, N, prevHint, nextHint)
    /\ nicr' = [nicr EXCEPT ![id] = N]
    /\ UNCHANGED <<listed, nextId, prevId, head, tail, size>>

\* Mutated form: only one of the two loop variables advances.
DescendStep_PrevStays ==
    /\ search.phase = "descend"
    /\ \/ /\ search.prev = Null \/ validInsertPosition(nicr[search.id], search.prev, search.next)
          /\ search' = [search EXCEPT !.phase = "link"]
       \/ /\ search.prev # Null
          /\ ~validInsertPosition(nicr[search.id], search.prev, search.next)
          /\ search' = [search EXCEPT !.next = nextId[search.next]]
    /\ UNCHANGED <<listed, nextId, prevId, head, tail, size, nicr>>

\* One iteration of the loop of _descendList.
DescendStep ==
    /\ search.phase = "descend"
    /\ \/ /\ search.prev = Null \/ validInsertPosition(nicr[search.id], search.prev, search.next)
          /\ search' = [search EXCEPT !.phase = "link"]
       \/ /\ search.prev # Null
          /\ ~validInsertPosition(nicr[search.id], search.prev, search.next)
          /\ search' = [search EXCEPT !.prev = nextId[search.prev],
                                      !.next = nextId[nextId[search.prev]]]
    /\ UNCHANGED <<listed, nextId, prevId, head, tail, size, nicr>>

\* One iteration of the loop of _ascendList.
AscendStep ==
    /\ search.phase = "ascend"
    /\ \/ /\ search.next = Null \/ validInsertPosition(nicr[search.id], search.prev, search.next)
          /\ search' = [search EXCEPT !.phase = "link"]
       \/ /\ search.next # Null
          /\ ~validInsertPosition(nicr[search.id], search.prev, search.next)
          /\ search' = [search EXCEPT !.next = prevId[search.next],
                                      !.prev = prevId[prevId[search.next]]]
    /\ UNCHANGED <<listed, nextId, prevId, head, tail, size, nicr>>

\* The writes of _insert.  The head and tail of the list, not the position
\* found, are used where one side of the position is null.
Link ==
    LET id == search.id
        prev == search.prev
        next == search.next
    IN  /\ search.phase = "link"
        /\ listed' = listed \union {id}
        /\ \/ /\ prev = Null /\ next = Null
              /\ head' = id /\ tail' = id
              /\ UNCHANGED <<nextId, prevId>>
           \/ /\ prev = Null /\ next # Null
              /\ nextId' = [nextId EXCEPT ![id] = head]
              /\ prevId' = [prevId EXCEPT ![head] = id]
              /\ head' = id
              /\ UNCHANGED tail
           \/ /\ prev # Null /\ next = Null
              /\ prevId' = [prevId EXCEPT ![id] = tail]
              /\ nextId' = [nextId EXCEPT ![tail] = id]
              /\ tail' = id
              /\ UNCHANGED head
           \/ /\ prev # Null /\ next # Null
              /\ nextId' = [nextId EXCEPT ![id] = next, ![prev] = id]
              /\ prevId' = [prevId EXCEPT ![id] = prev, ![next] = id]
              /\ UNCHANGED <<head, tail>>
        /\ size' = size + 1
        /\ search' = NoSearch
        /\ UNCHANGED nicr

\* remove(id), called by the TroveManager when it has closed the trove: the
\* trove has no debt any more.
remove(id) ==
    /\ search.phase = "idle"
    /\ contains(id)
    /\ Unlink(id)
    /\ nicr' = [nicr EXCEPT ![id] = UintMax]
    /\ UNCHANGED search

\* The first half of reInsert(id, N, prevHint, nextHint), called after the
\* trove's ratio became N: the node is removed.  Its own id may be a hint.
reInsert(id, N, prevHint, nextHint) ==
    /\ search.phase = "idle"
    /\ contains(id) /\ N > 0
    /\ Unlink(id)
    /\ nicr' = [nicr EXCEPT ![id] = N]
    /\ search' = [phase |-> "hint", id |-> id, prev |-> prevHint, next |-> nextHint]

\* The second half of reInsert: the checks of _insert and the hint.
ReInsertFind ==
    /\ search.phase = "hint"
    /\ ~isFull /\ ~contains(search.id)
    /\ search' = FindPosition(search.id, nicr[search.id], search.prev, search.next)
    /\ UNCHANGED <<listed, nextId, prevId, head, tail, size, nicr>>

\* Redistributions and redemptions change the ratios of listed troves.
ChangeNICR ==
    /\ search.phase = "idle"
    /\ \E f \in [listed -> Ratios] :
          nicr' = [x \in Addr |-> IF x \in listed THEN f[x] ELSE nicr[x]]
    /\ UNCHANGED <<listed, nextId, prevId, head, tail, size, search>>

Init ==
    /\ listed = {}
    /\ nextId = [x \in Addr |-> Null]
    /\ prevId = [x \in Addr |-> Null]
    /\ head = Null /\ tail = Null /\ size = 0
    /\ nicr = [x \in Addr |-> UintMax]
    /\ search = NoSearch

Next ==
    \/ \E id \in Ids, N \in Ratios, prevHint, nextHint \in Addr :
          insert(id, N, prevHint, nextHint) \/ reInsert(id, N, prevHint, nextHint)
    \/ ReInsertFind
    \/ DescendStep
    \/ AscendStep
    \/ Link
    \/ \E id \in Ids : remove(id)
    \/ ChangeNICR

Spec == Init /\ [][Next]_vars

\* A transaction that was started runs to its end.
FairSpec == Spec /\ WF_vars(ReInsertFind \/ DescendStep \/ AscendStep \/ Link)

--------------------------------------------------------------------------------
(***************************************************************************)
(* Properties.                                                             *)
(***************************************************************************)

\* Type correctness; the list never outgrows maxSize.
TypeOK ==
    /\ listed \subseteq Ids
    /\ nextId \in [Addr -> Addr] /\ prevId \in [Addr -> Addr]
    /\ head \in Addr /\ tail \in Addr
    /\ size \in 0..maxSize
    /\ nicr \in [Addr -> Nat]
    /\ search \in Search

\* The pointers spell the sequence order forwards and backwards.
Spells(order) ==
    /\ \A x \in Ids : x \in listed <=> \E i \in 1..size : order[i] = x
    /\ \A i, j \in 1..size : order[i] = order[j] => i = j
    /\ IF size = 0 THEN head = Null /\ tail = Null
                   ELSE head = order[1] /\ tail = order[size]
    /\ \A i \in 1..size :
          /\ nextId[order[i]] = IF i = size THEN Null ELSE order[i + 1]
          /\ prevId[order[i]] = IF i = 1 THEN Null ELSE order[i - 1]

\* The nodes that exist are one doubly linked list from head to tail, as many
\* as size says: no node is lost, shared or on a cycle of its own, and a node
\* that does not exist, address(0) included, points nowhere.
DoublyLinked ==
    /\ \E order \in [1..size -> Ids] : Spells(order)
    /\ \A x \in Addr \ listed : nextId[x] = Null /\ prevId[x] = Null

\* Whatever the hint was and however the ratios are ordered, a search ends at a
\* position that is valid when the node is linked: it never walks off the end of
\* the list, where _insert would take (null, null) for an empty list.
PositionValid ==
    search.phase = "link" =>
      validInsertPosition(nicr[search.id], search.prev, search.next)

\* What the loops of the search keep true: the end of the walk that faces the
\* node to insert bounds its ratio from the right side.
SearchOK ==
    LET N == nicr[search.id]
    IN  /\ search.phase # "idle" => search.id \in Ids \ listed /\ size < maxSize
        /\ search.phase = "descend" =>
             \/ search.prev = Null /\ search.next = Null /\ size = 0
             \/ /\ search.prev \in listed /\ search.next = nextId[search.prev]
                /\ nicr[search.prev] >= N
        /\ search.phase = "ascend" =>
             /\ search.next \in listed /\ search.prev = prevId[search.next]
             /\ N >= nicr[search.next]
        /\ PositionValid

\* Neighbours are in descending order.
Sorted == \A x \in listed : nextId[x] # Null => nicr[x] >= nicr[nextId[x]]

\* A change of the ratios that keeps the order of the listed troves.
KeepsOrder == \A x, y \in listed : nicr[x] >= nicr[y] => nicr'[x] >= nicr'[y]

\* Every operation keeps a sorted list sorted; only a change of the ratios
\* themselves, outside SortedTroves, can break the order.
SortedPreserved == [][Sorted /\ (ChangeNICR => KeepsOrder) => Sorted']_vars

\* What a client reads by walking from the head: getFirst, then getNext as often
\* as getSize says.
NodeAt[k \in 1..maxSize] == IF k = 1 THEN head ELSE nextId[NodeAt[k - 1]]
WalkFromHead == [k \in 1..size |-> NodeAt[k]]

Abstract == INSTANCE SortedList WITH list <- WalkFromHead

\* The walk from the head is a list that changes only by bracketed insertions
\* and by removals.
ImplementsSortedList == Abstract!Spec

\* Every search ends: the loops of _descendList and _ascendList terminate.
SearchEnds == search.phase # "idle" ~> search.phase = "idle"
================================================================================
