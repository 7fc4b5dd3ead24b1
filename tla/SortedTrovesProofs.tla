--------------------------- MODULE SortedTrovesProofs ---------------------------
(***************************************************************************)
(* Proofs about SortedTroves, for every set of ids, every capacity and     *)
(* every way the ratios may change.                                        *)
(***************************************************************************)
EXTENDS SortedTroves, SequenceTheorems, NaturalsInduction, WellFoundedInduction, TLAPS

\* The inductive invariant.
Inv == TypeOK /\ DoublyLinked /\ SearchOK

USE DEF Addr

(***************************************************************************)
(* Writing one node into, or out of, a list that spells a sequence.        *)
(***************************************************************************)

\* The step writes id into the list spelled by order, as its position k.
LinkedAt(order, id, k) ==
    /\ listed' = listed \union {id}
    /\ size' = size + 1
    /\ nextId'[id] = IF k = size + 1 THEN Null ELSE order[k]
    /\ prevId'[id] = IF k = 1 THEN Null ELSE order[k - 1]
    /\ \A x \in Addr \ {id} :
          nextId'[x] = IF k > 1 /\ x = order[k - 1] THEN id ELSE nextId[x]
    /\ \A x \in Addr \ {id} :
          prevId'[x] = IF k <= size /\ x = order[k] THEN id ELSE prevId[x]
    /\ head' = IF k = 1 THEN id ELSE head
    /\ tail' = IF k = size + 1 THEN id ELSE tail

\* The n values of order with id as position k.
InsertedOrder(order, n, k, id) ==
    [i \in 1..(n + 1) |-> IF i < k THEN order[i] ELSE IF i = k THEN id ELSE order[i - 1]]

\* A node that is linked between positions k-1 and k becomes position k.
LEMMA InsertedSpells ==
    ASSUME TypeOK, DoublyLinked,
           NEW order \in [1..size -> Ids], Spells(order),
           NEW id \in Ids \ listed, NEW k \in 1..(size + 1), LinkedAt(order, id, k),
           NEW new, new = InsertedOrder(order, size, k, id)
    PROVE  DoublyLinked' /\ Spells(new)' /\ new \in [1..size' -> Ids]
  <1> USE DEF LinkedAt
  <1>0. size \in Nat /\ Null \notin Ids
    BY SortedTrovesAssumption DEF TypeOK
  <1>a. new = [i \in 1..(size + 1) |-> IF i < k THEN order[i]
                                      ELSE IF i = k THEN id ELSE order[i - 1]]
    BY DEF InsertedOrder
  <1>1. /\ new \in [1..(size + 1) -> Ids]
        /\ new[k] = id
        /\ \A i \in 1..size : i < k => new[i] = order[i]
        /\ \A i \in 1..size : i >= k => new[i + 1] = order[i]
        /\ \A i \in 1..(size + 1) : i > k => new[i] = order[i - 1] /\ i - 1 \in 1..size
        /\ \A i \in 1..(size + 1) : i < k => new[i] = order[i] /\ i \in 1..size
    BY <1>0, <1>a
  <1>2. \A i \in 1..size : order[i] \in listed /\ order[i] \in Ids /\ order[i] # id
    BY DEF Spells
  <1>3. \A x \in Ids : x \in listed' <=> \E i \in 1..size' : new[i] = x
    <2> SUFFICES ASSUME NEW x \in Ids
                 PROVE  x \in listed \union {id} <=> \E i \in 1..(size + 1) : new[i] = x
      OBVIOUS
    <2>1. ASSUME x \in listed PROVE \E i \in 1..(size + 1) : new[i] = x
      <3>1. PICK i \in 1..size : order[i] = x
        BY <2>1 DEF Spells
      <3>2. CASE i < k
        BY <1>0, <1>1, <3>1, <3>2
      <3>3. CASE i >= k
        <4>1. i + 1 \in 1..(size + 1) /\ new[i + 1] = x
          BY <1>0, <1>1, <3>1, <3>3
        <4> QED
          BY <4>1
      <3> QED
        BY <1>0, <3>2, <3>3
    <2>2. \E i \in 1..(size + 1) : new[i] = id
      BY <1>1
    <2>3. ASSUME NEW i \in 1..(size + 1), new[i] = x PROVE x \in listed \union {id}
      BY <1>0, <1>1, <1>2, <2>3
    <2> QED
      BY <2>1, <2>2, <2>3
  <1>4. \A i, j \in 1..size' : new[i] = new[j] => i = j
    <2> SUFFICES ASSUME NEW i \in 1..(size + 1), NEW j \in 1..(size + 1), new[i] = new[j]
                 PROVE  i = j
      OBVIOUS
    <2>1. \A p, q \in 1..size : order[p] = order[q] => p = q
      BY DEF Spells
    <2> QED
      BY <1>0, <1>1, <1>2, <2>1
  <1>5. head' = new[1] /\ tail' = new[size']
    <2>1. size > 0 => head = order[1] /\ tail = order[size]
      BY <1>0 DEF Spells
    <2>2. head' = new[1]
      BY <1>0, <1>1, <2>1
    <2>3. tail' = new[size + 1]
      <3>1. CASE k = size + 1
        BY <1>1, <3>1
      <3>2. CASE k # size + 1
        <4>1. size + 1 > k /\ size + 1 \in 1..(size + 1) /\ size > 0
          BY <1>0, <3>2
        <4>2. new[size + 1] = order[size + 1 - 1] /\ size + 1 - 1 = size
          BY <1>0, <1>1, <4>1
        <4> QED
          BY <2>1, <3>2, <4>1, <4>2
      <3> QED
        BY <3>1, <3>2
    <2> QED
      BY <2>2, <2>3
  <1>6. ASSUME NEW i \in 1..(size + 1)
        PROVE  nextId'[new[i]] = IF i = size + 1 THEN Null ELSE new[i + 1]
    <2>1. \A p \in 1..size : nextId[order[p]] = IF p = size THEN Null ELSE order[p + 1]
      BY DEF Spells
    <2>2. \A p, q \in 1..size : order[p] = order[q] => p = q
      BY DEF Spells
    <2>3. CASE i = k
      <3>1. k # size + 1 => k + 1 \in 1..(size + 1) /\ new[k + 1] = order[k]
        BY <1>0, <1>1
      <3> QED
        BY <1>1, <2>3, <3>1
    <2>4. CASE i < k
      <3>1. i \in 1..size /\ new[i] = order[i]
        BY <1>1, <2>4
      <3>2. CASE i = k - 1
        <4>1. nextId'[order[i]] = id
          BY <1>0, <1>2, <3>1, <3>2
        <4>2. i # size + 1 /\ new[i + 1] = id
          BY <1>0, <1>1, <3>1, <3>2
        <4> QED
          BY <3>1, <4>1, <4>2
      <3>3. CASE i # k - 1
        <4>1. k - 1 \in 1..size /\ i < k - 1 /\ i + 1 \in 1..size
          BY <1>0, <2>4, <3>1, <3>3
        <4>2. order[i] # order[k - 1]
          BY <2>2, <3>1, <4>1
        <4>3. nextId'[order[i]] = order[i + 1]
          BY <1>0, <1>2, <2>1, <3>1, <4>1, <4>2
        <4>4. new[i + 1] = order[i + 1]
          BY <1>0, <1>1, <4>1
        <4> QED
          BY <1>0, <3>1, <4>3, <4>4
      <3> QED
        BY <3>2, <3>3
    <2>5. CASE i > k
      <3>1. i - 1 \in 1..size /\ new[i] = order[i - 1]
        BY <1>1, <2>5
      <3>2. k > 1 => order[i - 1] # order[k - 1]
        BY <1>0, <2>2, <2>5, <3>1
      <3>3. nextId'[order[i - 1]] = IF i - 1 = size THEN Null ELSE order[i]
        BY <1>0, <1>2, <2>1, <3>1, <3>2
      <3>4. i # size + 1 => new[i + 1] = order[i]
        BY <1>0, <1>1, <2>5
      <3> QED
        BY <1>0, <3>1, <3>3, <3>4
    <2> QED
      BY <1>0, <2>3, <2>4, <2>5
  <1>7. ASSUME NEW i \in 1..(size + 1)
        PROVE  prevId'[new[i]] = IF i = 1 THEN Null ELSE new[i - 1]
    <2>1. \A p \in 1..size : prevId[order[p]] = IF p = 1 THEN Null ELSE order[p - 1]
      BY DEF Spells
    <2>2. \A p, q \in 1..size : order[p] = order[q] => p = q
      BY DEF Spells
    <2>3. CASE i = k
      <3>1. k # 1 => new[k - 1] = order[k - 1]
        BY <1>0, <1>1
      <3> QED
        BY <1>1, <2>3, <3>1
    <2>4. CASE i < k
      <3>1. i \in 1..size /\ new[i] = order[i]
        BY <1>1, <2>4
      <3>2. k <= size => order[i] # order[k]
        BY <1>0, <2>2, <2>4, <3>1
      <3>3. prevId'[order[i]] = IF i = 1 THEN Null ELSE order[i - 1]
        BY <1>0, <1>2, <2>1, <3>1, <3>2
      <3>4. i # 1 => new[i - 1] = order[i - 1]
        BY <1>0, <1>1, <2>4, <3>1
      <3> QED
        BY <3>1, <3>3, <3>4
    <2>5. CASE i > k
      <3>1. i - 1 \in 1..size /\ new[i] = order[i - 1] /\ i # 1
        BY <1>0, <1>1, <2>5
      <3>2. CASE i - 1 = k
        <4>1. prevId'[order[k]] = id
          BY <1>0, <1>2, <3>1, <3>2
        <4> QED
          BY <1>0, <1>1, <3>1, <3>2, <4>1
      <3>3. CASE i - 1 # k
        <4>1. k \in 1..size /\ i - 1 > k /\ i - 2 \in 1..size
          BY <1>0, <2>5, <3>1, <3>3
        <4>2. order[i - 1] # order[k]
          BY <2>2, <3>1, <4>1
        <4>3. prevId'[order[i - 1]] = order[i - 2]
          BY <1>0, <1>2, <2>1, <3>1, <4>1, <4>2
        <4>4. new[i - 1] = order[i - 2]
          BY <1>0, <1>1, <3>1, <4>1
        <4> QED
          BY <3>1, <4>3, <4>4
      <3> QED
        BY <3>2, <3>3
    <2> QED
      BY <1>0, <2>3, <2>4, <2>5
  <1>8. \A x \in Addr \ listed' : nextId'[x] = Null /\ prevId'[x] = Null
    <2> SUFFICES ASSUME NEW x \in Addr \ listed' PROVE nextId'[x] = Null /\ prevId'[x] = Null
      OBVIOUS
    <2>1. x \in Addr \ listed /\ x # id
      OBVIOUS
    <2>2. nextId[x] = Null /\ prevId[x] = Null
      BY <2>1 DEF DoublyLinked
    <2>3. (k > 1 => x # order[k - 1]) /\ (k <= size => x # order[k])
      BY <1>0, <1>2, <2>1
    <2> QED
      BY <2>1, <2>2, <2>3
  <1>9. Spells(new)'
    BY <1>0, <1>3, <1>4, <1>5, <1>6, <1>7 DEF Spells
  <1> QED
    BY <1>1, <1>8, <1>9 DEF DoublyLinked

\* The step takes position k out of the list spelled by order.
UnlinkedAt(order, k) ==
    /\ listed' = listed \ {order[k]}
    /\ size' = size - 1
    /\ \A x \in Addr :
          nextId'[x] = IF x = order[k] THEN Null
                       ELSE IF k > 1 /\ x = order[k - 1] THEN nextId[order[k]]
                       ELSE nextId[x]
    /\ \A x \in Addr :
          prevId'[x] = IF x = order[k] THEN Null
                       ELSE IF k < size /\ x = order[k + 1] THEN prevId[order[k]]
                       ELSE prevId[x]
    /\ head' = IF k = 1 THEN nextId[order[1]] ELSE head
    /\ tail' = IF k = size THEN prevId[order[size]] ELSE tail

\* The n values of order without position k.
RemovedOrder(order, n, k) == [i \in 1..(n - 1) |-> IF i < k THEN order[i] ELSE order[i + 1]]

\* Taking out position k leaves the sequence without it.
LEMMA RemovedSpells ==
    ASSUME TypeOK, DoublyLinked,
           NEW order \in [1..size -> Ids], Spells(order),
           NEW k \in 1..size, UnlinkedAt(order, k),
           NEW new, new = RemovedOrder(order, size, k)
    PROVE  DoublyLinked' /\ Spells(new)' /\ new \in [1..size' -> Ids]
  <1> USE DEF UnlinkedAt
  <1>0. size \in Nat /\ size > 0 /\ Null \notin Ids /\ size - 1 \in Nat
    BY SortedTrovesAssumption DEF TypeOK
  <1>a. new = [i \in 1..(size - 1) |-> IF i < k THEN order[i] ELSE order[i + 1]]
    BY DEF RemovedOrder
  <1>1. /\ new \in [1..(size - 1) -> Ids]
        /\ \A i \in 1..(size - 1) : i < k => new[i] = order[i] /\ i \in 1..size
        /\ \A i \in 1..(size - 1) : i >= k => new[i] = order[i + 1] /\ i + 1 \in 1..size
    BY <1>0, <1>a
  <1>2. \A p, q \in 1..size : order[p] = order[q] => p = q
    BY DEF Spells
  <1>3. \A p \in 1..size : /\ order[p] \in listed /\ order[p] \in Ids
                           /\ nextId[order[p]] = IF p = size THEN Null ELSE order[p + 1]
                           /\ prevId[order[p]] = IF p = 1 THEN Null ELSE order[p - 1]
    BY DEF Spells
  <1>4. \A x \in Ids : x \in listed' <=> \E i \in 1..size' : new[i] = x
    <2> SUFFICES ASSUME NEW x \in Ids
                 PROVE  x \in listed \ {order[k]} <=> \E i \in 1..(size - 1) : new[i] = x
      OBVIOUS
    <2>1. ASSUME x \in listed, x # order[k] PROVE \E i \in 1..(size - 1) : new[i] = x
      <3>1. PICK i \in 1..size : order[i] = x
        BY <2>1 DEF Spells
      <3>2. CASE i < k
        BY <1>0, <1>1, <3>1, <3>2
      <3>3. CASE i > k
        <4>1. i - 1 \in 1..(size - 1) /\ i - 1 >= k /\ new[i - 1] = order[i - 1 + 1]
          BY <1>0, <1>1, <3>3
        <4>2. i - 1 + 1 = i
          BY <1>0
        <4> QED
          BY <3>1, <4>1, <4>2
      <3> QED
        BY <1>0, <2>1, <3>1, <3>2, <3>3
    <2>2. ASSUME NEW i \in 1..(size - 1), new[i] = x PROVE x \in listed \ {order[k]}
      <3>1. CASE i < k
        BY <1>0, <1>1, <1>2, <1>3, <2>2, <3>1
      <3>2. CASE i >= k
        <4>1. i + 1 \in 1..size /\ i + 1 # k /\ x = order[i + 1]
          BY <1>0, <1>1, <2>2, <3>2
        <4> QED
          BY <1>2, <1>3, <4>1
      <3> QED
        BY <1>0, <3>1, <3>2
    <2> QED
      BY <2>1, <2>2
  <1>5. \A i, j \in 1..size' : new[i] = new[j] => i = j
    <2> SUFFICES ASSUME NEW i \in 1..(size - 1), NEW j \in 1..(size - 1), new[i] = new[j]
                 PROVE  i = j
      OBVIOUS
    <2> QED
      BY <1>0, <1>1, <1>2
  <1>6. IF size' = 0 THEN head' = Null /\ tail' = Null
                     ELSE head' = new[1] /\ tail' = new[size']
    <2>1. head = order[1] /\ tail = order[size]
      BY <1>0 DEF Spells
    <2>2. CASE size = 1
      BY <1>0, <1>3, <2>2
    <2>3. CASE size > 1
      <3>1. head' = new[1]
        BY <1>0, <1>1, <1>3, <2>1, <2>3
      <3>2. CASE k = size
        <4>1. tail' = order[size - 1]
          BY <1>0, <1>3, <2>3, <3>2
        <4>2. new[size - 1] = order[size - 1]
          BY <1>0, <1>1, <2>3, <3>2
        <4> QED
          BY <1>0, <2>3, <3>1, <4>1, <4>2
      <3>3. CASE k < size
        <4>1. size - 1 \in 1..(size - 1) /\ size - 1 >= k
          BY <1>0, <2>3, <3>3
        <4>2. new[size - 1] = order[size - 1 + 1] /\ size - 1 + 1 = size
          BY <1>0, <1>1, <4>1
        <4>3. tail' = order[size]
          BY <1>0, <2>1, <3>3
        <4> QED
          BY <1>0, <2>3, <3>1, <4>2, <4>3
      <3> QED
        BY <1>0, <3>2, <3>3
    <2> QED
      BY <1>0, <2>2, <2>3
  <1>7. ASSUME NEW i \in 1..(size - 1)
        PROVE  nextId'[new[i]] = IF i = size - 1 THEN Null ELSE new[i + 1]
    <2>1. CASE i < k
      <3>1. i \in 1..size /\ new[i] = order[i] /\ order[i] # order[k]
        BY <1>0, <1>1, <1>2, <2>1
      <3>2. CASE i = k - 1
        <4>1. nextId'[order[i]] = nextId[order[k]]
          BY <1>0, <1>3, <3>1, <3>2
        <4>2. nextId[order[k]] = IF k = size THEN Null ELSE order[k + 1]
          BY <1>3
        <4>3. i # size - 1 => i + 1 \in 1..(size - 1) /\ i + 1 = k /\ new[i + 1] = order[k + 1]
          BY <1>0, <1>1, <3>2
        <4> QED
          BY <1>0, <3>1, <3>2, <4>1, <4>2, <4>3
      <3>3. CASE i # k - 1
        <4>1. k - 1 \in 1..size /\ i < k - 1 /\ i + 1 \in 1..(size - 1)
          BY <1>0, <2>1, <3>3
        <4>2. order[i] # order[k - 1]
          BY <1>0, <1>2, <3>1, <4>1
        <4>3. nextId'[order[i]] = order[i + 1]
          BY <1>0, <1>3, <3>1, <4>1, <4>2
        <4>4. new[i + 1] = order[i + 1]
          BY <1>0, <1>1, <4>1
        <4> QED
          BY <1>0, <3>1, <4>1, <4>3, <4>4
      <3> QED
        BY <3>2, <3>3
    <2>2. CASE i >= k
      <3>1. i + 1 \in 1..size /\ new[i] = order[i + 1] /\ order[i + 1] # order[k]
        BY <1>0, <1>1, <1>2, <2>2
      <3>2. k > 1 => order[i + 1] # order[k - 1]
        BY <1>0, <1>2, <2>2, <3>1
      <3>3. nextId'[order[i + 1]] = IF i + 1 = size THEN Null ELSE order[i + 1 + 1]
        BY <1>0, <1>3, <3>1, <3>2
      <3>4. i # size - 1 => new[i + 1] = order[i + 1 + 1]
        <4>1. i # size - 1 => i + 1 \in 1..(size - 1) /\ i + 1 >= k
          BY <1>0, <2>2
        <4> QED
          BY <1>1, <4>1
      <3> QED
        BY <1>0, <3>1, <3>3, <3>4
    <2> QED
      BY <1>0, <2>1, <2>2
  <1>8. ASSUME NEW i \in 1..(size - 1)
        PROVE  prevId'[new[i]] = IF i = 1 THEN Null ELSE new[i - 1]
    <2>1. CASE i < k
      <3>1. i \in 1..size /\ new[i] = order[i] /\ order[i] # order[k]
        BY <1>0, <1>1, <1>2, <2>1
      <3>2. k < size => order[i] # order[k + 1]
        BY <1>0, <1>2, <2>1, <3>1
      <3>3. prevId'[order[i]] = IF i = 1 THEN Null ELSE order[i - 1]
        BY <1>0, <1>3, <3>1, <3>2
      <3>4. i # 1 => new[i - 1] = order[i - 1]
        BY <1>0, <1>1, <2>1
      <3> QED
        BY <3>1, <3>3, <3>4
    <2>2. CASE i = k
      <3>1. i + 1 \in 1..size /\ new[i] = order[i + 1] /\ order[i + 1] # order[k]
        BY <1>0, <1>1, <1>2, <2>2
      <3>2. prevId'[order[i + 1]] = prevId[order[k]]
        BY <1>0, <1>3, <2>2, <3>1
      <3>3. prevId[order[k]] = IF k = 1 THEN Null ELSE order[k - 1]
        BY <1>3
      <3>4. i # 1 => new[i - 1] = order[i - 1]
        BY <1>0, <1>1, <2>2
      <3> QED
        BY <2>2, <3>1, <3>2, <3>3, <3>4
    <2>3. CASE i > k
      <3>1. i + 1 \in 1..size /\ new[i] = order[i + 1] /\ order[i + 1] # order[k]
        BY <1>0, <1>1, <1>2, <2>3
      <3>2. order[i + 1] # order[k + 1]
        BY <1>0, <1>2, <2>3, <3>1
      <3>3. prevId'[order[i + 1]] = order[i + 1 - 1]
        <4>1. order[i + 1] \in Addr
          BY <1>3, <3>1
        <4>2. prevId'[order[i + 1]] = prevId[order[i + 1]]
          BY <3>1, <3>2, <4>1
        <4>3. i + 1 # 1
          BY <1>0
        <4> QED
          BY <1>3, <3>1, <4>2, <4>3
      <3>4. i # 1 /\ i - 1 \in 1..(size - 1) /\ i - 1 >= k
        BY <1>0, <2>3
      <3>5. new[i - 1] = order[i - 1 + 1] /\ i - 1 + 1 = i /\ i + 1 - 1 = i
        BY <1>0, <1>1, <3>4
      <3> QED
        BY <3>1, <3>3, <3>4, <3>5
    <2> QED
      BY <1>0, <2>1, <2>2, <2>3
  <1>9. \A x \in Addr \ listed' : nextId'[x] = Null /\ prevId'[x] = Null
    <2> SUFFICES ASSUME NEW x \in Addr \ listed', x # order[k]
                 PROVE  nextId'[x] = Null /\ prevId'[x] = Null
      OBVIOUS
    <2>1. nextId[x] = Null /\ prevId[x] = Null /\ x \notin listed
      BY DEF DoublyLinked
    <2>2. (k > 1 => x # order[k - 1]) /\ (k < size => x # order[k + 1])
      BY <1>0, <1>3, <2>1
    <2> QED
      BY <2>1, <2>2
  <1>10. Spells(new)'
    BY <1>0, <1>4, <1>5, <1>6, <1>7, <1>8 DEF Spells
  <1> QED
    BY <1>1, <1>9, <1>10 DEF DoublyLinked

(***************************************************************************)
(* Local facts about a doubly linked list.                                 *)
(***************************************************************************)
LEMMA LinkFacts ==
    ASSUME TypeOK, DoublyLinked
    PROVE  /\ size = 0 => listed = {} /\ head = Null /\ tail = Null
           /\ size > 0 => head \in listed /\ tail \in listed
           /\ \A x \in listed :
                 /\ x # Null
                 /\ nextId[x] = Null <=> x = tail
                 /\ prevId[x] = Null <=> x = head
                 /\ nextId[x] # Null => nextId[x] \in listed /\ prevId[nextId[x]] = x
                 /\ prevId[x] # Null => prevId[x] \in listed /\ nextId[prevId[x]] = x
           /\ \A x \in Addr \ listed : nextId[x] = Null /\ prevId[x] = Null
           /\ Null \notin listed
  <1>0. size \in Nat /\ Null \notin Ids /\ listed \subseteq Ids
    BY SortedTrovesAssumption DEF TypeOK
  <1>1. PICK order \in [1..size -> Ids] : Spells(order)
    BY DEF DoublyLinked
  <1>2. size = 0 => listed = {} /\ head = Null /\ tail = Null
    BY <1>0, <1>1 DEF Spells
  <1>3. size > 0 => head \in listed /\ tail \in listed
    BY <1>0, <1>1 DEF Spells
  <1>4. ASSUME NEW x \in listed
        PROVE  /\ nextId[x] = Null <=> x = tail
               /\ prevId[x] = Null <=> x = head
               /\ nextId[x] # Null => nextId[x] \in listed /\ prevId[nextId[x]] = x
               /\ prevId[x] # Null => prevId[x] \in listed /\ nextId[prevId[x]] = x
    <2>1. PICK i \in 1..size : order[i] = x
      BY <1>0, <1>1 DEF Spells
    <2>2. /\ nextId[x] = IF i = size THEN Null ELSE order[i + 1]
          /\ prevId[x] = IF i = 1 THEN Null ELSE order[i - 1]
          /\ head = order[1] /\ tail = order[size]
      BY <1>0, <1>1, <2>1 DEF Spells
    <2>3. \A p, q \in 1..size : order[p] = order[q] => p = q
      BY <1>1 DEF Spells
    <2>4. \A p \in 1..size : order[p] \in listed /\ order[p] # Null
      BY <1>0, <1>1 DEF Spells
    <2>5. i # size => i + 1 \in 1..size /\ prevId[order[i + 1]] = x
      BY <1>0, <1>1, <2>1 DEF Spells
    <2>6. i # 1 => i - 1 \in 1..size /\ nextId[order[i - 1]] = x
      <3>1. i # 1 => i - 1 \in 1..size /\ i - 1 # size /\ i - 1 + 1 = i
        BY <1>0
      <3> QED
        BY <1>1, <2>1, <3>1 DEF Spells
    <2>7. 1 \in 1..size /\ size \in 1..size
      BY <1>0
    <2>8. nextId[x] = Null <=> x = tail
      BY <2>1, <2>2, <2>3, <2>4, <2>5, <2>7
    <2>9. prevId[x] = Null <=> x = head
      BY <2>1, <2>2, <2>3, <2>4, <2>6, <2>7
    <2> QED
      BY <2>2, <2>4, <2>5, <2>6, <2>8, <2>9
  <1> QED
    BY <1>0, <1>2, <1>3, <1>4 DEF DoublyLinked

\* A valid position is made of listed nodes.
LEMMA ValidListed ==
    ASSUME TypeOK, DoublyLinked, NEW N \in Nat, NEW prev \in Addr, NEW next \in Addr,
           validInsertPosition(N, prev, next)
    PROVE  /\ prev = Null \/ prev \in listed
           /\ next = Null \/ next \in listed
  <1>0. size \in Nat
    BY DEF TypeOK
  <1>1. CASE prev # Null /\ next # Null
    <2>1. nextId[prev] = next
      BY <1>1 DEF validInsertPosition
    <2>2. prev \in listed
      BY <1>1, <2>1, LinkFacts
    <2> QED
      BY <1>1, <2>1, <2>2, LinkFacts
  <1>2. CASE prev = Null \/ next = Null
    BY <1>0, <1>2, LinkFacts DEF validInsertPosition
  <1> QED
    BY <1>1, <1>2

(***************************************************************************)
(* The search.                                                             *)
(***************************************************************************)

\* What SearchOK says of the search record s of a node with ratio N.
Sound(s, N) ==
    /\ s.phase = "descend" =>
         \/ s.prev = Null /\ s.next = Null /\ size = 0
         \/ /\ s.prev \in listed /\ s.next = nextId[s.prev]
            /\ nicr[s.prev] >= N
    /\ s.phase = "ascend" =>
         /\ s.next \in listed /\ s.prev = prevId[s.next]
         /\ N >= nicr[s.next]
    /\ s.phase = "link" => validInsertPosition(N, s.prev, s.next)

\* The invariant of the search, in terms of its state and the ratio searched for.
LEMMA SearchOKSound ==
    SearchOK <=> /\ search.phase # "idle" => search.id \in Ids \ listed /\ size < maxSize
                 /\ Sound(search, nicr[search.id])
  BY DEF SearchOK, Sound, PositionValid

\* Wherever the hint leads, the walk starts on the right side of the ratio.
LEMMA FindPositionSound ==
    ASSUME TypeOK, DoublyLinked, NEW id \in Ids, NEW N \in Nat,
           NEW prevHint \in Addr, NEW nextHint \in Addr
    PROVE  LET s == FindPosition(id, N, prevHint, nextHint)
           IN  /\ s \in Search /\ s.id = id /\ s.phase \notin {"idle", "hint"}
               /\ Sound(s, N)
  <1> DEFINE s == FindPosition(id, N, prevHint, nextHint)
             Good(t) == t \in Search /\ t.id = id /\ t.phase \notin {"idle", "hint"} /\ Sound(t, N)
  <1>0. /\ size \in Nat /\ head \in Addr /\ tail \in Addr /\ listed \subseteq Ids
        /\ nextId \in [Addr -> Addr] /\ prevId \in [Addr -> Addr]
        /\ nicr \in [Addr -> Nat] /\ Null \notin Ids
    BY SortedTrovesAssumption DEF TypeOK
  <1>1. CASE validInsertPosition(N, prevHint, nextHint)
    BY <1>1 DEF FindPosition, At, Search, Sound
  <1>2. CASE ~validInsertPosition(N, prevHint, nextHint)
    <2>1. ASSUME NEW start \in listed, N <= nicr[start] \/ start = head
          PROVE  Good(descendList(id, N, start))
      <3>1. start \in Addr /\ start # Null /\ nextId[start] \in Addr /\ nicr[start] \in Nat
        BY <1>0, LinkFacts
      <3>2. CASE head = start /\ N >= getNominalICR(start)
        BY <3>1, <3>2 DEF descendList, At, Search, Sound, validInsertPosition
      <3>3. CASE ~(head = start /\ N >= getNominalICR(start))
        <4>1. nicr[start] >= N
          BY <2>1, <3>1, <3>3 DEF getNominalICR
        <4> QED
          BY <3>1, <3>3, <4>1 DEF descendList, At, Search, Sound
      <3> QED
        BY <3>2, <3>3
    <2>2. ASSUME size = 0 PROVE Good(descendList(id, N, head))
      <3>1. head = Null /\ nextId[Null] = Null
        BY <2>2, LinkFacts
      <3> QED
        BY <2>2, <3>1 DEF descendList, At, Search, Sound, validInsertPosition, isEmpty
    <2>3. ASSUME NEW start \in listed, N >= nicr[start]
          PROVE  Good(ascendList(id, N, start))
      <3>1. start \in Addr /\ start # Null /\ prevId[start] \in Addr /\ nicr[start] \in Nat
        BY <1>0, LinkFacts
      <3>2. CASE tail = start /\ N <= getNominalICR(start)
        BY <3>1, <3>2 DEF ascendList, At, Search, Sound, validInsertPosition
      <3>3. CASE ~(tail = start /\ N <= getNominalICR(start))
        BY <2>3, <3>1, <3>3 DEF ascendList, At, Search, Sound
      <3> QED
        BY <3>2, <3>3
    <2>4. Good(descendList(id, N, head))
      BY <1>0, <2>1, <2>2, LinkFacts
    <2>5. Good(findInsertPosition(id, N, prevHint, nextHint))
      <3> DEFINE prev == IF contains(prevHint) /\ N <= getNominalICR(prevHint)
                         THEN prevHint ELSE Null
                 next == IF contains(nextHint) /\ N >= getNominalICR(nextHint)
                         THEN nextHint ELSE Null
      <3>1. findInsertPosition(id, N, prevHint, nextHint)
              = IF prev = Null /\ next = Null THEN descendList(id, N, head)
                ELSE IF prev = Null THEN ascendList(id, N, next)
                ELSE descendList(id, N, prev)
        BY DEF findInsertPosition
      <3>2. prev # Null => prev \in listed /\ N <= nicr[prev]
        BY DEF contains, getNominalICR
      <3>3. next # Null => next \in listed /\ N >= nicr[next]
        BY DEF contains, getNominalICR
      <3> HIDE DEF prev, next
      <3>4. prev # Null => Good(descendList(id, N, prev))
        BY <2>1, <3>2
      <3>5. next # Null => Good(ascendList(id, N, next))
        BY <2>3, <3>3
      <3> HIDE DEF Good
      <3> QED
        BY <2>4, <3>1, <3>4, <3>5
    <2> QED
      BY <1>2, <2>5 DEF FindPosition
  <1> QED
    BY <1>1, <1>2

(***************************************************************************)
(* Preservation, action by action.                                         *)
(***************************************************************************)

\* The list does not change and no listed node's ratio does: a sound search
\* stays sound.
LEMMA SoundKept ==
    ASSUME TypeOK, DoublyLinked, UNCHANGED <<listed, nextId, prevId, head, tail, size>>,
           \A x \in listed : nicr'[x] = nicr[x],
           NEW s \in Search, NEW N \in Nat, Sound(s, N)
    PROVE  Sound(s, N)'
  <1>1. s.phase = "link" => validInsertPosition(N, s.prev, s.next)'
    <2> SUFFICES ASSUME s.phase = "link" PROVE validInsertPosition(N, s.prev, s.next)'
      OBVIOUS
    <2>1. validInsertPosition(N, s.prev, s.next) /\ s.prev \in Addr /\ s.next \in Addr
      BY DEF Sound, Search
    <2>2. (s.prev = Null \/ s.prev \in listed) /\ (s.next = Null \/ s.next \in listed)
      BY <2>1, ValidListed
    <2> QED
      BY <2>1, <2>2 DEF validInsertPosition, isEmpty, getNominalICR
  <1> QED
    BY <1>1 DEF Sound

\* A step that writes no link keeps the list.
LEMMA DoublyLinkedKept ==
    ASSUME DoublyLinked, UNCHANGED <<listed, nextId, prevId, head, tail, size>>
    PROVE  DoublyLinked'
  <1>1. PICK order \in [1..size -> Ids] : Spells(order)
    BY DEF DoublyLinked
  <1>2. Spells(order)' /\ order \in [1..size' -> Ids]
    BY <1>1 DEF Spells
  <1>3. \A x \in Addr \ listed' : nextId'[x] = Null /\ prevId'[x] = Null
    BY DEF DoublyLinked
  <1> QED
    BY <1>2, <1>3 DEF DoublyLinked

\* insert starts a search that is sound.
LEMMA InsertStep ==
    ASSUME Inv, NEW id \in Ids, NEW N \in Ratios, NEW prevHint \in Addr, NEW nextHint \in Addr,
           insert(id, N, prevHint, nextHint)
    PROVE  Inv'
  <1> DEFINE s == FindPosition(id, N, prevHint, nextHint)
  <1>0. /\ TypeOK /\ DoublyLinked /\ N \in Nat /\ nicr \in [Addr -> Nat] /\ id \notin listed
        /\ UNCHANGED <<listed, nextId, prevId, head, tail, size>>
        /\ nicr' = [nicr EXCEPT ![id] = N] /\ search' = s
        /\ size \in 0..maxSize /\ size # maxSize
    BY SortedTrovesAssumption DEF Inv, insert, Ratios, TypeOK, contains, isFull
  <1>1. s \in Search /\ s.id = id /\ Sound(s, N)
    BY <1>0, FindPositionSound
  <1> HIDE DEF s
  <1>2. PICK t : t = s
    OBVIOUS
  <1>3. Sound(t, N)'
    <2>1. \A x \in listed : nicr'[x] = nicr[x]
      BY <1>0 DEF TypeOK
    <2> QED
      BY <1>0, <1>1, <1>2, <2>1, SoundKept
  <1>4. TypeOK'
    BY <1>0, <1>1 DEF TypeOK
  <1>5. DoublyLinked'
    BY <1>0, DoublyLinkedKept
  <1>6. search' = t /\ nicr'[search'.id] = N
    BY <1>0, <1>1, <1>2
  <1>7. size < maxSize
    BY <1>0, SortedTrovesAssumption
  <1>8. SearchOK'
    BY <1>0, <1>1, <1>2, <1>3, <1>6, <1>7 DEF SearchOK, Sound, PositionValid
  <1> QED
    BY <1>4, <1>5, <1>8 DEF Inv

\* The search of reInsert starts after the node was removed.
LEMMA ReInsertFindStep ==
    ASSUME Inv, ReInsertFind
    PROVE  Inv'
  <1> DEFINE N == nicr[search.id]
             s == FindPosition(search.id, N, search.prev, search.next)
  <1>0. /\ TypeOK /\ DoublyLinked /\ search \in Search
        /\ search.id \in Ids \ listed /\ size < maxSize
        /\ UNCHANGED <<listed, nextId, prevId, head, tail, size, nicr>>
        /\ search' = s
    BY DEF Inv, ReInsertFind, TypeOK, SearchOK
  <1>1. search.prev \in Addr /\ search.next \in Addr /\ N \in Nat
    BY <1>0 DEF Search, TypeOK
  <1>2. s \in Search /\ s.id = search.id /\ Sound(s, N)
    <2>1. PICK id \in Ids, n \in Nat, p \in Addr, q \in Addr :
             id = search.id /\ n = N /\ p = search.prev /\ q = search.next
      BY <1>0, <1>1
    <2>2. LET t == FindPosition(id, n, p, q) IN t \in Search /\ t.id = id /\ Sound(t, n)
      BY <1>0, FindPositionSound
    <2> QED
      BY <2>1, <2>2
  <1> HIDE DEF s
  <1>3. TypeOK' /\ DoublyLinked'
    BY <1>0, <1>2, DoublyLinkedKept DEF TypeOK
  <1>4. SearchOK'
    BY <1>0, <1>2 DEF SearchOK, Sound, PositionValid, validInsertPosition, isEmpty, getNominalICR
  <1> QED
    BY <1>3, <1>4 DEF Inv

\* The walk down: the node it stands on has at least the ratio to insert, so it
\* ends at the tail at the latest.
LEMMA DescendStepKept ==
    ASSUME Inv, DescendStep
    PROVE  Inv'
  <1> DEFINE N == nicr[search.id]
  <1>0. /\ TypeOK /\ DoublyLinked /\ search \in Search /\ search.phase = "descend"
        /\ search.id \in Ids \ listed /\ size < maxSize
        /\ UNCHANGED <<listed, nextId, prevId, head, tail, size, nicr>>
    BY DEF Inv, DescendStep, TypeOK, SearchOK
  <1>1. /\ search.id \in Addr /\ search.prev \in Addr /\ search.next \in Addr
        /\ nextId \in [Addr -> Addr] /\ nicr \in [Addr -> Nat] /\ N \in Nat /\ size \in Nat
    BY <1>0, SortedTrovesAssumption DEF Search, TypeOK
  <1>2. \/ search.prev = Null /\ search.next = Null /\ size = 0
        \/ search.prev \in listed /\ search.next = nextId[search.prev] /\ nicr[search.prev] >= N
    BY <1>0 DEF Inv, SearchOK
  <1>3. DoublyLinked'
    BY <1>0, DoublyLinkedKept
  <1>4. CASE /\ search.prev = Null \/ validInsertPosition(N, search.prev, search.next)
             /\ search' = [search EXCEPT !.phase = "link"]
    <2>1. validInsertPosition(N, search.prev, search.next)
      BY <1>2, <1>4, LinkFacts, <1>0 DEF validInsertPosition, isEmpty
    <2>2. /\ search' \in Search /\ search'.phase = "link" /\ search'.id = search.id
          /\ search'.prev = search.prev /\ search'.next = search.next
      BY <1>0, <1>4 DEF Search
    <2>3. TypeOK'
      BY <1>0, <2>2 DEF TypeOK
    <2>4. SearchOK'
      BY <1>0, <2>1, <2>2
         DEF SearchOK, PositionValid, validInsertPosition, isEmpty, getNominalICR
    <2> QED
      BY <1>3, <2>3, <2>4 DEF Inv
  <1>5. CASE /\ search.prev # Null /\ ~validInsertPosition(N, search.prev, search.next)
             /\ search' = [search EXCEPT !.prev = nextId[search.prev],
                                         !.next = nextId[nextId[search.prev]]]
    <2>1. search.prev \in listed /\ search.next = nextId[search.prev] /\ nicr[search.prev] >= N
      BY <1>2, <1>5
    <2>2. search.next # Null
      BY <1>0, <1>1, <1>5, <2>1, LinkFacts DEF validInsertPosition, getNominalICR
    <2>3. search.next \in listed
      BY <1>0, <2>1, <2>2, LinkFacts
    <2>4. nicr[search.next] > N
      BY <1>1, <1>5, <2>1, <2>2 DEF validInsertPosition, getNominalICR
    <2>5. /\ search' \in Search /\ search'.phase = "descend" /\ search'.id = search.id
          /\ search'.prev = search.next /\ search'.next = nextId[search.next]
      BY <1>0, <1>1, <1>5, <2>1 DEF Search
    <2>6. TypeOK'
      BY <1>0, <2>5 DEF TypeOK
    <2>7. SearchOK'
      BY <1>0, <1>1, <2>3, <2>4, <2>5 DEF SearchOK, PositionValid
    <2> QED
      BY <1>3, <2>6, <2>7 DEF Inv
  <1> QED
    BY <1>4, <1>5 DEF DescendStep

\* The walk up, symmetrically.
LEMMA AscendStepKept ==
    ASSUME Inv, AscendStep
    PROVE  Inv'
  <1> DEFINE N == nicr[search.id]
  <1>0. /\ TypeOK /\ DoublyLinked /\ search \in Search /\ search.phase = "ascend"
        /\ search.id \in Ids \ listed /\ size < maxSize
        /\ UNCHANGED <<listed, nextId, prevId, head, tail, size, nicr>>
    BY DEF Inv, AscendStep, TypeOK, SearchOK
  <1>1. /\ search.id \in Addr /\ search.prev \in Addr /\ search.next \in Addr
        /\ prevId \in [Addr -> Addr] /\ nicr \in [Addr -> Nat] /\ N \in Nat /\ size \in Nat
    BY <1>0, SortedTrovesAssumption DEF Search, TypeOK
  <1>2. search.next \in listed /\ search.prev = prevId[search.next] /\ N >= nicr[search.next]
    BY <1>0 DEF Inv, SearchOK
  <1>3. DoublyLinked'
    BY <1>0, DoublyLinkedKept
  <1>4. CASE /\ search.next = Null \/ validInsertPosition(N, search.prev, search.next)
             /\ search' = [search EXCEPT !.phase = "link"]
    <2>1. validInsertPosition(N, search.prev, search.next)
      BY <1>2, <1>4, LinkFacts, <1>0
    <2>2. /\ search' \in Search /\ search'.phase = "link" /\ search'.id = search.id
          /\ search'.prev = search.prev /\ search'.next = search.next
      BY <1>0, <1>4 DEF Search
    <2>3. TypeOK'
      BY <1>0, <2>2 DEF TypeOK
    <2>4. SearchOK'
      BY <1>0, <2>1, <2>2
         DEF SearchOK, PositionValid, validInsertPosition, isEmpty, getNominalICR
    <2> QED
      BY <1>3, <2>3, <2>4 DEF Inv
  <1>5. CASE /\ search.next # Null /\ ~validInsertPosition(N, search.prev, search.next)
             /\ search' = [search EXCEPT !.next = prevId[search.next],
                                         !.prev = prevId[prevId[search.next]]]
    <2>1. search.prev # Null
      BY <1>0, <1>1, <1>2, <1>5, LinkFacts DEF validInsertPosition, getNominalICR
    <2>2. search.prev \in listed /\ nextId[search.prev] = search.next
      BY <1>0, <1>2, <2>1, LinkFacts
    <2>3. N > nicr[search.prev]
      BY <1>1, <1>2, <1>5, <2>1, <2>2 DEF validInsertPosition, getNominalICR
    <2>4. /\ search' \in Search /\ search'.phase = "ascend" /\ search'.id = search.id
          /\ search'.next = search.prev /\ search'.prev = prevId[search.prev]
      BY <1>0, <1>1, <1>2, <1>5 DEF Search
    <2>5. TypeOK'
      BY <1>0, <2>4 DEF TypeOK
    <2>6. SearchOK'
      BY <1>0, <1>1, <2>2, <2>3, <2>4 DEF SearchOK, PositionValid
    <2> QED
      BY <1>3, <2>5, <2>6 DEF Inv
  <1> QED
    BY <1>4, <1>5 DEF AscendStep

\* The writes of _insert, at a valid position, link the node between the two
\* neighbours whose ratios bracket its own.
LEMMA LinkPosition ==
    ASSUME Inv, Link, NEW order \in [1..size -> Ids], Spells(order)
    PROVE  /\ search.id \in Ids \ listed
           /\ \E k \in 1..(size + 1) :
                 /\ LinkedAt(order, search.id, k)
                 /\ k > 1 => nicr[order[k - 1]] >= nicr[search.id]
                 /\ k <= size => nicr[search.id] >= nicr[order[k]]
  <1> DEFINE id == search.id
             prev == search.prev
             next == search.next
  <1>0. /\ TypeOK /\ DoublyLinked /\ search \in Search /\ id \in Ids \ listed /\ size < maxSize
        /\ validInsertPosition(nicr[id], prev, next)
        /\ listed' = listed \union {id} /\ size' = size + 1
    BY DEF Inv, Link, TypeOK, SearchOK, PositionValid
  <1>1. /\ prev \in Addr /\ next \in Addr /\ size \in Nat
        /\ nicr \in [Addr -> Nat] /\ nicr[id] \in Nat
        /\ nextId \in [Addr -> Addr] /\ prevId \in [Addr -> Addr]
        /\ head \in Addr /\ tail \in Addr /\ Null \notin Ids
    BY <1>0, SortedTrovesAssumption DEF Search, TypeOK
  <1>3. /\ size > 0 => head = order[1] /\ tail = order[size]
        /\ size = 0 => head = Null /\ tail = Null
        /\ nextId[id] = Null /\ prevId[id] = Null
        /\ \A i \in 1..size : /\ order[i] \in listed /\ order[i] # Null /\ order[i] # id
    <2>1. nextId[id] = Null /\ prevId[id] = Null
      BY <1>0 DEF DoublyLinked
    <2>2. \A i \in 1..size : /\ order[i] \in listed /\ order[i] # Null /\ order[i] # id
      BY <1>0, <1>1 DEF Spells
    <2>3. /\ size > 0 => head = order[1] /\ tail = order[size]
          /\ size = 0 => head = Null /\ tail = Null
      BY <1>1 DEF Spells
    <2> QED
      BY <2>1, <2>2, <2>3
  <1>5. CASE prev = Null /\ next = Null
    <2>1. size = 0
      BY <1>0, <1>5 DEF validInsertPosition, isEmpty
    <2>2. head' = id /\ tail' = id /\ UNCHANGED <<nextId, prevId>>
      BY <1>5 DEF Link
    <2>3. 1 \in 1..(size + 1) /\ ~(1 <= size) /\ 1 = size + 1
      BY <2>1
    <2>4. LinkedAt(order, id, 1)
      BY <1>0, <1>3, <2>2, <2>3 DEF LinkedAt
    <2> QED
      BY <1>0, <2>3, <2>4
  <1>6. CASE prev = Null /\ next # Null
    <2>1. head = next /\ size > 0 /\ nicr[id] >= nicr[head]
      BY <1>0, <1>1, <1>3, <1>6 DEF validInsertPosition, getNominalICR
    <2>2. /\ nextId' = [nextId EXCEPT ![id] = head]
          /\ prevId' = [prevId EXCEPT ![head] = id]
          /\ head' = id /\ tail' = tail
      BY <1>6 DEF Link
    <2>3. 1 \in 1..(size + 1) /\ 1 <= size /\ 1 # size + 1 /\ 1 \in 1..size
      BY <1>1, <2>1
    <2>4. /\ nextId'[id] = order[1] /\ prevId'[id] = Null
          /\ \A x \in Addr \ {id} : nextId'[x] = nextId[x]
          /\ \A x \in Addr \ {id} : prevId'[x] = IF x = order[1] THEN id ELSE prevId[x]
      BY <1>0, <1>1, <1>3, <2>1, <2>2, <2>3
    <2>5. LinkedAt(order, id, 1)
      BY <1>0, <2>2, <2>3, <2>4 DEF LinkedAt
    <2> QED
      BY <1>0, <1>3, <2>1, <2>3, <2>5
  <1>7. CASE prev # Null /\ next = Null
    <2>1. tail = prev /\ size > 0 /\ nicr[tail] >= nicr[id]
      <3>1. tail = prev /\ nicr[id] <= nicr[prev]
        BY <1>0, <1>7 DEF validInsertPosition, getNominalICR
      <3> QED
        BY <1>1, <1>3, <1>7, <3>1
    <2>2. /\ prevId' = [prevId EXCEPT ![id] = tail]
          /\ nextId' = [nextId EXCEPT ![tail] = id]
          /\ tail' = id /\ head' = head
      BY <1>7 DEF Link
    <2>3. PICK k \in 1..(size + 1) : k = size + 1
      BY <1>1
    <2>4. ~(k <= size) /\ k # 1 /\ k > 1 /\ k - 1 = size /\ size \in 1..size
      BY <1>1, <2>1, <2>3
    <2>5. /\ nextId'[id] = Null /\ prevId'[id] = order[size]
          /\ \A x \in Addr \ {id} : nextId'[x] = IF x = order[size] THEN id ELSE nextId[x]
          /\ \A x \in Addr \ {id} : prevId'[x] = prevId[x]
      BY <1>0, <1>1, <1>3, <2>1, <2>2, <2>4
    <2>6. LinkedAt(order, id, k)
      BY <1>0, <2>2, <2>3, <2>4, <2>5 DEF LinkedAt
    <2> QED
      BY <1>0, <1>3, <2>1, <2>4, <2>6
  <1>8. CASE prev # Null /\ next # Null
    <2>1. nextId[prev] = next /\ nicr[prev] >= nicr[id] /\ nicr[id] >= nicr[next]
      BY <1>0, <1>8 DEF validInsertPosition, getNominalICR
    <2>2. prev \in listed
      BY <1>0, <1>1, <1>8, <2>1, LinkFacts
    <2>3. PICK p \in 1..size : order[p] = prev
      BY <1>0, <2>2 DEF Spells, TypeOK
    <2>4. p + 1 \in 1..size /\ order[p + 1] = next
      BY <1>1, <1>8, <2>1, <2>3 DEF Spells
    <2>5. /\ nextId' = [nextId EXCEPT ![id] = next, ![prev] = id]
          /\ prevId' = [prevId EXCEPT ![id] = prev, ![next] = id]
          /\ UNCHANGED <<head, tail>>
      BY <1>8 DEF Link
    <2>6. PICK k \in 1..(size + 1) : k = p + 1
      BY <1>1, <2>4
    <2>7. k # size + 1 /\ k # 1 /\ k > 1 /\ k <= size /\ k - 1 = p
      BY <1>1, <2>4, <2>6
    <2>8. /\ nextId'[id] = order[k] /\ prevId'[id] = order[p]
          /\ \A x \in Addr \ {id} : nextId'[x] = IF x = order[p] THEN id ELSE nextId[x]
          /\ \A x \in Addr \ {id} : prevId'[x] = IF x = order[k] THEN id ELSE prevId[x]
      BY <1>0, <1>1, <1>3, <2>3, <2>4, <2>5, <2>6
    <2>9. LinkedAt(order, id, k)
      BY <1>0, <2>5, <2>7, <2>8 DEF LinkedAt
    <2> QED
      BY <1>0, <2>1, <2>3, <2>4, <2>6, <2>7, <2>9
  <1> QED
    BY <1>5, <1>6, <1>7, <1>8

\* So they keep the list a list.
LEMMA LinkStep ==
    ASSUME Inv, Link
    PROVE  Inv'
  <1>0. /\ TypeOK /\ DoublyLinked /\ search \in Search /\ search.id \in Ids \ listed
        /\ size < maxSize /\ size \in 0..maxSize /\ maxSize \in Nat
        /\ listed' = listed \union {search.id} /\ size' = size + 1 /\ search' = NoSearch
        /\ UNCHANGED nicr
    BY SortedTrovesAssumption DEF Inv, Link, TypeOK, SearchOK
  <1>1. PICK order \in [1..size -> Ids] : Spells(order)
    BY <1>0 DEF DoublyLinked
  <1>2. PICK id \in Ids \ listed : id = search.id
    BY <1>0
  <1>3. PICK k \in 1..(size + 1) : LinkedAt(order, id, k)
    BY <1>1, <1>2, LinkPosition
  <1>4. DoublyLinked'
    <2>1. PICK new : new = InsertedOrder(order, size, k, id)
      OBVIOUS
    <2> QED
      BY <1>0, <1>1, <1>2, <1>3, <2>1, InsertedSpells
  <1>5. nextId' \in [Addr -> Addr] /\ prevId' \in [Addr -> Addr] /\ head' \in Addr /\ tail' \in Addr
    <2>1. /\ search.id \in Addr /\ search.prev \in Addr /\ search.next \in Addr
          /\ nextId \in [Addr -> Addr] /\ prevId \in [Addr -> Addr] /\ head \in Addr /\ tail \in Addr
      BY <1>0 DEF TypeOK, Search
    <2>2. CASE search.prev = Null \/ search.next = Null
      BY <2>1, <2>2 DEF Link
    <2>3. CASE search.prev # Null /\ search.next # Null
      <3>1. /\ nextId' = [nextId EXCEPT ![search.id] = search.next, ![search.prev] = search.id]
            /\ prevId' = [prevId EXCEPT ![search.id] = search.prev, ![search.next] = search.id]
            /\ UNCHANGED <<head, tail>>
        BY <2>3 DEF Link
      <3> QED
        BY <2>1, <3>1
    <2> QED
      BY <2>2, <2>3
  <1>6. size' \in 0..maxSize /\ listed' \subseteq Ids
    BY <1>0 DEF TypeOK
  <1>7. TypeOK'
    BY <1>0, <1>5, <1>6, SortedTrovesAssumption DEF TypeOK, NoSearch, Search
  <1> QED
    BY <1>0, <1>4, <1>7 DEF Inv, SearchOK, PositionValid, NoSearch

\* _remove takes the node out of its place in the list.
LEMMA UnlinkPosition ==
    ASSUME TypeOK, DoublyLinked, NEW id \in listed, Unlink(id),
           NEW order \in [1..size -> Ids], Spells(order)
    PROVE  \E k \in 1..size : order[k] = id /\ UnlinkedAt(order, k)
  <1>0. /\ size \in 0..maxSize /\ maxSize \in Nat /\ Null \notin Ids /\ listed \subseteq Ids
        /\ nextId \in [Addr -> Addr] /\ prevId \in [Addr -> Addr]
        /\ head \in Addr /\ tail \in Addr /\ id \in Addr
    BY SortedTrovesAssumption DEF TypeOK
  <1>2. PICK k \in 1..size : order[k] = id
    BY <1>0 DEF Spells
  <1>3. /\ size > 0 /\ head = order[1] /\ tail = order[size]
        /\ nextId[id] = IF k = size THEN Null ELSE order[k + 1]
        /\ prevId[id] = IF k = 1 THEN Null ELSE order[k - 1]
        /\ \A p, q \in 1..size : order[p] = order[q] => p = q
        /\ \A p \in 1..size : order[p] # Null
    BY <1>0, <1>2 DEF Spells
  <1>4. (id = head <=> k = 1) /\ (id = tail <=> k = size) /\ 1 \in 1..size /\ size \in 1..size
    BY <1>0, <1>2, <1>3
  <1>5. (k # 1 => k - 1 \in 1..size /\ order[k - 1] # id)
        /\ (k # size => k + 1 \in 1..size /\ order[k + 1] # id)
    BY <1>0, <1>2, <1>3
  <1>6. \A x \in Addr :
           nextId'[x] = IF x = order[k] THEN Null
                        ELSE IF k > 1 /\ x = order[k - 1] THEN nextId[order[k]]
                        ELSE nextId[x]
    <2>1. CASE size = 1 \/ id = head
      <3>1. nextId' = [nextId EXCEPT ![id] = Null]
        BY <2>1 DEF Unlink, RemovedNext
      <3>2. ~(k > 1)
        BY <1>0, <1>2, <1>4, <2>1
      <3> QED
        BY <1>0, <1>2, <3>1, <3>2
    <2>2. CASE ~(size = 1 \/ id = head) /\ id = tail
      <3>1. /\ nextId' = [[nextId EXCEPT ![prevId[id]] = Null] EXCEPT ![id] = Null]
            /\ k > 1 /\ prevId[id] = order[k - 1] /\ nextId[id] = Null
        BY <1>0, <1>3, <1>4, <2>2 DEF Unlink, RemovedNext
      <3> QED
        BY <1>0, <1>2, <1>5, <3>1
    <2>3. CASE ~(size = 1 \/ id = head) /\ id # tail
      <3>1. /\ nextId' = [[nextId EXCEPT ![prevId[id]] = nextId[id]] EXCEPT ![id] = Null]
            /\ k > 1 /\ prevId[id] = order[k - 1]
        BY <1>0, <1>3, <1>4, <2>3 DEF Unlink, RemovedNext
      <3> QED
        BY <1>0, <1>2, <1>5, <3>1
    <2> QED
      BY <2>1, <2>2, <2>3
  <1>7. \A x \in Addr :
           prevId'[x] = IF x = order[k] THEN Null
                        ELSE IF k < size /\ x = order[k + 1] THEN prevId[order[k]]
                        ELSE prevId[x]
    <2>1. CASE size = 1 \/ (id # head /\ id = tail)
      <3>1. prevId' = [prevId EXCEPT ![id] = Null]
        BY <2>1 DEF Unlink, RemovedPrev
      <3>2. ~(k < size)
        BY <1>0, <1>2, <1>4, <2>1
      <3> QED
        BY <1>0, <1>2, <3>1, <3>2
    <2>2. CASE size # 1 /\ id = head
      <3>1. /\ prevId' = [[prevId EXCEPT ![nextId[id]] = Null] EXCEPT ![id] = Null]
            /\ k < size /\ nextId[id] = order[k + 1] /\ prevId[id] = Null
        BY <1>0, <1>3, <1>4, <2>2 DEF Unlink, RemovedPrev
      <3> QED
        BY <1>0, <1>2, <1>5, <3>1
    <2>3. CASE size # 1 /\ id # head /\ id # tail
      <3>1. /\ prevId' = [[prevId EXCEPT ![nextId[id]] = prevId[id]] EXCEPT ![id] = Null]
            /\ k < size /\ nextId[id] = order[k + 1]
        BY <1>0, <1>3, <1>4, <2>3 DEF Unlink, RemovedPrev
      <3> QED
        BY <1>0, <1>2, <1>5, <3>1
    <2> QED
      BY <2>1, <2>2, <2>3
  <1>8. head' = IF k = 1 THEN nextId[order[1]] ELSE head
    BY <1>0, <1>2, <1>3, <1>4 DEF Unlink, RemovedHead
  <1>9. tail' = IF k = size THEN prevId[order[size]] ELSE tail
    BY <1>0, <1>2, <1>3, <1>4 DEF Unlink, RemovedTail
  <1>10. UnlinkedAt(order, k)
    BY <1>2, <1>6, <1>7, <1>8, <1>9 DEF UnlinkedAt, Unlink
  <1> QED
    BY <1>2, <1>10

\* _remove keeps the list a list.
LEMMA UnlinkKeepsList ==
    ASSUME TypeOK, DoublyLinked, NEW id \in listed, Unlink(id)
    PROVE  /\ DoublyLinked'
           /\ listed' \subseteq Ids /\ id \notin listed'
           /\ nextId' \in [Addr -> Addr] /\ prevId' \in [Addr -> Addr]
           /\ head' \in Addr /\ tail' \in Addr
           /\ size' \in 0..maxSize /\ size' < maxSize
  <1>0. /\ size \in 0..maxSize /\ maxSize \in Nat /\ Null \notin Ids /\ listed \subseteq Ids
        /\ nextId \in [Addr -> Addr] /\ prevId \in [Addr -> Addr]
        /\ head \in Addr /\ tail \in Addr /\ id \in Addr
    BY SortedTrovesAssumption DEF TypeOK
  <1>1. PICK order \in [1..size -> Ids] : Spells(order)
    BY DEF DoublyLinked
  <1>2. PICK k \in 1..size : order[k] = id /\ UnlinkedAt(order, k)
    BY <1>1, UnlinkPosition
  <1>3. size > 0
    BY <1>0
  <1>10. DoublyLinked'
    <2>1. PICK new : new = RemovedOrder(order, size, k)
      OBVIOUS
    <2> QED
      BY <1>1, <1>2, <2>1, RemovedSpells
  <1>11. nextId' \in [Addr -> Addr] /\ prevId' \in [Addr -> Addr]
    BY <1>0 DEF Unlink, RemovedNext, RemovedPrev
  <1>12. head' \in Addr /\ tail' \in Addr
    BY <1>0 DEF Unlink, RemovedHead, RemovedTail
  <1> QED
    BY <1>0, <1>3, <1>10, <1>11, <1>12 DEF Unlink

--------------------------------------------------------------------------------
(***************************************************************************)
(* The theorems.                                                           *)
(***************************************************************************)
LEMMA InvInductive == Inv /\ [Next]_vars => Inv'
  <1> SUFFICES ASSUME Inv, [Next]_vars PROVE Inv'
    OBVIOUS
  <1>0. TypeOK /\ DoublyLinked /\ SearchOK
    BY DEF Inv
  <1>1. ASSUME NEW id \in Ids, NEW N \in Ratios, NEW prevHint \in Addr, NEW nextHint \in Addr,
               insert(id, N, prevHint, nextHint)
        PROVE  Inv'
    BY <1>1, InsertStep
  <1>2. ASSUME NEW id \in Ids, NEW N \in Ratios, NEW prevHint \in Addr, NEW nextHint \in Addr,
               reInsert(id, N, prevHint, nextHint)
        PROVE  Inv'
    <2>1. id \in listed /\ Unlink(id)
      BY <1>2 DEF reInsert, contains
    <2>2. search' \in Search /\ search'.id = id /\ search'.phase = "hint"
      BY <1>2 DEF reInsert, Search
    <2>3. nicr' \in [Addr -> Nat]
      BY <1>0, <1>2, SortedTrovesAssumption DEF reInsert, TypeOK, Ratios
    <2>4. TypeOK' /\ DoublyLinked' /\ id \notin listed' /\ size' < maxSize
      BY <1>0, <2>1, <2>2, <2>3, UnlinkKeepsList DEF TypeOK
    <2>5. SearchOK'
      BY <2>2, <2>4 DEF SearchOK, PositionValid
    <2> QED
      BY <2>4, <2>5 DEF Inv
  <1>3. ASSUME NEW id \in Ids, remove(id) PROVE Inv'
    <2>1. id \in listed /\ Unlink(id) /\ search' = search /\ search.phase = "idle"
      BY <1>3 DEF remove, contains
    <2>2. nicr' \in [Addr -> Nat]
      BY <1>0, <1>3, SortedTrovesAssumption DEF remove, TypeOK
    <2>3. TypeOK' /\ DoublyLinked'
      BY <1>0, <2>1, <2>2, UnlinkKeepsList DEF TypeOK
    <2>4. SearchOK'
      BY <2>1 DEF SearchOK, PositionValid
    <2> QED
      BY <2>3, <2>4 DEF Inv
  <1>4. CASE ChangeNICR
    <2>1. /\ UNCHANGED <<listed, nextId, prevId, head, tail, size, search>>
          /\ search.phase = "idle"
      BY <1>4 DEF ChangeNICR
    <2>2. nicr' \in [Addr -> Nat]
      BY <1>0, <1>4, SortedTrovesAssumption DEF ChangeNICR, TypeOK, Ratios
    <2>3. TypeOK' /\ DoublyLinked'
      BY <1>0, <2>1, <2>2, DoublyLinkedKept DEF TypeOK
    <2>4. SearchOK'
      BY <2>1 DEF SearchOK, PositionValid
    <2> QED
      BY <2>3, <2>4 DEF Inv
  <1>5. CASE UNCHANGED vars
    <2>1. TypeOK' /\ DoublyLinked'
      BY <1>0, <1>5, DoublyLinkedKept DEF TypeOK, vars
    <2>2. SearchOK'
      BY <1>0, <1>5 DEF SearchOK, PositionValid, validInsertPosition, isEmpty, getNominalICR, vars
    <2> QED
      BY <2>1, <2>2 DEF Inv
  <1> QED
    BY <1>1, <1>2, <1>3, <1>4, <1>5, ReInsertFindStep, DescendStepKept, AscendStepKept, LinkStep
       DEF Next

\* The empty list satisfies the invariant.
LEMMA InvInit == Init => Inv
  <1> SUFFICES ASSUME Init PROVE Inv
    OBVIOUS
  <1>1. TypeOK
    BY SortedTrovesAssumption DEF Init, TypeOK, NoSearch, Search
  <1>2. SearchOK
    BY DEF Init, SearchOK, PositionValid, NoSearch
  <1>3. DoublyLinked
    <2>1. PICK order : order = [i \in 1..0 |-> Null]
      OBVIOUS
    <2>2. order \in [1..size -> Ids] /\ Spells(order)
      BY <2>1 DEF Init, Spells
    <2> QED
      BY <2>2 DEF DoublyLinked, Init
  <1> QED
    BY <1>1, <1>2, <1>3 DEF Inv

\* The inductive invariant holds.
THEOREM Invariance == Spec => []Inv
  BY InvInit, InvInductive, PTL DEF Spec

\* Type correctness, and the bound maxSize on the list.
THEOREM TypeCorrect == Spec => []TypeOK
  <1>1. Inv => TypeOK
    BY DEF Inv
  <1> QED
    BY <1>1, Invariance, PTL

\* For any number of troves, any hints and any ratios, the pointers of
\* SortedTroves are one doubly linked list of exactly the existing nodes.
THEOREM ListIntact == Spec => []DoublyLinked
  <1>1. Inv => DoublyLinked
    BY DEF Inv
  <1> QED
    BY <1>1, Invariance, PTL

\* A search never ends anywhere but at a valid insert position.
THEOREM SearchFindsPosition == Spec => []PositionValid
  <1>1. Inv => PositionValid
    BY DEF Inv, SearchOK
  <1> QED
    BY <1>1, Invariance, PTL

(***************************************************************************)
(* The order of the list.                                                  *)
(***************************************************************************)

\* The next pointers of the nodes that stay after _remove.
LEMMA UnlinkNext ==
    ASSUME TypeOK, DoublyLinked, NEW id \in listed, Unlink(id),
           NEW x \in listed, x # id
    PROVE  nextId'[x] = nextId[x] \/ (nextId[x] = id /\ nextId'[x] = nextId[id])
  <1>0. nextId \in [Addr -> Addr] /\ prevId \in [Addr -> Addr] /\ listed \subseteq Ids
    BY DEF TypeOK
  <1>1. CASE size = 1 \/ id = head
    BY <1>0, <1>1 DEF Unlink, RemovedNext
  <1>2. CASE ~(size = 1 \/ id = head)
    <2>1. prevId[id] \in listed /\ nextId[prevId[id]] = id
      BY <1>2, LinkFacts
    <2>2. nextId' = [[nextId EXCEPT ![prevId[id]] = nextId[id]] EXCEPT ![id] = Null]
      BY <1>2, LinkFacts DEF Unlink, RemovedNext
    <2> QED
      BY <1>0, <2>1, <2>2
  <1> QED
    BY <1>1, <1>2

\* Removing a node keeps the order of the others.
LEMMA UnlinkSorted ==
    ASSUME TypeOK, DoublyLinked, Sorted, NEW id \in listed, Unlink(id),
           \A x \in listed \ {id} : nicr'[x] = nicr[x]
    PROVE  Sorted'
  <1> SUFFICES ASSUME NEW x \in listed', nextId'[x] # Null
               PROVE  nicr'[x] >= nicr'[nextId'[x]]
    BY DEF Sorted
  <1>1. x \in listed /\ x # id
    BY DEF Unlink
  <1>2. nicr \in [Addr -> Nat] /\ listed \subseteq Ids
    BY DEF TypeOK
  <1>3. nextId'[x] = nextId[x] \/ (nextId[x] = id /\ nextId'[x] = nextId[id])
    BY <1>1, UnlinkNext
  <1>4. CASE nextId'[x] = nextId[x]
    <2>1. PICK y : y = nextId[x]
      OBVIOUS
    <2>2. y \in listed /\ nicr[x] >= nicr[y] /\ nextId'[x] = y
      BY <1>1, <1>4, <2>1, LinkFacts DEF Sorted
    <2>3. y # id
      <3> SUFFICES ASSUME y = id PROVE FALSE
        OBVIOUS
      <3>1. prevId[id] = x /\ x # Null /\ id # head
        BY <1>1, <2>1, <2>2, LinkFacts
      <3>2. size # 1 /\ nextId' = [[nextId EXCEPT ![prevId[id]] = nextId[id]] EXCEPT ![id] = Null]
        <4>1. size # 1
          <5>1. PICK order \in [1..size -> Ids] : Spells(order)
            BY DEF DoublyLinked
          <5>2. ASSUME size = 1 PROVE FALSE
            <6>1. x \in Ids /\ id \in Ids
              BY <1>1, <1>2
            <6>2. PICK i \in 1..size : order[i] = x
              BY <1>1, <5>1, <6>1 DEF Spells
            <6>3. PICK j \in 1..size : order[j] = id
              BY <5>1, <6>1 DEF Spells
            <6>4. i = 1 /\ j = 1
              BY <5>2
            <6> QED
              BY <1>1, <6>2, <6>3, <6>4
          <5> QED
            BY <5>2
        <4> QED
          BY <3>1, <4>1, LinkFacts DEF Unlink, RemovedNext
      <3>3. nextId'[x] = nextId[id]
        BY <1>1, <1>2, <3>1, <3>2 DEF TypeOK
      <3>4. nextId[id] # id
        <4>1. ASSUME nextId[id] = id PROVE FALSE
          <5>1. id # Null
            BY LinkFacts
          <5> QED
            BY <1>1, <3>1, <4>1, <5>1, LinkFacts
        <4> QED
          BY <4>1
      <3> QED
        BY <2>2, <3>3, <3>4
    <2> QED
      BY <1>1, <2>2, <2>3
  <1>5. CASE nextId[x] = id /\ nextId'[x] = nextId[id]
    <2>1. PICK y : y = nextId[id]
      OBVIOUS
    <2>2. nicr[x] >= nicr[id] /\ nicr[id] >= nicr[y] /\ y \in listed
      BY <1>1, <1>5, <2>1, LinkFacts DEF Sorted
    <2>3. y # id
      <3>1. ASSUME y = id PROVE FALSE
        <4>1. prevId[id] = x /\ id # Null
          BY <1>1, <1>5, LinkFacts
        <4>2. nextId[id] = id
          BY <2>1, <3>1
        <4>3. prevId[id] = id
          BY <4>1, <4>2, LinkFacts
        <4> QED
          BY <1>1, <4>1, <4>3
      <3> QED
        BY <3>1
    <2>4. nicr'[x] = nicr[x] /\ nicr'[y] = nicr[y]
      BY <1>1, <2>2, <2>3
    <2>5. nicr[x] \in Nat /\ nicr[y] \in Nat /\ nicr[id] \in Nat
      BY <1>1, <1>2, <2>2
    <2> QED
      BY <1>5, <2>1, <2>2, <2>4, <2>5
  <1> QED
    BY <1>3, <1>4, <1>5

\* Steps that leave the pointers and the ratios of the listed troves alone.
LEMMA SortedKept ==
    ASSUME TypeOK, DoublyLinked, Sorted, UNCHANGED <<listed, nextId>>,
           \A x \in listed : nicr'[x] = nicr[x]
    PROVE  Sorted'
  <1> SUFFICES ASSUME NEW x \in listed, nextId[x] # Null
               PROVE  nicr'[x] >= nicr'[nextId[x]]
    BY DEF Sorted
  <1>1. nextId[x] \in listed /\ nicr[x] >= nicr[nextId[x]]
    BY LinkFacts DEF Sorted
  <1> QED
    BY <1>1

\* Linking a node at a valid position keeps the order.
LEMMA LinkSorted ==
    ASSUME Inv, Sorted, Link
    PROVE  Sorted'
  <1> DEFINE id == search.id
             prev == search.prev
             next == search.next
  <1>0. /\ TypeOK /\ DoublyLinked /\ id \in Ids \ listed /\ listed \subseteq Ids
        /\ prev \in Addr /\ next \in Addr /\ Null \notin Ids
        /\ validInsertPosition(nicr[id], prev, next)
        /\ nextId \in [Addr -> Addr] /\ nicr \in [Addr -> Nat] /\ head \in Addr /\ tail \in Addr
        /\ listed' = listed \union {id} /\ nicr' = nicr
    BY SortedTrovesAssumption DEF Inv, Link, TypeOK, SearchOK, PositionValid, Search
  <1>1. nextId[id] = Null
    BY <1>0 DEF DoublyLinked
  <1> SUFFICES ASSUME NEW x \in listed \union {id}, nextId'[x] # Null
               PROVE  nicr[x] >= nicr[nextId'[x]]
    BY <1>0 DEF Sorted
  <1>2. CASE prev = Null /\ next = Null
    BY <1>0, <1>1, <1>2 DEF Link, Sorted
  <1>3. CASE prev = Null /\ next # Null
    <2>1. nextId' = [nextId EXCEPT ![id] = head] /\ head = next /\ nicr[id] >= nicr[next]
      BY <1>0, <1>3 DEF Link, validInsertPosition, getNominalICR
    <2> QED
      BY <1>0, <1>1, <2>1 DEF Sorted
  <1>4. CASE prev # Null /\ next = Null
    <2>1. nextId' = [nextId EXCEPT ![tail] = id] /\ tail = prev /\ nicr[prev] >= nicr[id]
      BY <1>0, <1>4 DEF Link, validInsertPosition, getNominalICR
    <2>2. x = prev => nextId'[x] = id
      BY <1>0, <2>1
    <2>3. x # prev => nextId'[x] = nextId[x]
      BY <1>0, <2>1
    <2> QED
      BY <1>0, <1>1, <2>1, <2>2, <2>3 DEF Sorted
  <1>5. CASE prev # Null /\ next # Null
    <2>1. /\ nextId' = [nextId EXCEPT ![id] = next, ![prev] = id]
          /\ nicr[prev] >= nicr[id] /\ nicr[id] >= nicr[next]
      BY <1>0, <1>5 DEF Link, validInsertPosition, getNominalICR
    <2>2. prev # id
      BY <1>0, <1>5, ValidListed
    <2>3. /\ x = prev => nextId'[x] = id
          /\ x = id => nextId'[x] = next
          /\ x # prev /\ x # id => nextId'[x] = nextId[x]
      BY <1>0, <2>1, <2>2
    <2> QED
      BY <1>0, <1>1, <2>1, <2>3 DEF Sorted
  <1> QED
    BY <1>2, <1>3, <1>4, <1>5

\* No operation of SortedTroves breaks the order of a sorted list, for any
\* number of troves and any hints: only the TroveManager, by changing ratios in
\* a way that swaps two troves, can.
THEOREM OrderPreserved == Spec => SortedPreserved
  <1>1. ASSUME Inv, [Next]_vars
        PROVE  [Sorted /\ (ChangeNICR => KeepsOrder) => Sorted']_vars
    <2> SUFFICES ASSUME Next, Sorted, ChangeNICR => KeepsOrder PROVE Sorted'
      BY <1>1
    <2>0. TypeOK /\ DoublyLinked /\ SearchOK /\ nicr \in [Addr -> Nat] /\ listed \subseteq Ids
      BY <1>1 DEF Inv, TypeOK
    <2>1. ASSUME NEW id \in Ids, NEW N \in Ratios, NEW prevHint \in Addr, NEW nextHint \in Addr,
                 insert(id, N, prevHint, nextHint)
          PROVE  Sorted'
      <3>1. \A x \in listed : nicr'[x] = nicr[x]
        BY <2>0, <2>1 DEF insert, contains
      <3> QED
        BY <2>0, <2>1, <3>1, SortedKept DEF insert
    <2>2. ASSUME NEW id \in Ids, NEW N \in Ratios, NEW prevHint \in Addr, NEW nextHint \in Addr,
                 reInsert(id, N, prevHint, nextHint)
          PROVE  Sorted'
      <3>1. \A x \in listed \ {id} : nicr'[x] = nicr[x]
        BY <2>0, <2>2 DEF reInsert
      <3> QED
        BY <2>0, <2>2, <3>1, UnlinkSorted DEF reInsert, contains
    <2>3. ASSUME NEW id \in Ids, remove(id) PROVE Sorted'
      <3>1. \A x \in listed \ {id} : nicr'[x] = nicr[x]
        BY <2>0, <2>3 DEF remove
      <3> QED
        BY <2>0, <2>3, <3>1, UnlinkSorted DEF remove, contains
    <2>4. CASE ReInsertFind \/ DescendStep \/ AscendStep
      BY <2>0, <2>4, SortedKept DEF ReInsertFind, DescendStep, AscendStep
    <2>5. CASE Link
      BY <1>1, <2>5, LinkSorted
    <2>6. CASE ChangeNICR
      <3>1. UNCHANGED <<listed, nextId>> /\ KeepsOrder
        BY <2>6 DEF ChangeNICR
      <3>2. \A x \in listed : nextId[x] # Null => nextId[x] \in listed
        BY <2>0, LinkFacts
      <3> QED
        BY <3>1, <3>2 DEF Sorted, KeepsOrder
    <2> QED
      BY <2>1, <2>2, <2>3, <2>4, <2>5, <2>6 DEF Next
  <1> QED
    BY <1>1, Invariance, PTL DEF Spec, SortedPreserved

(***************************************************************************)
(* The pointers implement the abstract list.                               *)
(***************************************************************************)

\* A set of natural numbers has a least one.
LEMMA LeastOf == ASSUME NEW T, T \subseteq Nat, T # {} PROVE \E m \in T : \A k \in T : ~(k < m)
  <1>1. PICK R : R = {ss \in Nat \X Nat : ss[1] < ss[2]}
    OBVIOUS
  <1>2. IsWellFoundedOn(R, Nat)
    BY <1>1, NatLessThanWellFounded DEF OpToRel
  <1>3. PICK m \in T : \A y \in T : ~(<<y, m>> \in R)
    BY <1>2, WFMin
  <1>4. \A y \in Nat : y < m => <<y, m>> \in R
    BY <1>1
  <1> QED
    BY <1>3, <1>4

\* The nodes at the positions 1 to n of a walk along next from h.
Walk(f, n, h, next) == f = [k \in 1..n |-> IF k = 1 THEN h ELSE next[f[k - 1]]]

\* There is only one walk of a length.
LEMMA OneWalk ==
    ASSUME NEW n \in Nat, NEW h, NEW next, NEW f, NEW g, Walk(f, n, h, next), Walk(g, n, h, next)
    PROVE  f = g
  <1> DEFINE Bad == {k \in 1..n : f[k] # g[k]}
  <1>1. Bad = {}
    <2> SUFFICES ASSUME Bad # {} PROVE FALSE
      OBVIOUS
    <2>1. PICK m \in Bad : \A k \in Bad : ~(k < m)
      <3>1. Bad \subseteq Nat
        OBVIOUS
      <3> HIDE DEF Bad
      <3> QED
        BY <3>1, LeastOf
    <2>2. /\ f[m] = IF m = 1 THEN h ELSE next[f[m - 1]]
          /\ g[m] = IF m = 1 THEN h ELSE next[g[m - 1]]
      BY <2>1 DEF Walk
    <2>3. m # 1 => m - 1 \in 1..n /\ m - 1 < m
      BY <2>1
    <2>4. m # 1 => f[m - 1] = g[m - 1]
      BY <2>1, <2>3
    <2> QED
      BY <2>1, <2>2, <2>4
  <1>2. f = [k \in 1..n |-> f[k]] /\ g = [k \in 1..n |-> g[k]]
    BY DEF Walk
  <1>3. \A k \in 1..n : f[k] = g[k]
    BY <1>1
  <1> QED
    BY <1>2, <1>3

\* The walk from the head goes on with address(0) behind the tail.
Padded(order, n, m) == [k \in 1..m |-> IF k <= n THEN order[k] ELSE Null]

\* A sequence that the pointers spell is the walk from the head, so padded.
LEMMA SpelledWalk ==
    ASSUME TypeOK, DoublyLinked, NEW order \in [1..size -> Ids], Spells(order)
    PROVE  Walk(Padded(order, size, maxSize), maxSize, head, nextId)
  <1>0. size \in 0..maxSize /\ maxSize \in Nat /\ Null \notin Ids
    BY SortedTrovesAssumption DEF TypeOK
  <1>1. PICK f : f = Padded(order, size, maxSize)
    OBVIOUS
  <1>2. \A k \in 1..maxSize : f[k] = IF k <= size THEN order[k] ELSE Null
    BY <1>1 DEF Padded
  <1>3. nextId[Null] = Null
    BY <1>0 DEF DoublyLinked, TypeOK
  <1>4. /\ size = 0 => head = Null
        /\ size # 0 => head = order[1]
        /\ \A i \in 1..size : nextId[order[i]] = IF i = size THEN Null ELSE order[i + 1]
    BY DEF Spells
  <1>5. ASSUME NEW k \in 1..maxSize PROVE f[k] = IF k = 1 THEN head ELSE nextId[f[k - 1]]
    <2>1. CASE k = 1
      BY <1>0, <1>2, <1>4, <2>1
    <2>2. CASE k # 1
      <3>1. k - 1 \in 1..maxSize /\ k - 1 + 1 = k
        BY <1>0, <2>2
      <3>2. CASE k - 1 <= size
        <4>1. k - 1 \in 1..size /\ f[k - 1] = order[k - 1]
          BY <1>0, <1>2, <3>1, <3>2
        <4>2. nextId[order[k - 1]] = IF k - 1 = size THEN Null ELSE order[k]
          BY <1>4, <3>1, <4>1
        <4> QED
          BY <1>0, <1>2, <2>2, <3>1, <3>2, <4>1, <4>2
      <3>3. CASE ~(k - 1 <= size)
        BY <1>0, <1>2, <1>3, <2>2, <3>1, <3>3
      <3> QED
        BY <3>2, <3>3
    <2> QED
      BY <2>1, <2>2
  <1> QED
    BY <1>1, <1>5 DEF Walk, Padded

WalkSpelled ==
    TypeOK /\ DoublyLinked => \A order \in [1..size -> Ids] : Spells(order) => WalkFromHead = order

\* So what is read by walking from the head is the sequence that is spelled.
LEMMA WalkIsOrder == WalkSpelled
  <1> SUFFICES ASSUME TypeOK, DoublyLinked, NEW order \in [1..size -> Ids], Spells(order)
               PROVE  WalkFromHead = order
    BY DEF WalkSpelled
  <1>0. size \in 0..maxSize /\ maxSize \in Nat
    BY SortedTrovesAssumption DEF TypeOK
  <1>1. Walk(Padded(order, size, maxSize), maxSize, head, nextId)
    BY SpelledWalk
  <1>2. Walk(NodeAt, maxSize, head, nextId)
    BY <1>1 DEF NodeAt, Walk
  <1>3. NodeAt = Padded(order, size, maxSize)
    BY <1>0, <1>1, <1>2, OneWalk
  <1>4. \A k \in 1..size : NodeAt[k] = order[k]
    BY <1>0, <1>3 DEF Padded
  <1> QED
    BY <1>4 DEF WalkFromHead

\* Facts about sequences: a part of one, two joined, and one as a function.
IsPart(t, S, s, a, b) ==
    t \in Seq(S) /\ Len(t) = b - a + 1 /\ \A i \in 1..(b - a + 1) : t[i] = s[a + i - 1]

\* SubSeq is the part from a to b.
LEMMA Part ==
    ASSUME NEW S, NEW s, NEW a \in Int, NEW b \in Int, a <= b + 1, \A i \in a..b : s[i] \in S
    PROVE  IsPart(SubSeq(s, a, b), S, s, a, b)
  <1>1. SubSeq(s, a, b) \in Seq(S)
    BY SMTT(30)
  <1>2. \A i \in 1..(b - a + 1) : SubSeq(s, a, b)[i] = s[a + i - 1]
    BY SMTT(30)
  <1>3. Len(SubSeq(s, a, b)) = b - a + 1
    BY SMTT(30)
  <1> QED
    BY <1>1, <1>2, <1>3, ZenonT(30) DEF IsPart

IsJoin(u, S, s, t, m, n) ==
    u \in Seq(S) /\ Len(u) = m + n /\ \A i \in 1..(m + n) : u[i] = IF i <= m THEN s[i] ELSE t[i - m]

\* \o is the second sequence behind the first.
LEMMA Joined ==
    ASSUME NEW S, NEW s \in Seq(S), NEW t \in Seq(S), NEW m, NEW n, Len(s) = m, Len(t) = n
    PROVE  IsJoin(s \o t, S, s, t, m, n)
  BY ConcatProperties, ZenonT(30) DEF IsJoin

\* A sequence is the function of its elements.
LEMMA SequenceOf ==
    ASSUME NEW S, NEW s \in Seq(S), NEW n \in Nat, Len(s) = n,
           NEW f, f = [i \in 1..n |-> f[i]], \A i \in 1..n : s[i] = f[i]
    PROVE  s = f
  <1>1. s = [i \in 1..n |-> s[i]]
    OBVIOUS
  <1> QED
    BY <1>1

\* A sequence of one element.
LEMMA SequenceOfOne == ASSUME NEW S, NEW e \in S PROVE <<e>> \in Seq(S) /\ Len(<<e>>) = 1 /\ <<e>>[1] = e
  OBVIOUS

\* Writing a node into, and out of, the walk are the operations of sequences.
LEMMA InsertedIsInsertAt ==
    ASSUME NEW n \in Nat, NEW order \in [1..n -> Ids], NEW k \in 1..(n + 1), NEW id \in Ids
    PROVE  /\ order \in Seq(Ids) /\ Len(order) = n
           /\ InsertedOrder(order, n, k, id) = Abstract!InsertAt(order, k, id)
  <1>1. order \in Seq(Ids) /\ Len(order) = n
    OBVIOUS
  <1>2. PICK a \in Int, b \in Nat, c \in Nat : a = 1 /\ b = k - 1 /\ c = n - k + 1
    OBVIOUS
  <1>3. PICK before : before = SubSeq(order, a, b)
    OBVIOUS
  <1>4. /\ before \in Seq(Ids) /\ Len(before) = b
        /\ \A i \in 1..b : before[i] = order[i]
    <2>1. a <= b + 1 /\ b \in Int /\ \A i \in a..b : order[i] \in Ids
      BY <1>2
    <2>2. IsPart(before, Ids, order, a, b)
      BY <1>3, <2>1, Part
    <2>3. b - a + 1 = b /\ \A i \in 1..b : a + i - 1 = i
      BY <1>2
    <2> QED
      BY <2>2, <2>3 DEF IsPart
  <1>5. PICK after : after = SubSeq(order, k, n)
    OBVIOUS
  <1>6. /\ after \in Seq(Ids) /\ Len(after) = c
        /\ \A i \in 1..c : after[i] = order[k + i - 1]
    <2>1. k \in Int /\ n \in Int /\ k <= n + 1 /\ \A i \in k..n : order[i] \in Ids
      OBVIOUS
    <2>2. IsPart(after, Ids, order, k, n)
      BY <1>5, <2>1, Part
    <2> QED
      BY <1>2, <2>2 DEF IsPart
  <1>7. PICK one \in Seq(Ids), w \in Nat : one = <<id>> /\ Len(one) = w /\ w = 1 /\ one[1] = id
    <2>1. PICK t : t = <<id>>
      OBVIOUS
    <2>2. t \in Seq(Ids) /\ Len(t) = 1 /\ t[1] = id
      BY <2>1, SequenceOfOne
    <2>3. 1 \in Nat
      OBVIOUS
    <2> QED
      BY <2>1, <2>2, <2>3, ZenonT(30)
  <1>8. PICK first : first = before \o one
    OBVIOUS
  <1>9. first \in Seq(Ids) /\ Len(first) = b + w
        /\ \A i \in 1..(b + w) : first[i] = IF i <= b THEN before[i] ELSE one[i - b]
    <2>1. IsJoin(first, Ids, before, one, b, w)
      BY <1>4, <1>7, <1>8, Joined
    <2> QED
      BY <2>1, ZenonT(30) DEF IsJoin
  <1>10. PICK d \in Nat : d = b + w
    OBVIOUS
  <1>11. PICK s : s = first \o after
    OBVIOUS
  <1>12. s \in Seq(Ids) /\ Len(s) = d + c
        /\ \A i \in 1..(d + c) : s[i] = IF i <= d THEN first[i] ELSE after[i - d]
    <2>1. IsJoin(s, Ids, first, after, d, c)
      BY <1>6, <1>9, <1>10, <1>11, Joined
    <2> QED
      BY <2>1, ZenonT(30) DEF IsJoin
  <1>13. d = k /\ d + c = n + 1 /\ n + 1 \in Nat
    BY <1>2, <1>7, <1>10
  <1>14. PICK f : f = InsertedOrder(order, n, k, id)
    OBVIOUS
  <1>15. /\ f = [i \in 1..(n + 1) |-> f[i]]
         /\ \A i \in 1..(n + 1) : f[i] = IF i < k THEN order[i] ELSE IF i = k THEN id ELSE order[i - 1]
    BY <1>14 DEF InsertedOrder
  <1>16. ASSUME NEW i \in 1..(n + 1) PROVE s[i] = f[i]
    <2>1. CASE i < k
      <3>1. i \in 1..b /\ i \in 1..(b + w) /\ i <= d /\ i <= b /\ i \in 1..(d + c)
        BY <1>2, <1>7, <1>13, <2>1
      <3>2. s[i] = first[i] /\ first[i] = before[i] /\ before[i] = order[i]
        BY <1>4, <1>9, <1>12, <3>1, ZenonT(30)
      <3> QED
        BY <1>15, <2>1, <3>2
    <2>2. CASE i = k
      <3>1. i \in 1..(b + w) /\ i <= d /\ ~(i <= b) /\ i - b = 1 /\ i \in 1..(d + c)
        BY <1>2, <1>7, <1>13, <2>2
      <3>2. s[i] = first[i] /\ first[i] = one[i - b]
        BY <1>9, <1>12, <3>1, ZenonT(30)
      <3> QED
        BY <1>7, <1>15, <2>2, <3>1, <3>2
    <2>3. CASE i > k
      <3>1. ~(i <= d) /\ i - d \in 1..c /\ i \in 1..(d + c) /\ k + (i - d) - 1 = i - 1
        BY <1>2, <1>13, <2>3
      <3>2. s[i] = after[i - d] /\ after[i - d] = order[k + (i - d) - 1]
        BY <1>6, <1>12, <3>1, ZenonT(30)
      <3> QED
        BY <1>15, <2>3, <3>1, <3>2
    <2> QED
      BY <2>1, <2>2, <2>3
  <1>17. s = f
    <2>1. PICK m \in Nat : m = n + 1
      OBVIOUS
    <2>2. Len(s) = m /\ f = [i \in 1..m |-> f[i]] /\ \A i \in 1..m : s[i] = f[i]
      BY <1>12, <1>13, <1>15, <1>16, <2>1, ZenonT(30)
    <2> QED
      BY <1>12, <2>2, SequenceOf
  <1>18. s = SubSeq(order, 1, k - 1) \o <<id>> \o SubSeq(order, k, Len(order))
    BY <1>1, <1>2, <1>3, <1>5, <1>7, <1>8, <1>11, ZenonT(30)
  <1> QED
    BY <1>1, <1>14, <1>17, <1>18 DEF Abstract!InsertAt

\* What is spelled after Unlink is what the abstract list's RemoveAt leaves.
LEMMA RemovedIsRemoveAt ==
    ASSUME NEW n \in Nat, NEW order \in [1..n -> Ids], NEW k \in 1..n
    PROVE  RemovedOrder(order, n, k) = Abstract!RemoveAt(order, k)
  <1>1. order \in Seq(Ids) /\ Len(order) = n
    OBVIOUS
  <1>2. PICK a \in Int, b \in Nat, c \in Nat, e \in Int : a = 1 /\ b = k - 1 /\ c = n - k /\ e = k + 1
    OBVIOUS
  <1>3. PICK before : before = SubSeq(order, a, b)
    OBVIOUS
  <1>4. /\ before \in Seq(Ids) /\ Len(before) = b
        /\ \A i \in 1..b : before[i] = order[i]
    <2>1. a <= b + 1 /\ b \in Int /\ \A i \in a..b : order[i] \in Ids
      BY <1>2
    <2>2. IsPart(before, Ids, order, a, b)
      BY <1>3, <2>1, Part
    <2>3. b - a + 1 = b /\ \A i \in 1..b : a + i - 1 = i
      BY <1>2
    <2> QED
      BY <2>2, <2>3 DEF IsPart
  <1>5. PICK after : after = SubSeq(order, e, n)
    OBVIOUS
  <1>6. /\ after \in Seq(Ids) /\ Len(after) = c
        /\ \A i \in 1..c : after[i] = order[e + i - 1]
    <2>1. n \in Int /\ e <= n + 1 /\ (\A i \in e..n : order[i] \in Ids) /\ n - e + 1 = c
      BY <1>2
    <2>2. IsPart(after, Ids, order, e, n)
      BY <1>5, <2>1, Part
    <2> QED
      BY <2>1, <2>2, ZenonT(30) DEF IsPart
  <1>7. PICK s : s = before \o after
    OBVIOUS
  <1>8. s \in Seq(Ids) /\ Len(s) = b + c
        /\ \A i \in 1..(b + c) : s[i] = IF i <= b THEN before[i] ELSE after[i - b]
    <2>1. IsJoin(s, Ids, before, after, b, c)
      BY <1>4, <1>6, <1>7, Joined
    <2> QED
      BY <2>1, ZenonT(30) DEF IsJoin
  <1>9. b + c = n - 1 /\ n - 1 \in Nat
    BY <1>2
  <1>10. PICK f : f = RemovedOrder(order, n, k)
    OBVIOUS
  <1>11. /\ f = [i \in 1..(n - 1) |-> f[i]]
         /\ \A i \in 1..(n - 1) : f[i] = IF i < k THEN order[i] ELSE order[i + 1]
    BY <1>10 DEF RemovedOrder
  <1>12. ASSUME NEW i \in 1..(n - 1) PROVE s[i] = f[i]
    <2>1. CASE i < k
      <3>1. i \in 1..b /\ i <= b /\ i \in 1..(b + c)
        BY <1>2, <2>1
      <3>2. s[i] = before[i] /\ before[i] = order[i]
        BY <1>4, <1>8, <3>1, ZenonT(30)
      <3> QED
        BY <1>11, <2>1, <3>2
    <2>2. CASE i >= k
      <3>1. ~(i <= b) /\ i - b \in 1..c /\ i \in 1..(b + c) /\ e + (i - b) - 1 = i + 1
        BY <1>2, <2>2
      <3>2. s[i] = after[i - b] /\ after[i - b] = order[e + (i - b) - 1]
        BY <1>6, <1>8, <3>1, ZenonT(30)
      <3> QED
        BY <1>11, <2>2, <3>1, <3>2
    <2> QED
      BY <2>1, <2>2
  <1>13. s = f
    <2>1. PICK m \in Nat : m = n - 1
      BY <1>9
    <2>2. Len(s) = m /\ f = [i \in 1..m |-> f[i]] /\ \A i \in 1..m : s[i] = f[i]
      BY <1>8, <1>9, <1>11, <1>12, <2>1, ZenonT(30)
    <2> QED
      BY <1>8, <2>2, SequenceOf
  <1>14. s = SubSeq(order, 1, k - 1) \o SubSeq(order, k + 1, Len(order))
    BY <1>1, <1>2, <1>3, <1>5, <1>7, ZenonT(30)
  <1> QED
    BY <1>10, <1>13, <1>14 DEF Abstract!RemoveAt

\* The writes of _insert are an insertion between two neighbours that bracket
\* the ratio of the new node.
LEMMA LinkRefines == ASSUME Inv, Inv', Link PROVE Abstract!Next
  <1>0. /\ TypeOK /\ DoublyLinked /\ size \in Nat /\ listed \subseteq Ids
    BY SortedTrovesAssumption DEF Inv, TypeOK
  <1>1. PICK order \in [1..size -> Ids] : Spells(order)
    BY <1>0 DEF DoublyLinked
  <1>2. PICK id \in Ids \ listed : id = search.id
    BY <1>1, LinkPosition
  <1>3. PICK k \in 1..(size + 1) :
           /\ LinkedAt(order, id, k)
           /\ k > 1 => nicr[order[k - 1]] >= nicr[id]
           /\ k <= size => nicr[id] >= nicr[order[k]]
    BY <1>1, <1>2, LinkPosition
  <1>4. PICK new : new = InsertedOrder(order, size, k, id)
    OBVIOUS
  <1>5. Spells(new)' /\ new \in [1..size' -> Ids]
    BY <1>0, <1>1, <1>2, <1>3, <1>4, InsertedSpells
  <1>6. WalkFromHead = order
    BY <1>0, <1>1, WalkIsOrder DEF WalkSpelled
  <1>7. WalkFromHead' = new
    <2>1. WalkSpelled'
      BY WalkIsOrder, PTL
    <2>2. TypeOK' /\ DoublyLinked'
      BY DEF Inv
    <2>3. \A o \in [1..size' -> Ids] : Spells(o)' => WalkFromHead' = o
      BY <2>1, <2>2 DEF WalkSpelled
    <2> QED
      BY <1>5, <2>3
  <1>8. new = Abstract!InsertAt(order, k, id) /\ Len(order) = size
    BY <1>0, <1>2, <1>4, InsertedIsInsertAt
  <1>9. ~Abstract!Contains(order, id)
    BY <1>1, <1>2, <1>8 DEF Abstract!Contains, Spells
  <1>10. Abstract!Insert(id, k)
    BY <1>3, <1>6, <1>7, <1>8, <1>9 DEF Abstract!Insert
  <1> QED
    BY <1>2, <1>6, <1>8, <1>10 DEF Abstract!Next

\* The writes of _remove are a removal.
LEMMA UnlinkRefines == ASSUME Inv, Inv', NEW id \in listed, Unlink(id) PROVE Abstract!Next
  <1>0. /\ TypeOK /\ DoublyLinked /\ size \in Nat
    BY SortedTrovesAssumption DEF Inv, TypeOK
  <1>1. PICK order \in [1..size -> Ids] : Spells(order)
    BY <1>0 DEF DoublyLinked
  <1>2. PICK k \in 1..size : UnlinkedAt(order, k)
    BY <1>0, <1>1, UnlinkPosition
  <1>3. PICK new : new = RemovedOrder(order, size, k)
    OBVIOUS
  <1>4. Spells(new)' /\ new \in [1..size' -> Ids]
    BY <1>0, <1>1, <1>2, <1>3, RemovedSpells
  <1>5. WalkFromHead = order
    BY <1>0, <1>1, WalkIsOrder DEF WalkSpelled
  <1>6. WalkFromHead' = new
    <2>1. WalkSpelled'
      BY WalkIsOrder, PTL
    <2>2. TypeOK' /\ DoublyLinked'
      BY DEF Inv
    <2>3. \A o \in [1..size' -> Ids] : Spells(o)' => WalkFromHead' = o
      BY <2>1, <2>2 DEF WalkSpelled
    <2> QED
      BY <1>4, <2>3
  <1>7. new = Abstract!RemoveAt(order, k) /\ Len(order) = size
    BY <1>0, <1>3, RemovedIsRemoveAt
  <1>8. Abstract!Delete(k)
    BY <1>5, <1>6, <1>7 DEF Abstract!Delete
  <1> QED
    BY <1>2, <1>5, <1>7, <1>8 DEF Abstract!Next

\* For any number of troves, any hints and any ratios, what a client reads by
\* walking from the head of SortedTroves.sol is a list that changes only by
\* removals and by insertions between neighbours that bracket the new ratio.
THEOREM Refinement == Spec => ImplementsSortedList
  <1>1. Inv /\ Init => Abstract!Init
    <2> SUFFICES ASSUME Inv, Init PROVE WalkFromHead = <<>>
      BY DEF Abstract!Init
    <2> QED
      BY DEF Init, WalkFromHead
  <1>2. Inv /\ Inv' /\ [Next]_vars => [Abstract!Next]_WalkFromHead
    <2> SUFFICES ASSUME Inv, Inv', [Next]_vars PROVE [Abstract!Next]_WalkFromHead
      OBVIOUS
    <2>1. CASE UNCHANGED <<listed, nextId, prevId, head, tail, size>>
      BY <2>1 DEF WalkFromHead, NodeAt
    <2>2. CASE Link
      BY <2>2, LinkRefines
    <2>3. ASSUME NEW id \in Ids, remove(id) PROVE Abstract!Next
      BY <2>3, UnlinkRefines DEF remove, contains
    <2>4. ASSUME NEW id \in Ids, NEW N \in Ratios, NEW prevHint \in Addr, NEW nextHint \in Addr,
                 reInsert(id, N, prevHint, nextHint)
          PROVE  Abstract!Next
      BY <2>4, UnlinkRefines DEF reInsert, contains
    <2> QED
      BY <2>1, <2>2, <2>3, <2>4
         DEF Next, vars, insert, ReInsertFind, DescendStep, AscendStep, ChangeNICR
  <1> QED
    BY <1>1, <1>2, Invariance, PTL DEF Spec, ImplementsSortedList, Abstract!Spec
================================================================================
