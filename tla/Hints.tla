--------------------------------- MODULE Hints ----------------------------------
(***************************************************************************)
(* The hints a client of SortedTroves passes with a transaction that       *)
(* inserts or reinserts a trove (_findHintsForNominalCollateralRatio of    *)
(* lib-ethers): an approximate hint from HintHelpers, the exact position   *)
(* from the view function findInsertPosition, and two repairs of it.       *)
(***************************************************************************)
EXTENDS SortedTroves

\* HintHelpers.getApproxHint: the closest of some troves drawn at random, so
\* any of the list.  The trials are split into several calls, of which the
\* closest result is taken.
getApproxHint == listed

\* The loops of _descendList and _ascendList in one go, as the view function
\* runs them.
RECURSIVE walked(_, _)
walked(N, s) ==
    IF \/ s.phase = "link"
       \/ s.phase = "descend" /\ s.prev = Null
       \/ s.phase = "ascend" /\ s.next = Null
       \/ validInsertPosition(N, s.prev, s.next)
    THEN s
    ELSE IF s.phase = "descend"
    THEN walked(N, [s EXCEPT !.prev = nextId[s.prev], !.next = nextId[nextId[s.prev]]])
    ELSE walked(N, [s EXCEPT !.next = prevId[s.next], !.prev = prevId[prevId[s.next]]])

insertPosition(N, hint) ==
    LET s == walked(N, FindPosition(Null, N, hint, hint)) IN <<s.prev, s.next>>

\* Mutated form: the trove that moves may be its own hint.
jumpedOver_Not(hints, own) == hints

\* A trove that is reinserted is no hint: it is deleted from the list before.
jumpedOver(hints, own) ==
    IF hints[1] = own /\ own # Null THEN <<prevId[own], hints[2]>>
    ELSE IF hints[2] = own /\ own # Null THEN <<hints[1], nextId[own]>>
    ELSE hints

\* The zero address would start a walk through the list.
withoutZero(hints) ==
    IF hints[1] = Null THEN <<hints[2], hints[2]>>
    ELSE IF hints[2] = Null THEN <<hints[1], hints[1]>>
    ELSE hints

\* own is Null for a new trove.
findHints(N, own, approx) ==
    IF listed = {} THEN <<Null, Null>>
    ELSE IF N = UintMax THEN <<Null, head>>
    ELSE withoutZero(jumpedOver(insertPosition(N, approx), own))

\* The hints of the search that begins in the next state come from a client
\* that read the list in this one.
hintedByClient(own) ==
    \E approx \in getApproxHint :
       <<search'.prev, search'.next>> = findHints(nicr'[search'.id], own, approx)

\* The search is over before its first step.
found == LET s == FindPosition(search.id, nicr[search.id], search.prev, search.next)
         IN  s.phase = "link" \/ validInsertPosition(nicr[search.id], s.prev, s.next)

\* In a sorted list that did not change since the client looked, its hints are
\* exact: the trove that moves is taken out of the list first, and may have been
\* a neighbour of its own new position, its head or its tail, and yet no step
\* through the list is needed to find the position.
HintsExact ==
    [][Sorted /\ search'.phase = "hint" /\ hintedByClient(search'.id) => found']_vars
================================================================================
