------------------------------ MODULE TroveListing ------------------------------
(***************************************************************************)
(* Reading troves: from the contracts (ReadableEthersLiquity, with          *)
(* MultiTroveGetter for lists) and from the subgraph (SubgraphLiquity); and *)
(* two users of the list that decide what to liquidate, the table of risky  *)
(* troves of dev-frontend and the liquidation bot of the examples.          *)
(***************************************************************************)
EXTENDS Subgraph, LibBase

CONSTANTS
    PageSizes,       \* rows of the table
    BotLimit,        \* the bot liquidates that many troves at once, 40
    tinyDifference   \* what the fuzzer's checks let rounding add up to

userTrove(b, status, amounts) == [owner |-> b, status |-> status, amounts |-> amounts]
withPendingRedistribution(b, status, amounts, stake, snapshot) ==
    [owner |-> b, status |-> status, amounts |-> amounts, stake |-> stake, snapshot |-> snapshot]
nonExistent(b) == withPendingRedistribution(b, "nonExistent", emptyTrove, 0, emptyTrove)

\* applyRedistribution, to a trove that is read with its stake and snapshot.
redistributedTrove(t, totalRedistributed) ==
    userTrove(t.owner, t.status, applyRedistribution(t.amounts, t.stake, t.snapshot, totalRedistributed))

--------------------------------------------------------------------------------
(***************************************************************************)
(* ReadableEthersLiquity.                                                  *)
(***************************************************************************)
getTotalRedistributed == trove(L.ETH, L.LUSDDebt)
getTotal == add(trove(activePool.ETH, activePool.LUSDDebt), trove(defaultPool.ETH, defaultPool.LUSDDebt))
getNumberOfTroves == Len(TroveOwners)
getLUSDInStabilityPool == stabilityPool.totalLUSDDeposits
getPrice == price

userTroveStatusFrom(backendStatus) == IF backendStatus = "active" THEN "open" ELSE backendStatus

mapBackendTrove(b, status) ==
    withPendingRedistribution(b, status, trove(Troves[b].coll, Troves[b].debt), Troves[b].stake,
                              trove(rewardSnapshots[b].ETH, rewardSnapshots[b].LUSDDebt))

getTroveBeforeRedistribution(b) ==
    IF isActive(b) THEN mapBackendTrove(b, "open")
    ELSE [nonExistent(b) EXCEPT !.status = userTroveStatusFrom(Troves[b].status)]
getTrove(b) == redistributedTrove(getTroveBeforeRedistribution(b), getTotalRedistributed)

\* MultiTroveGetter: up to count owners, from the head of the list for an index
\* that is not negative, else from its tail.
sortedTrovesFromHead(startIdx, count) == [i \in 1..count |-> sortedTroves[startIdx + i]]
sortedTrovesFromTail(startIdx, count) == [i \in 1..count |-> sortedTroves[Len(sortedTroves) - startIdx - i + 1]]
getMultipleSortedTroves(_startIdx, _count) ==
    LET descend == _startIdx >= 0
        startIdx == IF descend THEN _startIdx ELSE -(_startIdx + 1)
        count == min(_count, Len(sortedTroves) - startIdx)
    IN  IF startIdx >= Len(sortedTroves) THEN <<>>
        ELSE IF descend THEN sortedTrovesFromHead(startIdx, count)
        ELSE sortedTrovesFromTail(startIdx, count)

trovesBeforeRedistribution(first, sortedBy, startingAt) ==
    LET owners == getMultipleSortedTroves(IF sortedBy = "descendingCollateralRatio" THEN startingAt
                                          ELSE -(startingAt + 1), first)
    IN  [i \in DOMAIN owners |-> mapBackendTrove(owners[i], "open")]
getTroves(first, sortedBy, startingAt) ==
    LET troves == trovesBeforeRedistribution(first, sortedBy, startingAt)
    IN  [i \in DOMAIN troves |-> redistributedTrove(troves[i], getTotalRedistributed)]

--------------------------------------------------------------------------------
(***************************************************************************)
(* SubgraphLiquity: the same reads as queries of the entities.             *)
(***************************************************************************)
SubgraphPrice == index.system.price
SubgraphTotalRedistributed == trove(index.redistributed.ETH, index.redistributed.LUSDDebt)
SubgraphTotal == trove(index.system.totalCollateral, index.system.totalDebt)
SubgraphNumberOfTroves == index.numberOf.open
SubgraphLUSDInStabilityPool == index.system.tokensInStabilityPool

troveFromRawFields(b) ==
    LET t == index.troves[b] IN
    withPendingRedistribution(b, t.status, trove(t.collateral, t.debt), t.stake,
                              trove(t.snapshot.ETH, t.snapshot.LUSDDebt))
SubgraphTroveBeforeRedistribution(b) ==
    IF index.troves[b].status = "none" THEN nonExistent(b) ELSE troveFromRawFields(b)
SubgraphTrove(b) == redistributedTrove(SubgraphTroveBeforeRedistribution(b), SubgraphTotalRedistributed)

\* The query of open troves, with its orderBy, skip and first.  Sort keys may be
\* equal, and then the order is either: a set of lists.
trovesQuery(orderDirection, startingAt, first) ==
    LET inOrder(a, b) == IF orderDirection = "asc" THEN index.troves[a].sortKey <= index.troves[b].sortKey
                                                   ELSE index.troves[a].sortKey >= index.troves[b].sortKey
        ordered == {owners \in SetToSeqs({b \in Borrowers : index.troves[b].status = "open"}) :
                       \A i \in 2..Len(owners) : inOrder(owners[i - 1], owners[i])}
        page(owners) == SubSeq(owners, startingAt + 1, min(startingAt + first, Len(owners)))
    IN  {[i \in DOMAIN page(owners) |-> troveFromRawFields(page(owners)[i])] : owners \in ordered}

SubgraphTrovesBeforeRedistribution(first, sortedBy, startingAt) ==
    trovesQuery(IF sortedBy = "ascendingCollateralRatio" THEN "asc" ELSE "desc", startingAt, first)

--------------------------------------------------------------------------------
(***************************************************************************)
(* Whom the table and the bot would liquidate.  t is a row, with its       *)
(* redistribution applied.                                                 *)
(***************************************************************************)
liquidatableInNormalMode(t, at) == collateralRatioIsBelowMinimum(t.amounts, at)

\* The debt not compared with what is in the StabilityPool.
liquidatableInRecoveryMode_AnyDebt(t, at, totalCollateralRatio, lusdInStabilityPool) ==
    LET ratio == collateralRatio(t.amounts, at) IN
    (ratio >= MCR /\ ratio < totalCollateralRatio) \/ liquidatableInNormalMode(t, at)
liquidatableInRecoveryMode(t, at, totalCollateralRatio, lusdInStabilityPool) ==
    LET ratio == collateralRatio(t.amounts, at) IN
    IF ratio >= MCR /\ ratio < totalCollateralRatio THEN t.amounts.debt <= lusdInStabilityPool
    ELSE liquidatableInNormalMode(t, at)

\* select, and the requirement of a row's button.
TroveAction(t) ==
    IF collateralRatioIsBelowCritical(getTotal, getPrice)
    THEN liquidatableInRecoveryMode(t, getPrice, collateralRatio(getTotal, getPrice), getLUSDInStabilityPool)
    ELSE liquidatableInNormalMode(t, getPrice)

numberOfPages(pageSize) ==
    IF getNumberOfTroves = 0 THEN 1 ELSE (getNumberOfTroves + pageSize - 1) \div pageSize
rows(pageSize, page) ==
    {t \in ToSet(getTroves(pageSize, "ascendingCollateralRatio", page * pageSize)) : ~isEmpty(t.amounts)}
offeredOn(pageSize, page) == {t.owner : t \in {r \in rows(pageSize, page) : TroveAction(r)}}

\* The bot sends the underCollateralized troves with the most collateral.
underCollateralized == {t \in ToSet(getTroves(Cardinality(Borrowers), "ascendingCollateralRatio", 0)) :
                           collateralRatioIsBelowMinimum(t.amounts, getPrice)}
botsChoices == {chosen \in SUBSET underCollateralized :
                   /\ Cardinality(chosen) = min(BotLimit, Cardinality(underCollateralized))
                   /\ \A t \in chosen, u \in underCollateralized \ chosen : t.amounts.collateral >= u.amounts.collateral}

--------------------------------------------------------------------------------
(***************************************************************************)
(* What the fuzzer checks after each of its rounds.                        *)
(***************************************************************************)
roughlyEqual(x, y) == x - y < tinyDifference /\ y - x < tinyDifference
trovesRoughlyEqual(t, u) == roughlyEqual(t.collateral, u.collateral) /\ roughlyEqual(t.debt, u.debt)

getListOfTroves == getTroves(getNumberOfTroves, "descendingCollateralRatio", 0)
getListOfTrovesBeforeRedistribution ==
    trovesBeforeRedistribution(getNumberOfTroves, "descendingCollateralRatio", 0)

\* The ratio of the next trove is no higher, but for a tiny difference.
sortedByICR(listOfTroves, at) ==
    \A i \in 2..Len(listOfTroves) :
       collateralRatio(listOfTroves[i].amounts, at)
          <= collateralRatio(listOfTroves[i - 1].amounts, at) + tinyDifference

checkTroveOrdering == sortedByICR(getListOfTroves, getPrice)

\* The troves as they are recorded add up to the ActivePool, and what they have
\* pending to the DefaultPool.
checkPoolBalances ==
    LET sumOver(list, Amount(_)) == FoldLeft(LAMBDA x, i : x + Amount(list[i].amounts), 0, [i \in DOMAIN list |-> i])
        total(list) == trove(sumOver(list, LAMBDA t : t.collateral), sumOver(list, LAMBDA t : t.debt))
        activeTotal == total(getListOfTrovesBeforeRedistribution)
        troveTotal == total(getListOfTroves)
    IN  /\ trovesRoughlyEqual(trove(activePool.ETH, activePool.LUSDDebt), activeTotal)
        /\ trovesRoughlyEqual(trove(defaultPool.ETH, defaultPool.LUSDDebt),
                              trove(troveTotal.collateral - activeTotal.collateral,
                                    troveTotal.debt - activeTotal.debt))

\* The same owners have the same troves, in whatever order.
listOfTrovesShouldBeEqual(listA, listB) ==
    Len(listA) = Len(listB) /\ ToSet(listA) = ToSet(listB)

\* The prices agree once a transaction has fetched the price, and are not
\* compared here.
checks ==
    /\ SubgraphNumberOfTroves = getNumberOfTroves
    /\ trovesRoughlyEqual(SubgraphTotal, getTotal)
    /\ SubgraphTotalRedistributed = getTotalRedistributed
    /\ SubgraphLUSDInStabilityPool = getLUSDInStabilityPool

subgraphListsOfTroves ==
    SubgraphTrovesBeforeRedistribution(SubgraphNumberOfTroves, "descendingCollateralRatio", 0)
withRedistribution(listOfTroves) ==
    [i \in DOMAIN listOfTroves |-> redistributedTrove(listOfTroves[i], SubgraphTotalRedistributed)]

checkSubgraph ==
    /\ checks
    /\ \A subgraphListOfTroves \in subgraphListsOfTroves :
          /\ listOfTrovesShouldBeEqual(getListOfTrovesBeforeRedistribution, subgraphListOfTroves)
          /\ sortedByICR(withRedistribution(subgraphListOfTroves), SubgraphPrice)

--------------------------------------------------------------------------------
\* No two troves have different collateral ratios at the price of the subgraph.
sameRatios ==
    \A t, u \in ToSet(getListOfTroves) :
       collateralRatio(t.amounts, SubgraphPrice) = collateralRatio(u.amounts, SubgraphPrice)

\* Between transactions both sources of the client's reads answer the same: each
\* trove with its pending redistributions, and the totals they are part of; it
\* is what TroveManager computes in getEntireDebtAndColl.  The contracts' list is
\* in order and the pools hold what the troves own, but for the rounding of
\* redistributions, as the fuzzer checks.  The subgraph lists the same troves, in
\* the order of their collateral ratios although it only knows the sort keys of
\* when each was last changed; but the wrong way round, so that the fuzzer's
\* checkSubgraph is only sure to pass while no two ratios differ, and throws
\* "subgraph sorting broken" otherwise.
ReadsAgree ==
    idle =>
      /\ \A b \in Borrowers : /\ SubgraphTrove(b) = getTrove(b)
                              /\ isActive(b) => getTrove(b).amounts = trove(entireColl(b), entireDebt(b))
      /\ SubgraphTotal = getTotal
      /\ checks /\ checkPoolBalances /\ checkTroveOrdering
      /\ \A list \in subgraphListsOfTroves :
            /\ listOfTrovesShouldBeEqual(getListOfTrovesBeforeRedistribution, list)
            /\ sortedByICR(Reverse(withRedistribution(list)), SubgraphPrice)
      /\ sameRatios => checkSubgraph

\* Whenever a liquidation looks at the troves before it changed anything, those
\* it will liquidate are those the table offers, on whatever page, and whatever
\* the bot chooses is liquidated.  (The last trove of all is offered too, and
\* never liquidated.)
LiquidationsOffered ==
    /\ liquidation.phase \in {"sequence", "batch"} /\ liquidation.totals = NoValues
    /\ getNumberOfTroves > 1
    => LET liquidated == {b \in Borrowers : isActive(b) /\ verdict(b) \in {"normal", "recovery"}} IN
       /\ \A pageSize \in PageSizes :
             liquidated = UNION {offeredOn(pageSize, page) : page \in 0..numberOfPages(pageSize) - 1}
       /\ \A chosen \in botsChoices : {t.owner : t \in chosen} \subseteq liquidated
================================================================================
