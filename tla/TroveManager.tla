------------------------------ MODULE TroveManager ------------------------------
(***************************************************************************)
(* TroveManager.sol: the troves, their stakes and pending rewards,         *)
(* liquidations and redemptions, with the storage of the contracts its     *)
(* operations write: ActivePool, DefaultPool, CollSurplusPool, the LUSD    *)
(* balances and the totals of the StabilityPool.                           *)
(*                                                                         *)
(* Liquidations and redemptions loop over the troves.  Each iteration is a *)
(* step here; liquidation and redemption hold the loops' variables, and no *)
(* other transaction starts before the one in progress ends.  If it fails  *)
(* on the way, the EVM undoes all of it: saved holds the storage from      *)
(* before.                                                                 *)
(*                                                                         *)
(* The sorted list is the sequence SortedList promises, largest nominal    *)
(* ratio first, and a trove enters at any position whose neighbours        *)
(* bracket its ratio, which is what SortedTroves does for whatever hints.  *)
(***************************************************************************)
EXTENDS LiquityBase, Sequences, SequencesExt

CONSTANTS
    Borrowers,       \* addresses that may own a trove
    Null,            \* address(0)
    DecayFactors     \* values _decPow may return for the time that passed

ASSUME TroveManagerAssumption ==
    /\ Null \notin Borrowers
    /\ DecayFactors \subseteq 0..DECIMAL_PRECISION

VARIABLES
    Troves,            \* borrower -> its Trove struct
    TroveOwners,       \* the array of active troves, in no particular order
    sortedTroves,      \* the active troves, by nominal ratio
    rewardSnapshots,   \* borrower -> L_ETH and L_LUSDDebt when last applied
    totalStakes,
    systemSnapshot,    \* totalStakesSnapshot and totalCollateralSnapshot
    L,                 \* L_ETH and L_LUSDDebt, rewards per unit staked
    lastError,         \* lastETHError_ and lastLUSDDebtError_Redistribution
    baseRate,
    activePool,        \* ETH and LUSDDebt of the ActivePool
    defaultPool,       \* ETH and LUSDDebt of the DefaultPool
    collSurplusPool,   \* ETH and the borrowers' balances
    stabilityPool,     \* ETH and totalLUSDDeposits
    lusd,              \* total supply and balances; users are one account,
                       \* because they may transfer LUSD as they like
    price,             \* what PriceFeed.fetchPrice returns
    liquidation,       \* the liquidation in progress
    redemption,        \* the redemption in progress
    saved              \* storage at its start, as a sequence of 0 or 1 elements

storage == <<Troves, TroveOwners, sortedTroves, rewardSnapshots, totalStakes, systemSnapshot, L,
             lastError, baseRate, activePool, defaultPool, collSurplusPool, stabilityPool, lusd>>
vars == <<storage, price, liquidation, redemption, saved>>

Amounts == [ETH : Nat, LUSDDebt : Nat]
NoAmounts == [ETH |-> 0, LUSDDebt |-> 0]

Status == {"nonExistent", "active", "closedByOwner", "closedByLiquidation", "closedByRedemption"}
Trove == [debt : Nat, coll : Nat, stake : Nat, status : Status, arrayIndex : Nat]

isActive(b) == Troves[b].status = "active"

(***************************************************************************)
(* Ratios, stakes and pending rewards.                                     *)
(***************************************************************************)
getEntireSystemColl == activePool.ETH + defaultPool.ETH
getEntireSystemDebt == activePool.LUSDDebt + defaultPool.LUSDDebt
getTCR == computeCR(getEntireSystemColl, getEntireSystemDebt, price)
checkRecoveryMode == getTCR < CCR

\* getPendingETHReward and getPendingLUSDDebtReward.
pendingRewards(b) ==
    IF isActive(b)
    THEN [ETH |-> (Troves[b].stake * (L.ETH - rewardSnapshots[b].ETH)) \div DECIMAL_PRECISION,
          LUSDDebt |-> (Troves[b].stake * (L.LUSDDebt - rewardSnapshots[b].LUSDDebt))
                         \div DECIMAL_PRECISION]
    ELSE NoAmounts

\* Only the snapshot of L_ETH is compared.
hasPendingRewards(b) == isActive(b) /\ rewardSnapshots[b].ETH < L.ETH

entireColl(b) == Troves[b].coll + pendingRewards(b).ETH
entireDebt(b) == Troves[b].debt + pendingRewards(b).LUSDDebt
getNominalICR(b) == computeNominalCR(entireColl(b), entireDebt(b))

\* An address without a trove has no debt.
getCurrentICR(b) ==
    IF b = Null THEN UintMax ELSE computeCR(entireColl(b), entireDebt(b), price)

\* The assertion and the result of _computeNewStake.
stakeComputable == systemSnapshot.coll = 0 \/ systemSnapshot.stakes > 0
computeNewStake(coll) ==
    IF systemSnapshot.coll = 0 THEN coll
    ELSE (coll * systemSnapshot.stakes) \div systemSnapshot.coll

(***************************************************************************)
(* _applyPendingRewards: what it adds to the trove and moves from the      *)
(* DefaultPool to the ActivePool, and the snapshots it leaves.             *)
(***************************************************************************)
appliedRewards(b) == IF hasPendingRewards(b) THEN pendingRewards(b) ELSE NoAmounts
appliedSnapshots_Kept(b) == rewardSnapshots
appliedSnapshots(b) ==
    IF hasPendingRewards(b) THEN [rewardSnapshots EXCEPT ![b] = L] ELSE rewardSnapshots

\* Subtracting these from the DefaultPool does not underflow.
covered(rewards) == rewards.ETH <= defaultPool.ETH /\ rewards.LUSDDebt <= defaultPool.LUSDDebt

plus(pool, amounts) ==
    [ETH |-> pool.ETH + amounts.ETH, LUSDDebt |-> pool.LUSDDebt + amounts.LUSDDebt]
minus(pool, amounts) ==
    [ETH |-> pool.ETH - amounts.ETH, LUSDDebt |-> pool.LUSDDebt - amounts.LUSDDebt]

\* A user has this much LUSD to burn.
sufficientLUSDBalance(amount) == lusd.users >= amount

\* The gas compensation of a trove that is closed without a liquidation.
burnGasCompensation(token) ==
    [token EXCEPT !.gasPool = @ - LUSD_GAS_COMPENSATION,
                  !.totalSupply = @ - LUSD_GAS_COMPENSATION]

(***************************************************************************)
(* The sorted list.                                                        *)
(***************************************************************************)
contains(b) == \E i \in DOMAIN sortedTroves : sortedTroves[i] = b
position(b) == CHOOSE i \in DOMAIN sortedTroves : sortedTroves[i] = b
without(b) == RemoveAt(sortedTroves, position(b))

insertPositions(list, NICR) ==
    {k \in 1..(Len(list) + 1) :
        /\ k > 1 => getNominalICR(list[k - 1]) >= NICR
        /\ k <= Len(list) => NICR >= getNominalICR(list[k])}

insert(b, NICR) ==
    /\ NICR > 0
    /\ \E k \in insertPositions(sortedTroves, NICR) :
          sortedTroves' = InsertAt(sortedTroves, k, b)

reInsert(b, NICR) ==
    /\ NICR > 0
    /\ contains(b)
    /\ \E k \in insertPositions(without(b), NICR) : sortedTroves' = InsertAt(without(b), k, b)

getLast == IF sortedTroves = <<>> THEN Null ELSE Last(sortedTroves)
getFirst == IF sortedTroves = <<>> THEN Null ELSE Head(sortedTroves)
getPrev(b) ==
    IF contains(b) /\ position(b) > 1 THEN sortedTroves[position(b) - 1] ELSE Null

(***************************************************************************)
(* _removeStake and _closeTrove.  The last owner of the array takes the    *)
(* place of the one that leaves.                                           *)
(***************************************************************************)
moreThanOneTrove == Len(TroveOwners) > 1 /\ Len(sortedTroves) > 1
stakeRemovable(b) == Troves[b].stake <= totalStakes

reindexed(troves, moved, index) == [troves EXCEPT ![moved].arrayIndex = index]

internalCloseTrove(b, closedStatus) ==
    LET last == Last(TroveOwners)
        index == Troves[b].arrayIndex
        closed == [Troves EXCEPT ![b] = [debt |-> 0, coll |-> 0, stake |-> 0,
                                         status |-> closedStatus, arrayIndex |-> index]]
    IN  /\ moreThanOneTrove /\ stakeRemovable(b) /\ contains(b)
        /\ totalStakes' = totalStakes - Troves[b].stake
        /\ Troves' = reindexed(closed, last, index)
        /\ TroveOwners' = Front([TroveOwners EXCEPT ![index + 1] = last])
        /\ rewardSnapshots' = [rewardSnapshots EXCEPT ![b] = NoAmounts]
        /\ sortedTroves' = without(b)

--------------------------------------------------------------------------------
(***************************************************************************)
(* Liquidations.                                                           *)
(***************************************************************************)

\* LiquidationValues of one trove and LiquidationTotals of a sequence.
LiquidationValues ==
    [entireDebt : Nat, collGasCompensation : Nat, LUSDGasCompensation : Nat, debtToOffset : Nat,
     collToSendToSP : Nat, debtToRedistribute : Nat, collToRedistribute : Nat, collSurplus : Nat]

NoValues ==
    [entireDebt |-> 0, collGasCompensation |-> 0, LUSDGasCompensation |-> 0, debtToOffset |-> 0,
     collToSendToSP |-> 0, debtToRedistribute |-> 0, collToRedistribute |-> 0, collSurplus |-> 0]

addLiquidationValuesToTotals(totals, values) ==
    [entireDebt |-> totals.entireDebt + values.entireDebt,
     collGasCompensation |-> totals.collGasCompensation + values.collGasCompensation,
     LUSDGasCompensation |-> totals.LUSDGasCompensation + values.LUSDGasCompensation,
     debtToOffset |-> totals.debtToOffset + values.debtToOffset,
     collToSendToSP |-> totals.collToSendToSP + values.collToSendToSP,
     debtToRedistribute |-> totals.debtToRedistribute + values.debtToRedistribute,
     collToRedistribute |-> totals.collToRedistribute + values.collToRedistribute,
     collSurplus |-> totals.collSurplus + values.collSurplus]

\* Offset debtToOffset against the StabilityPool and redistribute the rest.
offsetAndRedistribute(b, debtToOffset) ==
    LET debt == entireDebt(b)
        gas == getCollGasCompensation(entireColl(b))
        coll == entireColl(b) - gas
        toSP == (coll * debtToOffset) \div debt
    IN  [entireDebt |-> debt, collGasCompensation |-> gas,
         LUSDGasCompensation |-> LUSD_GAS_COMPENSATION,
         debtToOffset |-> debtToOffset, collToSendToSP |-> toSP,
         debtToRedistribute |-> debt - debtToOffset, collToRedistribute |-> coll - toSP,
         collSurplus |-> 0]

getCappedOffsetVals(b) ==
    LET debt == entireDebt(b)
        capped == (debt * MCR) \div price
        gas == getCollGasCompensation(capped)
    IN  [entireDebt |-> debt, collGasCompensation |-> gas,
         LUSDGasCompensation |-> LUSD_GAS_COMPENSATION,
         debtToOffset |-> debt, collToSendToSP |-> capped - gas,
         debtToRedistribute |-> 0, collToRedistribute |-> 0,
         collSurplus |-> entireColl(b) - capped]

normalModeValues(b, LUSDInStabPool) ==
    offsetAndRedistribute(b, min(entireDebt(b), LUSDInStabPool))

recoveryModeValues(b, LUSDInStabPool) ==
    IF getCurrentICR(b) <= DECIMAL_PRECISION THEN offsetAndRedistribute(b, 0)
    ELSE IF getCurrentICR(b) < MCR THEN normalModeValues(b, LUSDInStabPool)
    ELSE getCappedOffsetVals(b)

\* Does _liquidateRecoveryMode close the trove, or return zero values?
recoveryModeLiquidates_OnlyTroveToo(b, LUSDInStabPool, TCR) ==
    getCurrentICR(b) >= MCR => getCurrentICR(b) < TCR /\ entireDebt(b) <= LUSDInStabPool
recoveryModeLiquidates(b, LUSDInStabPool, TCR) ==
    /\ Len(TroveOwners) > 1
    /\ getCurrentICR(b) >= MCR => getCurrentICR(b) < TCR /\ entireDebt(b) <= LUSDInStabPool

(***************************************************************************)
(* The loop variables.  todo is the rest of the caller's array of a batch; *)
(* in a sequence, user walks up the list, left counts down from _n, and    *)
(* the walk stops before firstUser (Null if it started in normal mode,     *)
(* where only the end of the list would stop it).                          *)
(***************************************************************************)
Liquidation ==
    [phase : {"idle", "sequence", "batch", "finish"}, todo : Seq(Borrowers),
     user : Borrowers \union {Null}, firstUser : Borrowers \union {Null}, left : Nat,
     backToNormalMode : BOOLEAN, remainingLUSD : Nat, systemDebt : Int, systemColl : Int,
     totals : LiquidationValues]

NoLiquidation ==
    [phase |-> "idle", todo |-> <<>>, user |-> Null, firstUser |-> Null, left |-> 0,
     backToNormalMode |-> FALSE, remainingLUSD |-> 0, systemDebt |-> 0, systemColl |-> 0,
     totals |-> NoValues]

Redemption ==
    [phase : {"idle", "loop", "finish"}, user : Borrowers \union {Null}, remainingLUSD : Nat,
     left : Nat, totalLUSDToRedeem : Nat, totalETHDrawn : Nat, LUSDSupplyAtStart : Nat]

NoRedemption ==
    [phase |-> "idle", user |-> Null, remainingLUSD |-> 0, left |-> 0,
     totalLUSDToRedeem |-> 0, totalETHDrawn |-> 0, LUSDSupplyAtStart |-> 0]

idle == liquidation.phase = "idle" /\ redemption.phase = "idle"

storageRecord ==
    [Troves |-> Troves, TroveOwners |-> TroveOwners, sortedTroves |-> sortedTroves,
     rewardSnapshots |-> rewardSnapshots, totalStakes |-> totalStakes,
     activePool |-> activePool, defaultPool |-> defaultPool, collSurplusPool |-> collSurplusPool,
     lusd |-> lusd]

\* A transaction that fails leaves the storage as it was.
Revert ==
    /\ Troves' = saved[1].Troves /\ TroveOwners' = saved[1].TroveOwners
    /\ sortedTroves' = saved[1].sortedTroves /\ rewardSnapshots' = saved[1].rewardSnapshots
    /\ totalStakes' = saved[1].totalStakes
    /\ activePool' = saved[1].activePool /\ defaultPool' = saved[1].defaultPool
    /\ collSurplusPool' = saved[1].collSurplusPool /\ lusd' = saved[1].lusd
    /\ liquidation' = NoLiquidation /\ redemption' = NoRedemption /\ saved' = <<>>
    /\ UNCHANGED <<systemSnapshot, L, lastError, baseRate, stabilityPool, price>>

startLiquidation(start) ==
    /\ idle
    /\ liquidation' = start
    /\ saved' = <<storageRecord>>
    /\ UNCHANGED <<storage, price, redemption>>

\* Both loops over troves start with the mode and the totals of the system.
liquidationFrom(phase, troveArray, user, firstUser, n) ==
    [phase |-> phase, todo |-> troveArray, user |-> user, firstUser |-> firstUser, left |-> n,
     backToNormalMode |-> ~checkRecoveryMode, remainingLUSD |-> stabilityPool.totalLUSDDeposits,
     systemDebt |-> getEntireSystemDebt, systemColl |-> getEntireSystemColl, totals |-> NoValues]

liquidateTroves(n) ==
    startLiquidation(liquidationFrom("sequence", <<>>, getLast,
                                     IF checkRecoveryMode THEN getFirst ELSE Null, n))

batchLiquidateTroves(troveArray) ==
    /\ troveArray # <<>>
    /\ startLiquidation(liquidationFrom("batch", troveArray, Null, Null, 0))

\* liquidate is a batch of one active trove.
liquidate(b) ==
    /\ isActive(b)
    /\ batchLiquidateTroves(<<b>>)

(***************************************************************************)
(* What an iteration decides about trove b: liquidate it in the given      *)
(* mode, pass over it, or stop (a sequence ends there, a batch goes on).   *)
(***************************************************************************)
verdict(b) ==
    LET ICR == getCurrentICR(b)
        TCR == computeCR(liquidation.systemColl, liquidation.systemDebt, price)
    IN  IF liquidation.backToNormalMode
        THEN IF ICR < MCR THEN "normal" ELSE "stop"
        ELSE IF ICR >= MCR /\ liquidation.remainingLUSD = 0 THEN "stop"
        ELSE IF recoveryModeLiquidates(b, liquidation.remainingLUSD, TCR) THEN "recovery"
        ELSE "pass"

\* Closing the trove and moving its pending rewards do not fail.
closable(b) ==
    moreThanOneTrove /\ stakeRemovable(b) /\ contains(b) /\ covered(pendingRewards(b))

\* Mutated form: the surplus that leaves the system stays in the tracker.
tracked_SurplusKept(step, values) ==
    LET back == liquidation.backToNormalMode
        debt == liquidation.systemDebt - values.debtToOffset
        coll == liquidation.systemColl - values.collToSendToSP - values.collGasCompensation
    IN  [phase |-> step.phase, todo |-> step.todo, user |-> step.user,
         firstUser |-> step.firstUser, left |-> step.left,
         remainingLUSD |-> liquidation.remainingLUSD - values.debtToOffset,
         totals |-> addLiquidationValuesToTotals(liquidation.totals, values),
         systemDebt |-> IF back THEN liquidation.systemDebt ELSE debt,
         systemColl |-> IF back THEN liquidation.systemColl ELSE coll,
         backToNormalMode |-> back \/ computeCR(coll, debt, price) >= CCR]

\* The trackers after a trove with these values, and whether they put the
\* system back to normal mode.
tracked(step, values) ==
    LET back == liquidation.backToNormalMode
        debt == liquidation.systemDebt - values.debtToOffset
        coll == liquidation.systemColl - values.collToSendToSP - values.collGasCompensation
                  - values.collSurplus
    IN  [phase |-> step.phase, todo |-> step.todo, user |-> step.user,
         firstUser |-> step.firstUser, left |-> step.left,
         remainingLUSD |-> liquidation.remainingLUSD - values.debtToOffset,
         totals |-> addLiquidationValuesToTotals(liquidation.totals, values),
         systemDebt |-> IF back THEN liquidation.systemDebt ELSE debt,
         systemColl |-> IF back THEN liquidation.systemColl ELSE coll,
         backToNormalMode |-> back \/ computeCR(coll, debt, price) >= CCR]

\* One trove is liquidated; step is the state of the loop after it.
liquidateOne(b, values, step) ==
    /\ closable(b)
    /\ internalCloseTrove(b, "closedByLiquidation")
    /\ activePool' = plus(activePool, pendingRewards(b))
    /\ defaultPool' = minus(defaultPool, pendingRewards(b))
    /\ collSurplusPool' = [collSurplusPool EXCEPT !.balances[b] = @ + values.collSurplus]
    /\ liquidation' = tracked(step, values)
    /\ UNCHANGED <<systemSnapshot, L, lastError, baseRate, stabilityPool, lusd, price,
                   redemption, saved>>

liquidationIteration(b, step, stopped) ==
    \/ /\ verdict(b) = "normal"
       /\ liquidateOne(b, normalModeValues(b, liquidation.remainingLUSD), step)
    \/ /\ verdict(b) = "recovery"
       /\ liquidateOne(b, recoveryModeValues(b, liquidation.remainingLUSD), step)
    \/ /\ verdict(b) = "pass"
       /\ liquidation' = step
       /\ UNCHANGED <<storage, price, redemption, saved>>
    \/ /\ verdict(b) = "stop"
       /\ liquidation' = stopped
       /\ UNCHANGED <<storage, price, redemption, saved>>

sequenceEnded == liquidation.left = 0 \/ liquidation.user = liquidation.firstUser

LiquidateTrovesStep ==
    /\ liquidation.phase = "sequence" /\ ~sequenceEnded
    /\ liquidationIteration(liquidation.user,
         [liquidation EXCEPT !.user = getPrev(liquidation.user), !.left = @ - 1],
         [liquidation EXCEPT !.phase = "finish"])

\* The caller's array may name any address, closed troves too.
BatchLiquidateStep ==
    /\ liquidation.phase = "batch" /\ liquidation.todo # <<>>
    /\ LET b == Head(liquidation.todo)
           step == [liquidation EXCEPT !.todo = Tail(@)]
       IN  \/ /\ isActive(b)
              /\ liquidationIteration(b, step, step)
           \/ /\ ~isActive(b)
              /\ liquidation' = step
              /\ UNCHANGED <<storage, price, redemption, saved>>

liquidationLoopEnded ==
    \/ liquidation.phase = "sequence" /\ sequenceEnded
    \/ liquidation.phase = "batch" /\ liquidation.todo = <<>>
    \/ liquidation.phase = "finish"

(***************************************************************************)
(* After the loop: StabilityPool.offset, _redistributeDebtAndColl, the     *)
(* surplus, the system snapshots and the gas compensation.                 *)
(***************************************************************************)
offsetOf(totals) ==
    IF stabilityPool.totalLUSDDeposits = 0 \/ totals.debtToOffset = 0 THEN NoAmounts
    ELSE [ETH |-> totals.collToSendToSP, LUSDDebt |-> totals.debtToOffset]

redistributionOf(totals) ==
    IF totals.debtToRedistribute = 0 THEN NoAmounts
    ELSE [ETH |-> totals.collToRedistribute, LUSDDebt |-> totals.debtToRedistribute]

\* Rewards per unit staked, with the rounding error of the last time.
redistributeDebtAndColl(amounts) ==
    LET ETHNumerator == amounts.ETH * DECIMAL_PRECISION + lastError.ETH
        LUSDDebtNumerator == amounts.LUSDDebt * DECIMAL_PRECISION + lastError.LUSDDebt
    IN  \/ /\ amounts.LUSDDebt = 0
           /\ UNCHANGED <<L, lastError>>
        \/ /\ amounts.LUSDDebt > 0
           /\ L' = [ETH |-> L.ETH + ETHNumerator \div totalStakes,
                    LUSDDebt |-> L.LUSDDebt + LUSDDebtNumerator \div totalStakes]
           /\ lastError' = [ETH |-> ETHNumerator % totalStakes,
                            LUSDDebt |-> LUSDDebtNumerator % totalStakes]

\* No requirement and no subtraction of the rest of the transaction fails.
liquidationSucceeds ==
    LET totals == liquidation.totals
    IN  /\ totals.entireDebt > 0
        /\ totals.debtToRedistribute > 0 => totalStakes > 0
        /\ activePool.LUSDDebt >= totals.debtToOffset + totals.debtToRedistribute
        /\ activePool.ETH >= totals.collToSendToSP + totals.collToRedistribute
                              + totals.collSurplus + totals.collGasCompensation
        /\ stabilityPool.totalLUSDDeposits >= totals.debtToOffset
        /\ lusd.stabilityPool >= totals.debtToOffset /\ lusd.totalSupply >= totals.debtToOffset
        /\ lusd.gasPool >= totals.LUSDGasCompensation

FinishLiquidation ==
    LET totals == liquidation.totals
        toSP == offsetOf(totals)
        toTroves == redistributionOf(totals)
        activeColl == activePool.ETH - toSP.ETH - toTroves.ETH - totals.collSurplus
                        - totals.collGasCompensation
    IN  /\ liquidationLoopEnded
        /\ liquidationSucceeds
        /\ stabilityPool' = [ETH |-> stabilityPool.ETH + toSP.ETH,
                             totalLUSDDeposits |-> stabilityPool.totalLUSDDeposits - toSP.LUSDDebt]
        /\ redistributeDebtAndColl(toTroves)
        /\ activePool' = [ETH |-> activeColl,
                          LUSDDebt |-> activePool.LUSDDebt - toSP.LUSDDebt - toTroves.LUSDDebt]
        /\ defaultPool' = plus(defaultPool, toTroves)
        /\ collSurplusPool' = [collSurplusPool EXCEPT !.ETH = @ + totals.collSurplus]
        /\ systemSnapshot' = [stakes |-> totalStakes,
                              coll |-> activeColl + defaultPool.ETH + toTroves.ETH]
        /\ lusd' = [lusd EXCEPT !.totalSupply = @ - toSP.LUSDDebt,
                                !.stabilityPool = @ - toSP.LUSDDebt,
                                !.gasPool = @ - totals.LUSDGasCompensation,
                                !.users = @ + totals.LUSDGasCompensation]
        /\ liquidation' = NoLiquidation /\ saved' = <<>>
        /\ UNCHANGED <<Troves, TroveOwners, sortedTroves, rewardSnapshots, totalStakes, baseRate,
                       price, redemption>>

LiquidationFails ==
    /\ liquidationLoopEnded
    /\ ~liquidationSucceeds
    /\ Revert

--------------------------------------------------------------------------------
(***************************************************************************)
(* Redemptions.                                                            *)
(***************************************************************************)

\* A first hint that is not valid is replaced by a walk from the tail, which
\* finds a trove that would have been a valid hint, or none.
isValidFirstRedemptionHint_AnyAboveMCR(i) == getCurrentICR(sortedTroves[i]) >= MCR
isValidFirstRedemptionHint(i) ==
    /\ getCurrentICR(sortedTroves[i]) >= MCR
    /\ i < Len(sortedTroves) => getCurrentICR(sortedTroves[i + 1]) < MCR

firstToRedeem ==
    LET valid == {i \in DOMAIN sortedTroves : isValidFirstRedemptionHint(i)}
    IN  IF valid = {} THEN {Null} ELSE {sortedTroves[i] : i \in valid}

redeemCollateral(amount, maxIterations) ==
    /\ idle
    /\ getTCR >= MCR
    /\ amount > 0 /\ sufficientLUSDBalance(amount)
    /\ \E first \in firstToRedeem :
          redemption' = [phase |-> "loop", user |-> first, remainingLUSD |-> amount,
                         left |-> IF maxIterations = 0 THEN UintMax ELSE maxIterations,
                         totalLUSDToRedeem |-> 0, totalETHDrawn |-> 0,
                         LUSDSupplyAtStart |-> getEntireSystemDebt]
    /\ saved' = <<storageRecord>>
    /\ UNCHANGED <<storage, price, liquidation>>

redemptionLoopEnded ==
    \/ redemption.phase = "finish"
    \/ /\ redemption.phase = "loop"
       /\ redemption.user = Null \/ redemption.remainingLUSD = 0 \/ redemption.left = 0

\* The trove after its pending rewards were applied and the lot was taken.
redeemedDebt(b) == Troves[b].debt + appliedRewards(b).LUSDDebt
redeemedColl(b) == Troves[b].coll + appliedRewards(b).ETH
LUSDLot(b) == min(redemption.remainingLUSD, redeemedDebt(b) - LUSD_GAS_COMPENSATION)
ETHLot(b) == (LUSDLot(b) * DECIMAL_PRECISION) \div price

redeemable(b) ==
    /\ covered(appliedRewards(b)) /\ stakeRemovable(b) /\ contains(b)
    /\ redeemedDebt(b) >= LUSD_GAS_COMPENSATION /\ ETHLot(b) <= redeemedColl(b)

\* The lot is all of the debt, and closing the trove does not fail.
redeemsAll(b) == redeemedDebt(b) - LUSDLot(b) = LUSD_GAS_COMPENSATION
redemptionCloses(b) ==
    /\ moreThanOneTrove
    /\ lusd.gasPool >= LUSD_GAS_COMPENSATION /\ lusd.totalSupply >= LUSD_GAS_COMPENSATION
    /\ activePool.LUSDDebt + appliedRewards(b).LUSDDebt >= LUSD_GAS_COMPENSATION
    /\ activePool.ETH + appliedRewards(b).ETH >= redeemedColl(b) - ETHLot(b)

\* The next state of the loop after a lot was taken from b.
lotTaken(b) ==
    [redemption EXCEPT !.user = getPrev(b), !.left = @ - 1,
                       !.remainingLUSD = @ - LUSDLot(b),
                       !.totalLUSDToRedeem = @ + LUSDLot(b),
                       !.totalETHDrawn = @ + ETHLot(b)]

\* All of the debt is redeemed: the trove is closed, its gas compensation
\* burnt, and what is left of the collateral waits in the CollSurplusPool.
RedeemClose(b) ==
    LET rewards == appliedRewards(b)
        surplus == redeemedColl(b) - ETHLot(b)
    IN  /\ redeemsAll(b) /\ redeemable(b) /\ redemptionCloses(b)
        /\ internalCloseTrove(b, "closedByRedemption")
        /\ lusd' = burnGasCompensation(lusd)
        /\ activePool' = minus(plus(activePool, rewards),
                               [ETH |-> surplus, LUSDDebt |-> LUSD_GAS_COMPENSATION])
        /\ defaultPool' = minus(defaultPool, rewards)
        /\ collSurplusPool' = [ETH |-> collSurplusPool.ETH + surplus,
                               balances |-> [collSurplusPool.balances EXCEPT ![b] = @ + surplus]]
        /\ redemption' = lotTaken(b)

\* A part of the debt is redeemed and the caller's hint was computed for the
\* ratio the trove gets.
RedeemPartly(b) ==
    LET newDebt == redeemedDebt(b) - LUSDLot(b)
        newColl == redeemedColl(b) - ETHLot(b)
    IN  /\ ~redeemsAll(b) /\ redeemable(b) /\ stakeComputable
        /\ getNetDebt(newDebt) >= MIN_NET_DEBT
        /\ reInsert(b, computeNominalCR(newColl, newDebt))
        /\ Troves' = [Troves EXCEPT ![b].debt = newDebt, ![b].coll = newColl,
                                    ![b].stake = computeNewStake(newColl)]
        /\ totalStakes' = totalStakes - Troves[b].stake + computeNewStake(newColl)
        /\ rewardSnapshots' = appliedSnapshots(b)
        /\ activePool' = plus(activePool, appliedRewards(b))
        /\ defaultPool' = minus(defaultPool, appliedRewards(b))
        /\ redemption' = lotTaken(b)
        /\ UNCHANGED <<TroveOwners, collSurplusPool, lusd>>

\* The hint is out of date, or too little debt would be left: the redemption
\* stops, but the rewards applied to the trove stay.
CancelPartial(b) ==
    LET rewards == appliedRewards(b)
    IN  /\ ~redeemsAll(b) /\ redeemable(b)
        /\ Troves' = [Troves EXCEPT ![b].debt = redeemedDebt(b), ![b].coll = redeemedColl(b)]
        /\ rewardSnapshots' = appliedSnapshots(b)
        /\ activePool' = plus(activePool, rewards)
        /\ defaultPool' = minus(defaultPool, rewards)
        /\ redemption' = [redemption EXCEPT !.phase = "finish"]
        /\ UNCHANGED <<TroveOwners, sortedTroves, totalStakes, collSurplusPool, lusd>>

RedeemStep ==
    /\ redemption.phase = "loop" /\ ~redemptionLoopEnded
    /\ \/ RedeemClose(redemption.user)
       \/ RedeemPartly(redemption.user)
       \/ CancelPartial(redemption.user)
    /\ UNCHANGED <<systemSnapshot, L, lastError, baseRate, stabilityPool, price, liquidation, saved>>

\* The loop cannot close the only trove, or draw more than a trove has.
RedeemStepFails ==
    LET b == redemption.user
    IN  /\ redemption.phase = "loop" /\ ~redemptionLoopEnded
        /\ ~(redeemable(b) /\ (redeemsAll(b) => redemptionCloses(b)))
        /\ Revert

\* _updateBaseRateFromRedemption after the time that gives this decay factor.
newBaseRate(decay) ==
    min((baseRate * decay) \div DECIMAL_PRECISION
          + ((redemption.totalETHDrawn * price) \div redemption.LUSDSupplyAtStart) \div BETA,
        DECIMAL_PRECISION)

\* No requirement and no subtraction of the rest of the transaction fails.
redemptionSucceeds(rate) ==
    /\ redemption.totalETHDrawn > 0
    /\ rate > 0
    /\ calcRedemptionFee(rate, redemption.totalETHDrawn) < redemption.totalETHDrawn
    /\ sufficientLUSDBalance(redemption.totalLUSDToRedeem) /\ lusd.totalSupply >= redemption.totalLUSDToRedeem
    /\ activePool.LUSDDebt >= redemption.totalLUSDToRedeem
    /\ activePool.ETH >= redemption.totalETHDrawn

\* The fee goes to the LQTY stakers, the rest to the redeemer; both leave the
\* ActivePool.
FinishRedemption ==
    /\ redemptionLoopEnded
    /\ \E decay \in DecayFactors :
          /\ redemptionSucceeds(newBaseRate(decay))
          /\ baseRate' = newBaseRate(decay)
    /\ lusd' = [lusd EXCEPT !.users = @ - redemption.totalLUSDToRedeem,
                            !.totalSupply = @ - redemption.totalLUSDToRedeem]
    /\ activePool' = minus(activePool, [ETH |-> redemption.totalETHDrawn,
                                        LUSDDebt |-> redemption.totalLUSDToRedeem])
    /\ redemption' = NoRedemption /\ saved' = <<>>
    /\ UNCHANGED <<Troves, TroveOwners, sortedTroves, rewardSnapshots, totalStakes, systemSnapshot,
                   L, lastError, defaultPool, collSurplusPool, stabilityPool, price, liquidation>>

\* Nothing was redeemed, or the fee is more than the redeemer accepts.
RedemptionFails ==
    /\ redemptionLoopEnded
    /\ Revert
================================================================================
