-------------------------------- MODULE Liquity ---------------------------------
(***************************************************************************)
(* The protocol: borrowers, liquidators, redeemers, depositors and a price *)
(* that moves.  Deposits and ETH gains of the StabilityPool are modelled   *)
(* by their totals: any part of them may belong to the depositor who acts. *)
(***************************************************************************)
EXTENDS BorrowerOperations, FiniteSets, FiniteSetsExt

CONSTANTS            \* inputs of the transactions
    Prices,          \* prices the PriceFeed may return
    Collaterals,     \* ETH sent with openTrove
    Loans,           \* LUSD requested from openTrove
    CollChanges,     \* collateral changes of adjustTrove, signed
    DebtChanges,     \* debt changes of adjustTrove, signed
    Deposits,        \* amounts of provideToSP and withdrawFromSP
    Redemptions,     \* amounts of redeemCollateral
    MaxIterations,   \* its bound on the loop, 0 for none
    SequenceLengths, \* _n of liquidateTroves
    Batches,         \* arrays of batchLiquidateTroves
    Gifts            \* amounts of a plain LUSD transfer to the GasPool

ASSUME LiquityAssumption ==
    /\ Prices \subseteq Nat \ {0}
    /\ Collaterals \subseteq Nat /\ Loans \subseteq Nat
    /\ CollChanges \subseteq Int /\ DebtChanges \subseteq Int
    /\ Deposits \subseteq Nat /\ Redemptions \subseteq Nat /\ Gifts \subseteq Nat
    /\ MaxIterations \subseteq Nat /\ SequenceLengths \subseteq Nat
    /\ Batches \subseteq Seq(Borrowers)
    /\ IsFiniteSet(Borrowers)

\* What the acting depositor's ETH gain may be: nothing or all there is.
ETHGains == {0, stabilityPool.ETH}

\* The deposit grows by amount, the gain is paid out.
provideToSP(amount, gain) ==
    /\ idle
    /\ amount > 0 /\ sufficientLUSDBalance(amount)
    /\ stabilityPool' = [ETH |-> stabilityPool.ETH - gain,
                         totalLUSDDeposits |-> stabilityPool.totalLUSDDeposits + amount]
    /\ lusd' = [lusd EXCEPT !.users = @ - amount, !.stabilityPool = @ + amount]
    /\ UNCHANGED <<Troves, TroveOwners, sortedTroves, rewardSnapshots, totalStakes, systemSnapshot,
                   L, lastError, baseRate, activePool, defaultPool, collSurplusPool, price,
                   liquidation, redemption, saved>>

\* Not while the last trove of the list could be liquidated.
withdrawFromSP(amount, gain) ==
    LET withdrawn == min(amount, stabilityPool.totalLUSDDeposits)
    IN  /\ idle
        /\ amount # 0 => getCurrentICR(getLast) >= MCR
        /\ stabilityPool.totalLUSDDeposits > 0 \/ gain > 0
        /\ lusd.stabilityPool >= withdrawn
        /\ stabilityPool' = [ETH |-> stabilityPool.ETH - gain,
                             totalLUSDDeposits |-> stabilityPool.totalLUSDDeposits - withdrawn]
        /\ lusd' = [lusd EXCEPT !.users = @ + withdrawn, !.stabilityPool = @ - withdrawn]
        /\ UNCHANGED <<Troves, TroveOwners, sortedTroves, rewardSnapshots, totalStakes,
                       systemSnapshot, L, lastError, baseRate, activePool, defaultPool,
                       collSurplusPool, price, liquidation, redemption, saved>>

\* LUSD may be sent to the GasPool's address, but not to the StabilityPool,
\* TroveManager or BorrowerOperations; LQTY stakers collect their fees.
moveLUSD(from, to, amount) ==
    /\ idle
    /\ lusd[from] >= amount
    /\ lusd' = [lusd EXCEPT ![from] = @ - amount, ![to] = @ + amount]
    /\ UNCHANGED <<Troves, TroveOwners, sortedTroves, rewardSnapshots, totalStakes, systemSnapshot,
                   L, lastError, baseRate, activePool, defaultPool, collSurplusPool, stabilityPool,
                   price, liquidation, redemption, saved>>

\* The next fetchPrice returns another price.
changePrice(newPrice) ==
    /\ idle
    /\ newPrice # price
    /\ price' = newPrice
    /\ UNCHANGED <<storage, liquidation, redemption, saved>>

Init ==
    /\ Troves = [b \in Borrowers |-> [debt |-> 0, coll |-> 0, stake |-> 0,
                                      status |-> "nonExistent", arrayIndex |-> 0]]
    /\ TroveOwners = <<>> /\ sortedTroves = <<>>
    /\ rewardSnapshots = [b \in Borrowers |-> NoAmounts]
    /\ totalStakes = 0 /\ systemSnapshot = [stakes |-> 0, coll |-> 0]
    /\ L = NoAmounts /\ lastError = NoAmounts /\ baseRate = 0
    /\ activePool = NoAmounts /\ defaultPool = NoAmounts
    /\ collSurplusPool = [ETH |-> 0, balances |-> [b \in Borrowers |-> 0]]
    /\ stabilityPool = [ETH |-> 0, totalLUSDDeposits |-> 0]
    /\ lusd = [totalSupply |-> 0, users |-> 0, gasPool |-> 0, stabilityPool |-> 0, lqtyStaking |-> 0]
    /\ price \in Prices
    /\ liquidation = NoLiquidation /\ redemption = NoRedemption /\ saved = <<>>

BorrowerAction ==
    \E b \in Borrowers :
       \/ \E value \in Collaterals, loan \in Loans : openTrove(b, value, loan)
       \/ \E collChange \in CollChanges, debtChange \in DebtChanges :
             adjustTrove(b, collChange, debtChange)
       \/ \E gain \in ETHGains : withdrawETHGainToTrove(b, gain)
       \/ closeTrove(b)
       \/ claimCollateral(b)

DepositorAction ==
    \E amount \in Deposits, gain \in ETHGains :
       provideToSP(amount, gain) \/ withdrawFromSP(amount, gain)

TransferAction ==
    \/ \E amount \in Gifts : moveLUSD("users", "gasPool", amount)
    \/ lusd.lqtyStaking > 0 /\ moveLUSD("lqtyStaking", "users", lusd.lqtyStaking)

LiquidatorAction ==
    \/ \E b \in Borrowers : liquidate(b)
    \/ \E troveArray \in Batches : batchLiquidateTroves(troveArray)
    \/ \E n \in SequenceLengths : liquidateTroves(n)

RedeemerAction ==
    \E amount \in Redemptions, n \in MaxIterations : redeemCollateral(amount, n)

PriceAction == \E newPrice \in Prices : changePrice(newPrice)

\* The transactions in progress go on.
LiquidationStep ==
    LiquidateTrovesStep \/ BatchLiquidateStep \/ FinishLiquidation \/ LiquidationFails
RedemptionStep == RedeemStep \/ RedeemStepFails \/ FinishRedemption \/ RedemptionFails

Next ==
    \/ BorrowerAction
    \/ DepositorAction
    \/ TransferAction
    \/ LiquidatorAction
    \/ RedeemerAction
    \/ PriceAction
    \/ LiquidationStep
    \/ RedemptionStep

Spec == Init /\ [][Next]_vars

--------------------------------------------------------------------------------
(***************************************************************************)
(* Properties.  Sums over the troves are compared with the totals the      *)
(* contracts keep.                                                         *)
(***************************************************************************)

\* Type correctness: no subtraction of the contracts goes below zero, in the
\* middle of a transaction either, and the base rate stays at most 100%.
TypeOK ==
    /\ Troves \in [Borrowers -> Trove]
    /\ TroveOwners \in Seq(Borrowers) /\ sortedTroves \in Seq(Borrowers)
    /\ rewardSnapshots \in [Borrowers -> Amounts]
    /\ totalStakes \in Nat /\ systemSnapshot \in [stakes : Nat, coll : Nat]
    /\ L \in Amounts /\ lastError \in Amounts /\ baseRate \in 0..DECIMAL_PRECISION
    /\ activePool \in Amounts /\ defaultPool \in Amounts
    /\ collSurplusPool \in [ETH : Nat, balances : [Borrowers -> Nat]]
    /\ stabilityPool \in [ETH : Nat, totalLUSDDeposits : Nat]
    /\ lusd \in [totalSupply : Nat, users : Nat, gasPool : Nat, stabilityPool : Nat,
                 lqtyStaking : Nat]
    /\ price \in Prices
    /\ liquidation \in Liquidation /\ redemption \in Redemption

\* Every LUSD in existence is some trove's debt, also between the iterations of
\* a liquidation or a redemption: the supply equals the debt in the two pools,
\* the balances add up to it, and the StabilityPool holds its deposits.
SupplyBacked ==
    /\ lusd.totalSupply = getEntireSystemDebt
    /\ lusd.totalSupply = lusd.users + lusd.gasPool + lusd.stabilityPool + lusd.lqtyStaking
    /\ lusd.stabilityPool = stabilityPool.totalLUSDDeposits

\* The sum of f[b] over all borrowers b.
overBorrowers(f) == MapThenSumSet(LAMBDA b : f[b], Borrowers)

\* The ActivePool holds exactly the collateral and the debt recorded in the
\* troves, and the stakes add up: no operation, rounding or redistribution moves
\* one without the other.
PoolMatchesTroves ==
    idle => /\ activePool.ETH = overBorrowers([b \in Borrowers |-> Troves[b].coll])
            /\ activePool.LUSDDebt = overBorrowers([b \in Borrowers |-> Troves[b].debt])
            /\ totalStakes = overBorrowers([b \in Borrowers |-> Troves[b].stake])

\* The DefaultPool can pay the pending rewards of all troves, so that no
\* operation on a trove fails for want of them.
DefaultPoolCoversETH ==
    defaultPool.ETH >= overBorrowers([b \in Borrowers |-> pendingRewards(b).ETH])
DefaultPoolCoversDebt ==
    defaultPool.LUSDDebt >= overBorrowers([b \in Borrowers |-> pendingRewards(b).LUSDDebt])

\* The surplus of every closed trove can be claimed.
SurplusClaimable == idle => collSurplusPool.ETH = overBorrowers(collSurplusPool.balances)

\* The GasPool holds the gas compensation of every active trove.
GasPoolCoversTroves ==
    idle => lusd.gasPool >= LUSD_GAS_COMPENSATION * Len(TroveOwners)

\* The pools hold what the troves say they do, and every claim on them can be
\* paid: pending rewards, surpluses and gas compensations.
PoolsCover ==
    /\ PoolMatchesTroves /\ SurplusClaimable /\ GasPoolCoversTroves
    /\ DefaultPoolCoversETH /\ DefaultPoolCoversDebt

\* Status, the array of owners with its index, and the sorted list agree about
\* which troves exist, also in the middle of a transaction: _removeTroveOwner
\* moves the last owner and must update the index of the one it moved.
OwnersAgree ==
    /\ \A b \in Borrowers : isActive(b) =>
          Troves[b].arrayIndex < Len(TroveOwners) /\ TroveOwners[Troves[b].arrayIndex + 1] = b
    /\ \A i \in 1..Len(TroveOwners) :
          isActive(TroveOwners[i]) /\ Troves[TroveOwners[i]].arrayIndex = i - 1
    /\ ToSet(sortedTroves) = ToSet(TroveOwners) /\ Len(sortedTroves) = Len(TroveOwners)

\* The trove the liquidation loop is about to look at.
liquidationLooksAt ==
    IF liquidation.phase = "sequence" /\ ~sequenceEnded THEN {liquidation.user} \ {Null}
    ELSE IF liquidation.phase = "batch" /\ liquidation.todo # <<>>
    THEN {b \in {Head(liquidation.todo)} : isActive(b)}
    ELSE {}

\* A liquidation never fails half way: each trove it decides to liquidate can be
\* closed, and in the end the pools hold the collateral, the debt and the LUSD
\* that are moved.  It only fails when there was nothing to liquidate, and the
\* snapshots it leaves satisfy the assertion of _computeNewStake.
LiquidationNeverStuck ==
    /\ \A b \in liquidationLooksAt : verdict(b) \in {"normal", "recovery"} => closable(b)
    /\ liquidationLoopEnded /\ liquidation.totals.entireDebt > 0 => liquidationSucceeds
    /\ stakeComputable

\* The totals a liquidation in recovery mode keeps for its mode and TCR checks
\* are the totals the system will really have when the transaction ends after
\* the troves liquidated so far: pools less what is offset, paid as gas
\* compensation or set aside as surplus (_checkPotentialRecoveryMode).
TrackedTotalsExact ==
    liquidation.phase # "idle" /\ ~liquidation.backToNormalMode =>
      /\ liquidation.systemDebt = getEntireSystemDebt - liquidation.totals.debtToOffset
      /\ liquidation.systemColl = getEntireSystemColl - liquidation.totals.collToSendToSP
            - liquidation.totals.collGasCompensation - liquidation.totals.collSurplus

\* What a transaction keeps of its own about the system is what the system is:
\* the owners and their indexes while troves are removed one by one, and the
\* totals of a liquidation.
TrackedStateAgrees == OwnersAgree /\ TrackedTotalsExact

\* redeemCollateral takes from troves above the MCR, lowest ratio first: when
\* the loop comes to a trove, the lot it takes is covered by the collateral and
\* every trove further down the list is below the MCR (skipped, not missed).
RedemptionInOrder ==
    redemption.phase = "loop" /\ ~redemptionLoopEnded =>
        \E i \in DOMAIN sortedTroves :
           /\ sortedTroves[i] = redemption.user
           /\ getCurrentICR(redemption.user) >= MCR /\ redeemable(redemption.user)
           /\ \A j \in (i + 1)..Len(sortedTroves) : getCurrentICR(sortedTroves[j]) < MCR

\* No transaction of a borrower or a depositor pushes the system from normal
\* mode into recovery mode at an unchanged price, whatever it combines
\* (_requireNewTCRisAboveCCR).
NormalModeKept ==
    [][idle /\ idle' /\ price' = price /\ ~checkRecoveryMode => ~checkRecoveryMode']_vars

\* In recovery mode no transaction of a borrower or a depositor lowers the TCR
\* (by more than the last digit, which the two rounded ratios that
\* _requireValidAdjustmentInCurrentMode compares may hide).
RecoveryTCRKept ==
    [][idle /\ idle' /\ price' = price /\ checkRecoveryMode => getTCR' >= getTCR - 1]_vars

\* Once there is a trove, there always is one: no way of closing troves, alone
\* or several in one transaction, empties the system.
LastTroveStays == [][Len(TroveOwners) >= 1 => Len(TroveOwners') >= 1]_vars

(***************************************************************************)
(* Two statements of the documentation that rounding breaks.               *)
(***************************************************************************)

\* hasPendingRewards says whether a trove has rewards to apply: "A Trove has
\* pending rewards if its snapshot is less than the current rewards
\* per-unit-staked sum".
RewardsNoticed == \A b \in Borrowers : ~hasPendingRewards(b) => pendingRewards(b) = NoAmounts

\* Redistributions preserve the order of the troves, so the list stays sorted by
\* nominal ratio without being touched: "The list relies on the fact that a
\* collateral and debt redistribution due to a liquidation preserves the
\* ordering of all active Troves".
StaysSorted ==
    idle => \A i \in 1..(Len(sortedTroves) - 1) :
              getNominalICR(sortedTroves[i]) >= getNominalICR(sortedTroves[i + 1])
================================================================================
