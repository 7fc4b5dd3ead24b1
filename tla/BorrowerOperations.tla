--------------------------- MODULE BorrowerOperations ---------------------------
(***************************************************************************)
(* BorrowerOperations.sol: what a borrower may do with a trove.  Each      *)
(* operation is one transaction and one step; a requirement that fails     *)
(* leaves no trace, so it is a guard.  The caller's limit on the borrowing *)
(* fee only makes a transaction fail, and is left out.                     *)
(***************************************************************************)
EXTENDS TroveManager

\* _getNewTCRFromTroveChange: the ratio of the system after a change.
newTCR_DebtIgnored(collChange, debtChange) ==
    computeCR(getEntireSystemColl + collChange, getEntireSystemDebt, price)
newTCR(collChange, debtChange) ==
    computeCR(getEntireSystemColl + collChange, getEntireSystemDebt + debtChange, price)

\* _triggerBorrowingFee: the base rate decays, the fee is minted to the LQTY
\* stakers.  There is no fee in recovery mode.
borrowingRates == {(baseRate * decay) \div DECIMAL_PRECISION : decay \in DecayFactors}
borrowingFee(rate, amount) == IF checkRecoveryMode THEN 0 ELSE calcBorrowingFee(rate, amount)
rateAfterBorrowing(rate) == IF checkRecoveryMode THEN baseRate ELSE rate

\* What openTrove requires.
openTroveAllowed(b, value, LUSDAmount, rate) ==
    LET netDebt == LUSDAmount + borrowingFee(rate, LUSDAmount)
        compositeDebt == getCompositeDebt(netDebt)
        ICR == computeCR(value, compositeDebt, price)
    IN  /\ ~isActive(b)
        /\ netDebt >= MIN_NET_DEBT
        /\ checkRecoveryMode => ICR >= CCR
        /\ ~checkRecoveryMode => ICR >= MCR /\ newTCR(value, compositeDebt) >= CCR
        /\ stakeComputable /\ stakeRemovable(b)

openTroveAtRate(b, value, LUSDAmount, rate) ==
    LET fee == borrowingFee(rate, LUSDAmount)
        compositeDebt == getCompositeDebt(LUSDAmount + fee)
        stake == computeNewStake(Troves[b].coll + value)
    IN  /\ idle
        /\ openTroveAllowed(b, value, LUSDAmount, rate)
        /\ Troves' = [Troves EXCEPT ![b] =
             [debt |-> Troves[b].debt + compositeDebt, coll |-> Troves[b].coll + value,
              stake |-> stake, status |-> "active", arrayIndex |-> Len(TroveOwners)]]
        /\ TroveOwners' = Append(TroveOwners, b)
        /\ rewardSnapshots' = [rewardSnapshots EXCEPT ![b] = L]
        /\ totalStakes' = totalStakes - Troves[b].stake + stake
        /\ insert(b, computeNominalCR(value, compositeDebt))
        /\ activePool' = plus(activePool, [ETH |-> value, LUSDDebt |-> compositeDebt])
        /\ lusd' = [lusd EXCEPT !.totalSupply = @ + compositeDebt, !.users = @ + LUSDAmount,
                                !.lqtyStaking = @ + fee, !.gasPool = @ + LUSD_GAS_COMPENSATION]
        /\ baseRate' = rateAfterBorrowing(rate)
        /\ UNCHANGED <<systemSnapshot, L, lastError, defaultPool, collSurplusPool, stabilityPool,
                       price, liquidation, redemption, saved>>

openTrove(b, value, LUSDAmount) ==
    \E rate \in borrowingRates : openTroveAtRate(b, value, LUSDAmount, rate)

(***************************************************************************)
(* _adjustTrove, which addColl, withdrawColl, withdrawLUSD, repayLUSD,     *)
(* adjustTrove and moveETHGainToTrove call: collChange and LUSDChange are  *)
(* signed.  It leaves open where the ETH comes from.                       *)
(***************************************************************************)
validAdjustmentInCurrentMode_NoOldICR(collChange, netDebtChange, oldICR, newICR) ==
    IF checkRecoveryMode THEN collChange >= 0 /\ newICR >= MCR
    ELSE newICR >= MCR /\ newTCR(collChange, netDebtChange) >= CCR
validAdjustmentInCurrentMode(collChange, netDebtChange, oldICR, newICR) ==
    IF checkRecoveryMode
    THEN /\ collChange >= 0
         /\ netDebtChange > 0 => newICR >= CCR /\ newICR >= oldICR
    ELSE newICR >= MCR /\ newTCR(collChange, netDebtChange) >= CCR

\* What _adjustTrove requires.
adjustTroveAllowed(b, collChange, LUSDChange, rate) ==
    LET rewards == appliedRewards(b)
        netDebtChange == LUSDChange + IF LUSDChange > 0 THEN borrowingFee(rate, LUSDChange) ELSE 0
        coll == Troves[b].coll + rewards.ETH
        debt == Troves[b].debt + rewards.LUSDDebt
        newColl == coll + collChange
        newDebt == debt + netDebtChange
    IN  /\ collChange # 0 \/ LUSDChange # 0
        /\ isActive(b)
        /\ covered(rewards)
        /\ newColl >= 0 /\ newDebt >= 0
        /\ validAdjustmentInCurrentMode(collChange, netDebtChange,
             computeCR(coll, debt, price), computeCR(newColl, newDebt, price))
        /\ LUSDChange < 0 =>
             /\ getNetDebt(newDebt) >= MIN_NET_DEBT
             /\ sufficientLUSDBalance(-LUSDChange) /\ lusd.totalSupply >= -LUSDChange
        /\ stakeComputable /\ stakeRemovable(b)

adjustTroveAtRate(b, collChange, LUSDChange, rate) ==
    LET rewards == appliedRewards(b)
        fee == IF LUSDChange > 0 THEN borrowingFee(rate, LUSDChange) ELSE 0
        netDebtChange == LUSDChange + fee
        newColl == Troves[b].coll + rewards.ETH + collChange
        newDebt == Troves[b].debt + rewards.LUSDDebt + netDebtChange
        stake == computeNewStake(newColl)
    IN  /\ idle
        /\ adjustTroveAllowed(b, collChange, LUSDChange, rate)
        /\ Troves' = [Troves EXCEPT ![b].coll = newColl, ![b].debt = newDebt, ![b].stake = stake]
        /\ rewardSnapshots' = appliedSnapshots(b)
        /\ totalStakes' = totalStakes - Troves[b].stake + stake
        /\ reInsert(b, computeNominalCR(newColl, newDebt))
        /\ activePool' = plus(plus(activePool, rewards),
                              [ETH |-> collChange, LUSDDebt |-> netDebtChange])
        /\ activePool'.ETH >= 0 /\ activePool'.LUSDDebt >= 0
        /\ defaultPool' = minus(defaultPool, rewards)
        /\ lusd' = [lusd EXCEPT !.totalSupply = @ + netDebtChange, !.users = @ + LUSDChange,
                                !.lqtyStaking = @ + fee]
        /\ baseRate' = IF LUSDChange > 0 THEN rateAfterBorrowing(rate) ELSE baseRate
        /\ UNCHANGED <<TroveOwners, systemSnapshot, L, lastError, collSurplusPool, price,
                       liquidation, redemption, saved>>

adjustTroveBy(b, collChange, LUSDChange) ==
    \E rate \in IF LUSDChange > 0 THEN borrowingRates ELSE {baseRate} :
       adjustTroveAtRate(b, collChange, LUSDChange, rate)

adjustTrove(b, collChange, LUSDChange) ==
    /\ adjustTroveBy(b, collChange, LUSDChange)
    /\ UNCHANGED stabilityPool

\* StabilityPool.withdrawETHGainToTrove: a depositor's gain goes to her trove
\* through moveETHGainToTrove.
withdrawETHGainToTrove(b, gain) ==
    /\ gain > 0 /\ gain <= stabilityPool.ETH
    /\ adjustTroveBy(b, gain, 0)
    /\ stabilityPool' = [stabilityPool EXCEPT !.ETH = @ - gain]

\* The rest of the debt is burnt from the caller's LUSD, the gas compensation
\* from the GasPool.
closeTrove(b) ==
    LET rewards == appliedRewards(b)
        coll == Troves[b].coll + rewards.ETH
        debt == Troves[b].debt + rewards.LUSDDebt
    IN  /\ idle
        /\ isActive(b)
        /\ ~checkRecoveryMode
        /\ covered(rewards)
        /\ sufficientLUSDBalance(getNetDebt(debt)) /\ lusd.gasPool >= LUSD_GAS_COMPENSATION
        /\ getNetDebt(debt) >= 0 /\ lusd.totalSupply >= debt
        /\ activePool.ETH >= Troves[b].coll /\ activePool.LUSDDebt >= Troves[b].debt
        /\ newTCR(-coll, -debt) >= CCR
        /\ internalCloseTrove(b, "closedByOwner")
        /\ activePool' = minus(plus(activePool, rewards), [ETH |-> coll, LUSDDebt |-> debt])
        /\ defaultPool' = minus(defaultPool, rewards)
        /\ lusd' = burnGasCompensation([lusd EXCEPT !.totalSupply = @ - getNetDebt(debt),
                                                    !.users = @ - getNetDebt(debt)])
        /\ UNCHANGED <<systemSnapshot, L, lastError, baseRate, collSurplusPool, stabilityPool, price,
                       liquidation, redemption, saved>>

\* CollSurplusPool.claimColl.
claimCollateral(b) ==
    LET claimableColl == collSurplusPool.balances[b]
    IN  /\ idle
        /\ claimableColl > 0 /\ claimableColl <= collSurplusPool.ETH
        /\ collSurplusPool' = [ETH |-> collSurplusPool.ETH - claimableColl,
                               balances |-> [collSurplusPool.balances EXCEPT ![b] = 0]]
        /\ UNCHANGED <<Troves, TroveOwners, sortedTroves, rewardSnapshots, totalStakes,
                       systemSnapshot, L, lastError, baseRate, activePool, defaultPool,
                       stabilityPool, lusd, price, liquidation, redemption, saved>>
================================================================================
