-------------------------------- MODULE BaseRate --------------------------------
(***************************************************************************)
(* The base rate of TroveManager and its clock, and the operations that    *)
(* pay a fee, as functions on a block: the state of the chain after the    *)
(* transactions up to then.  A block shows the user's trove, and of the    *)
(* others only the totals; who owns what else is left to Liquity.          *)
(***************************************************************************)
EXTENDS LibBase, Sequences

CONSTANTS
    SECONDS_IN_ONE_MINUTE,
    MINUTE_DECAY_FACTOR      \* what is left of the base rate after a minute

ASSUME BaseRateAssumption ==
    /\ SECONDS_IN_ONE_MINUTE \in Nat \ {0}
    /\ MINUTE_DECAY_FACTOR \in 1..(DECIMAL_PRECISION - 1)

\* decays and origin are history: the minutes of decay applied so far, and the
\* time the clock started at.  minutesIssued is the minute of the last LQTY
\* issuance, rewardTime the Unipool's lastUpdateTime.
Genesis(total, user, rate) ==
    [time |-> 0, baseRate |-> rate, lastFeeOperationTime |-> 0, total |-> total, price |-> ONE,
     trove |-> user, minutesIssued |-> 0, rewardTime |-> 0, decays |-> 0, event |-> "none"]

minutesPassedSinceLastFeeOp(c) ==
    (c.time - c.lastFeeOperationTime) \div SECONDS_IN_ONE_MINUTE

calcDecayedBaseRate(c) ==
    (c.baseRate * decPow(MINUTE_DECAY_FACTOR, minutesPassedSinceLastFeeOp(c))) \div DECIMAL_PRECISION

\* Mutated form: the clock advances with every fee operation.
updateLastFeeOpTime_Always(c) == c.time

\* The clock advances only when a minute has passed.
updateLastFeeOpTime(c) ==
    IF c.time - c.lastFeeOperationTime >= SECONDS_IN_ONE_MINUTE THEN c.time
    ELSE c.lastFeeOperationTime

feeOperation(c, rate) ==
    [c EXCEPT !.baseRate = rate,
              !.lastFeeOperationTime = updateLastFeeOpTime(c),
              !.decays = @ + minutesPassedSinceLastFeeOp(c)]

decayBaseRateFromBorrowing(c) == feeOperation(c, calcDecayedBaseRate(c))

\* The base rate after a redemption of ETHDrawn.
baseRateAfterRedemption(c, ETHDrawn) ==
    LET redeemedLUSDFraction == (ETHDrawn * c.price) \div c.total.debt
    IN  min(calcDecayedBaseRate(c) + redeemedLUSDFraction \div BETA, DECIMAL_PRECISION)

checkRecoveryMode(c) == computeCR(c.total.collateral, c.total.debt, c.price) < CCR

userAcceptsFee(fee, amount, maxFeePercentage) ==
    (fee * DECIMAL_PRECISION) \div amount <= maxFeePercentage

validMaxFeePercentage(maxFeePercentage, floor) == maxFeePercentage \in floor..DECIMAL_PRECISION

--------------------------------------------------------------------------------
(***************************************************************************)
(* The transactions.  Each has a condition, for the block it is mined in,  *)
(* and an effect on that block.                                            *)
(***************************************************************************)
borrowingFee(c, amount) ==
    IF checkRecoveryMode(c) \/ amount = 0 THEN 0 ELSE calcBorrowingFee(calcDecayedBaseRate(c), amount)

borrowingAccepted(c, amount, maxFeePercentage) ==
    /\ amount > 0
    /\ validMaxFeePercentage(maxFeePercentage, IF checkRecoveryMode(c) THEN 0 ELSE BORROWING_FEE_FLOOR)
    /\ userAcceptsFee(borrowingFee(c, amount), amount, maxFeePercentage)

afterBorrowing(c, amount) ==
    IF checkRecoveryMode(c) \/ amount = 0 THEN c ELSE decayBaseRateFromBorrowing(c)

ratioOf(t, c) == computeCR(t.collateral, t.debt, c.price)
totalWith(c, newTrove) == trove(c.total.collateral - c.trove.collateral + newTrove.collateral,
                                c.total.debt - c.trove.debt + newTrove.debt)
withTrove(c, newTrove) == [c EXCEPT !.trove = newTrove, !.total = totalWith(c, newTrove)]

openedTrove(c, p) ==
    trove(p.depositCollateral, getCompositeDebt(p.borrowLUSD + borrowingFee(c, p.borrowLUSD)))

openTroveAccepted(c, p, maxFeePercentage) ==
    LET opened == openedTrove(c, p)
    IN  /\ isEmpty(c.trove)
        /\ borrowingAccepted(c, p.borrowLUSD, maxFeePercentage)
        /\ getNetDebt(opened.debt) >= MIN_NET_DEBT
        /\ IF checkRecoveryMode(c) THEN ratioOf(opened, c) >= CCR
           ELSE ratioOf(opened, c) >= MCR /\ ratioOf(totalWith(c, opened), c) >= CCR

adjustedTrove(c, p) ==
    trove(c.trove.collateral + p.depositCollateral - p.withdrawCollateral,
          c.trove.debt + p.borrowLUSD + borrowingFee(c, p.borrowLUSD) - p.repayLUSD)

\* _adjustTrove; the user has the LUSD to repay.
adjustTroveAccepted(c, p, maxFeePercentage) ==
    LET adjusted == adjustedTrove(c, p)
    IN  /\ ~isEmpty(c.trove)
        /\ p.borrowLUSD > 0 => borrowingAccepted(c, p.borrowLUSD, maxFeePercentage)
        /\ p.withdrawCollateral <= c.trove.collateral
        /\ IF checkRecoveryMode(c)
           THEN /\ p.withdrawCollateral = 0
                /\ p.borrowLUSD > 0 => /\ ratioOf(adjusted, c) >= CCR
                                       /\ ratioOf(adjusted, c) >= ratioOf(c.trove, c)
           ELSE /\ ratioOf(adjusted, c) >= MCR
                /\ ratioOf(totalWith(c, adjusted), c) >= CCR
        /\ p.repayLUSD > 0 => getNetDebt(c.trove.debt) - p.repayLUSD >= MIN_NET_DEBT

\* A redemption that draws on the troves of others for the whole amount.
ETHDrawnFor(c, amount) == (amount * DECIMAL_PRECISION) \div c.price

redeemCollateralAccepted(c, amount, maxFeePercentage) ==
    LET ETHDrawn == ETHDrawnFor(c, amount)
        rate == baseRateAfterRedemption(c, ETHDrawn)
    IN  /\ validMaxFeePercentage(maxFeePercentage, REDEMPTION_FEE_FLOOR)
        /\ computeCR(c.total.collateral, c.total.debt, c.price) >= MCR
        /\ amount > 0 /\ ETHDrawn > 0 /\ rate > 0
        /\ c.total.debt - c.trove.debt > amount
        /\ userAcceptsFee(calcRedemptionFee(rate, ETHDrawn), ETHDrawn, maxFeePercentage)

afterRedemption(c, amount) ==
    LET ETHDrawn == ETHDrawnFor(c, amount)
        redeemed == feeOperation(c, baseRateAfterRedemption(c, ETHDrawn))
    IN  [redeemed EXCEPT !.total = trove(c.total.collateral - ETHDrawn, c.total.debt - amount)]
================================================================================
