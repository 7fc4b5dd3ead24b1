-------------------------------- MODULE LibBase ---------------------------------
(***************************************************************************)
(* The client's arithmetic of lib-base: Decimal, Trove and Fees.  A        *)
(* Decimal is the integer it holds; DECIMAL_PRECISION stands for 1.  A     *)
(* parameter that is undefined in the code is 0 here: an operation that    *)
(* distinguishes the two never sees a defined 0.                           *)
(***************************************************************************)
EXTENDS LiquityBase

CONSTANTS
    LUSD_LIQUIDATION_RESERVE,   \* constants.ts, beside the contracts' own
    LUSD_MINIMUM_NET_DEBT

ASSUME LibBaseAssumption ==
    LUSD_LIQUIDATION_RESERVE \in Nat /\ LUSD_MINIMUM_NET_DEBT \in Nat

LUSD_MINIMUM_DEBT == LUSD_LIQUIDATION_RESERVE + LUSD_MINIMUM_NET_DEBT
ONE == DECIMAL_PRECISION
INFINITY == UintMax

mul(a, b) == (a * b) \div ONE
div(a, b) == IF b = 0 THEN INFINITY ELSE (a * ONE) \div b
divCeil(a, b) == IF b = 0 THEN INFINITY ELSE (a * ONE + b - 1) \div b
mulDiv(a, b, c) == IF c = 0 THEN INFINITY ELSE (a * b) \div c
roundedMul(a, b) == (a * b + ONE \div 2) \div ONE

powLoop[x \in Nat, y \in Nat, exponent \in Nat] ==
    IF exponent <= 1 THEN roundedMul(x, y)
    ELSE powLoop[roundedMul(x, x), IF exponent % 2 = 1 THEN roundedMul(x, y) ELSE y, exponent \div 2]

pow(x, exponent) ==
    IF exponent = 0 THEN ONE ELSE IF exponent = 1 THEN x ELSE powLoop[x, ONE, exponent]

\* Difference.between, as a sign and an absolute value; the sign "N/A" is for
\* two infinite values.
between(d1, d2) ==
    CASE d1 = INFINITY /\ d2 = INFINITY -> [sign |-> "N/A", absoluteValue |-> 0]
      [] d1 = INFINITY /\ d2 # INFINITY -> [sign |-> "+", absoluteValue |-> d1]
      [] d2 = INFINITY /\ d1 # INFINITY -> [sign |-> "-", absoluteValue |-> d2]
      [] OTHER -> [sign |-> IF d1 > d2 THEN "+" ELSE IF d2 > d1 THEN "-" ELSE "",
                   absoluteValue |-> IF d1 > d2 THEN d1 - d2 ELSE d2 - d1]

--------------------------------------------------------------------------------
(***************************************************************************)
(* Fees.  The base rate decays by the minute since the last fee operation. *)
(***************************************************************************)
feesBaseRate(baseRateWithoutDecay, minuteDecayFactor, minutes) ==
    mul(pow(minuteDecayFactor, minutes), baseRateWithoutDecay)

feesBorrowingRate(rate, recoveryMode) ==
    IF recoveryMode THEN 0 ELSE min(BORROWING_FEE_FLOOR + rate, MAX_BORROWING_FEE)

feesRedemptionRate(rate, redeemedFractionOfSupply) ==
    min(REDEMPTION_FEE_FLOOR + rate + div(redeemedFractionOfSupply, BETA * ONE), ONE)

--------------------------------------------------------------------------------
(***************************************************************************)
(* Troves and the changes between them.                                    *)
(***************************************************************************)
trove(collateral, debt) == [collateral |-> collateral, debt |-> debt]
emptyTrove == trove(0, 0)

isEmpty(t) == t.collateral = 0 /\ t.debt = 0
netDebtOf(t) == t.debt - LUSD_LIQUIDATION_RESERVE   \* not for less debt than that
collateralRatio(t, at) == mulDiv(t.collateral, at, t.debt)
collateralRatioIsBelowMinimum(t, at) == collateralRatio(t, at) < MCR
collateralRatioIsBelowCritical(t, at) == collateralRatio(t, at) < CCR
isOpenableInRecoveryMode(t, at) == collateralRatio(t, at) >= CCR

atLeastZero(n) == IF n > 0 THEN n ELSE 0
add(t, u) == trove(t.collateral + u.collateral, t.debt + u.debt)
subtract(t, u) == trove(atLeastZero(t.collateral - u.collateral), atLeastZero(t.debt - u.debt))
multiply(t, factor) == trove(mul(t.collateral, factor), mul(t.debt, factor))

\* The trove with the collateral and debt redistributed to it since its last
\* change.
applyRedistribution(t, stake, snapshot, totalRedistributed) ==
    add(t, multiply(subtract(totalRedistributed, snapshot), stake))

applyFee(borrowingRate, debtIncrease) == mul(debtIncrease, ONE + borrowingRate)
unapplyFee(borrowingRate, debtIncrease) == divCeil(debtIncrease, ONE + borrowingRate)

NoParams == [depositCollateral |-> 0, withdrawCollateral |-> 0, borrowLUSD |-> 0, repayLUSD |-> 0]
change(type, params, setToZero) == [type |-> type, params |-> params, setToZero |-> setToZero]

\* Parameters that _normalizeTroveAdjustment accepts.
adjustmentAllowed(params) ==
    /\ params.depositCollateral = 0 \/ params.withdrawCollateral = 0
    /\ params.borrowLUSD = 0 \/ params.repayLUSD = 0
    /\ params # NoParams

\* _debtChange and _collateralChange together: a part that is equal is 0.
adjustmentParams(t, that, borrowingRate) ==
    [depositCollateral |-> atLeastZero(that.collateral - t.collateral),
     withdrawCollateral |-> atLeastZero(t.collateral - that.collateral),
     borrowLUSD |-> IF that.debt > t.debt THEN unapplyFee(borrowingRate, that.debt - t.debt) ELSE 0,
     repayLUSD |-> atLeastZero(t.debt - that.debt)]

whatChanged(t, that, borrowingRate) ==
    CASE t = that -> change("none", NoParams, "")
      [] t # that /\ isEmpty(t) /\ that.debt < LUSD_LIQUIDATION_RESERVE ->
            change("invalidCreation", [NoParams EXCEPT !.depositCollateral = that.collateral], "")
      [] t # that /\ isEmpty(t) /\ that.debt >= LUSD_LIQUIDATION_RESERVE ->
            change("creation", [NoParams EXCEPT !.depositCollateral = that.collateral,
                                  !.borrowLUSD = unapplyFee(borrowingRate, netDebtOf(that))], "")
      [] t # that /\ isEmpty(that) ->
            change("closure", [NoParams EXCEPT !.withdrawCollateral = t.collateral,
                                               !.repayLUSD = netDebtOf(t)], "")
      [] OTHER ->
            change("adjustment", adjustmentParams(t, that, borrowingRate),
                   CASE that.debt = 0 /\ t.debt # 0 -> "debt"
                     [] that.debt # 0 /\ that.collateral = 0 /\ t.collateral # 0 -> "collateral"
                     [] OTHER -> "")

\* Mutated form: the fee is left out.
applyAdjustment_NoFee(t, c, borrowingRate) ==
    LET p == c.params
    IN  subtract(add(t, trove(p.depositCollateral, p.borrowLUSD)),
                 trove(p.withdrawCollateral, p.repayLUSD))

\* What a change makes of a trove: a creation is applied to the empty trove,
\* the others to one that is not.
applyAdjustment(t, c, borrowingRate) ==
    LET p == c.params
        debtIncrease == applyFee(borrowingRate, p.borrowLUSD)
    IN  CASE c.setToZero = "collateral" ->
                trove(0, atLeastZero(t.debt + debtIncrease - p.repayLUSD))
          [] c.setToZero = "debt" ->
                trove(atLeastZero(t.collateral + p.depositCollateral - p.withdrawCollateral), 0)
          [] OTHER -> subtract(add(t, trove(p.depositCollateral, debtIncrease)),
                               trove(p.withdrawCollateral, p.repayLUSD))

applyChange(t, c, borrowingRate) ==
    CASE c.type = "none" -> t
      [] c.type = "creation" ->
            trove(c.params.depositCollateral,
                  LUSD_LIQUIDATION_RESERVE + applyFee(borrowingRate, c.params.borrowLUSD))
      [] c.type = "closure" -> emptyTrove
      [] c.type = "adjustment" -> applyAdjustment(t, c, borrowingRate)

\* Trove.create and adjust: the outcome of openTrove and adjustTrove.
createTrove(params, borrowingRate) == applyChange(emptyTrove, change("creation", params, ""), borrowingRate)
adjust(t, params, borrowingRate) == applyChange(t, change("adjustment", params, ""), borrowingRate)
================================================================================
