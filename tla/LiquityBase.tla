------------------------------ MODULE LiquityBase -------------------------------
(***************************************************************************)
(* The system constants and the arithmetic that TroveManager,              *)
(* BorrowerOperations and StabilityPool share (LiquityBase.sol and         *)
(* LiquityMath.sol).  Ratios and prices are fixed-point numbers: the       *)
(* integer DECIMAL_PRECISION stands for 1 (or 100%), and every division    *)
(* rounds down.                                                            *)
(***************************************************************************)
EXTENDS Integers

CONSTANTS
    DECIMAL_PRECISION,       \* 1e18 in the code
    LUSD_GAS_COMPENSATION,   \* LUSD set aside for the liquidator of a trove
    MIN_NET_DEBT,            \* smallest debt of a trove, without the above
    UintMax                  \* 2^256 - 1, the ratio of a trove without debt

\* Percentages of half a percent are whole numbers.
ASSUME LiquityBaseAssumption ==
    /\ DECIMAL_PRECISION \in Nat \ {0} /\ DECIMAL_PRECISION % 200 = 0
    /\ LUSD_GAS_COMPENSATION \in Nat \ {0}
    /\ MIN_NET_DEBT \in Nat \ {0}
    /\ UintMax \in Nat /\ UintMax > 2 * DECIMAL_PRECISION

NICR_PRECISION == 100 * DECIMAL_PRECISION
MCR == (DECIMAL_PRECISION \div 10) * 11
CCR == (DECIMAL_PRECISION \div 2) * 3
PERCENT_DIVISOR == 200
BORROWING_FEE_FLOOR == DECIMAL_PRECISION \div 200
REDEMPTION_FEE_FLOOR == DECIMAL_PRECISION \div 200
MAX_BORROWING_FEE == DECIMAL_PRECISION \div 20
BETA == 2

min(a, b) == IF a < b THEN a ELSE b

\* The product of two decimals, rounded to the nearest.
decMul(x, y) == (x * y + DECIMAL_PRECISION \div 2) \div DECIMAL_PRECISION

\* Exponentiation by squaring: x, y and n are the variables of the loop.  The
\* cap of 1000 years on the exponent is out of the models' reach.
decPowLoop[x \in Nat, y \in Nat, n \in Nat] ==
    IF n <= 1 THEN decMul(x, y)
    ELSE decPowLoop[decMul(x, x), IF n % 2 = 0 THEN y ELSE decMul(x, y), n \div 2]

decPow(base, minutes) ==
    IF minutes = 0 THEN DECIMAL_PRECISION ELSE decPowLoop[base, DECIMAL_PRECISION, minutes]

computeNominalCR(coll, debt) ==
    IF debt > 0 THEN (coll * NICR_PRECISION) \div debt ELSE UintMax

computeCR(coll, debt, price) ==
    IF debt > 0 THEN (coll * price) \div debt ELSE UintMax

getCompositeDebt(debt) == debt + LUSD_GAS_COMPENSATION
getNetDebt_Composite(debt) == debt
getNetDebt(debt) == debt - LUSD_GAS_COMPENSATION
getCollGasCompensation(entireColl) == entireColl \div PERCENT_DIVISOR

calcBorrowingFee(baseRate, amount) ==
    (min(BORROWING_FEE_FLOOR + baseRate, MAX_BORROWING_FEE) * amount) \div DECIMAL_PRECISION

calcRedemptionFee(baseRate, drawn) ==
    (min(REDEMPTION_FEE_FLOOR + baseRate, DECIMAL_PRECISION) * drawn) \div DECIMAL_PRECISION
================================================================================
