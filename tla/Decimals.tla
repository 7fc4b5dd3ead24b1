-------------------------------- MODULE Decimals --------------------------------
(***************************************************************************)
(* How Decimal of lib-base reads and shows numbers.  A Decimal is a whole  *)
(* number of units of 10^-PRECISION.  A written number is                  *)
(*   [characteristic, mantissa, exponent]                                  *)
(* where the mantissa, the digits after the point, is [value, length]      *)
(* (050 is [value |-> 50, length |-> 3]); commas between thousands are     *)
(* left out.                                                               *)
(***************************************************************************)
EXTENDS Integers, FiniteSetsExt

CONSTANTS
    PRECISION,   \* digits after the point, 18
    Infinity,    \* Decimal.INFINITY, the largest uint256
    Amounts,     \* Decimals that are shown, as units
    Mantissas    \* mantissas that are typed

ASSUME DecimalsAssumption ==
    PRECISION \in Nat \ {0} /\ Infinity \in Nat /\ Amounts \subseteq 0..Infinity

VARIABLES
    shown,   \* the Decimal on display, if any (a set)
    typed    \* the number that a user typed or JavaScript wrote, if any

decimalVars == <<shown, typed>>

getDigits(numDigits) == 10 ^ numDigits
DIGITS == getDigits(PRECISION)
NoMantissa == [value |-> 0, length |-> 0]
written(characteristic, mantissa) ==
    [characteristic |-> characteristic, mantissa |-> mantissa, exponent |-> 0]

\* Zeros are appended to a short mantissa, and a long one is cut.
padOrCut(mantissa) ==
    IF mantissa.length < PRECISION THEN mantissa.value * getDigits(PRECISION - mantissa.length)
    ELSE mantissa.value \div getDigits(mantissa.length - PRECISION)

_fromString(representation) ==
    LET coefficient == representation.characteristic * DIGITS + padOrCut(representation.mantissa)
        exponent == representation.exponent
    IN  IF exponent < 0 THEN coefficient \div getDigits(-exponent) ELSE coefficient * getDigits(exponent)

\* The mantissa without its trailing zeros.
_toStringWithAutomaticPrecision(x) ==
    LET mantissa == x % DIGITS
        zeros == Max({k \in 0..PRECISION : mantissa % getDigits(k) = 0})
    IN  written(x \div DIGITS,
                IF mantissa = 0 THEN NoMantissa
                ELSE [value |-> mantissa \div getDigits(zeros), length |-> PRECISION - zeros])

\* Mutated form: the digits that are not shown are cut off.
_roundUp_Cut(x, precision) == x
_roundUp(x, precision) == x + getDigits(PRECISION - 1 - precision) * 5

_toStringWithPrecision(x, precision) ==
    LET value == IF precision < PRECISION THEN _roundUp(x, precision) ELSE x
        length == Min({precision, PRECISION})
    IN  written(value \div DIGITS,
                [value |-> (value % DIGITS) \div getDigits(PRECISION - length), length |-> length])

\* At least one digit.
digitsOf(n) == Min({k \in 1..9 : n < getDigits(k)})

\* K, M, B and T: the magnitude counts thousands.
shorten(x) ==
    LET characteristicLength == digitsOf(_toStringWithPrecision(x, 0).characteristic)
        magnitude == Min({(characteristicLength - 1) \div 3, 4})
        precision == Max({3 * (magnitude + 1) - characteristicLength, 0})
        normalized == x \div getDigits(3 * magnitude)
    IN  [number |-> _toStringWithPrecision(normalized, precision), magnitude |-> magnitude, precision |-> precision]

isInfinite(x) == x = Infinity

\* Percent of a ratio; nonZeroish compares with 0.0...05.
percent(ratio) == IF isInfinite(ratio) THEN ratio ELSE ratio * 100
nonZeroish(ratio, precision) ==
    percent(ratio) >= _fromString(written(0, [value |-> 5, length |-> precision + 1]))
prettifyPercent(ratio) ==
    LET shownWith(precision) == _toStringWithPrecision(percent(ratio), precision)
    IN  IF percent(ratio) >= 1000 * DIGITS THEN shownWith(0)
        ELSE IF percent(ratio) >= 10 * DIGITS THEN shownWith(1) ELSE shownWith(2)

\* Numbers as they are typed, and as JavaScript writes very small and large ones.
DecimalsInit ==
    \/ shown = {} /\ typed = {}
    \/ (\E amount \in Amounts : shown = {amount}) /\ typed = {}
    \/ /\ shown = {}
       /\ \E number \in [characteristic : {0, 1, 12}, mantissa : Mantissas, exponent : -3..1] : typed = {number}

--------------------------------------------------------------------------------
\* value is what is left of exact / scale when it is rounded half up.
nearest(value, exact, scale) == 2 * exact - scale < 2 * value * scale /\ 2 * value * scale <= 2 * exact + scale

inUnits(mantissaLength, s) == s.characteristic * getDigits(mantissaLength) + s.mantissa.value

displayed(amount) ==
    /\ _fromString(_toStringWithAutomaticPrecision(amount)) = amount
    /\ \A p \in 0..PRECISION + 1 :
          LET length == Min({p, PRECISION})
          IN  nearest(inUnits(length, _toStringWithPrecision(amount, p)), amount, getDigits(PRECISION - length))
    /\ LET s == shorten(amount)
       IN  nearest(inUnits(s.precision, s.number), amount, getDigits(PRECISION - s.precision + 3 * s.magnitude))

displayedAsPercent(ratio) ==
    /\ \A p \in 0..PRECISION - 1 :
          nonZeroish(ratio, p) <=> inUnits(p, _toStringWithPrecision(percent(ratio), p)) # 0
    /\ LET s == prettifyPercent(ratio)
       IN  nearest(inUnits(s.mantissa.length, s), percent(ratio), getDigits(PRECISION - s.mantissa.length))

readAsTyped(number) ==
    LET m == number.mantissa
        significant == inUnits(m.length, number)
        shift == PRECISION + number.exponent - m.length
    IN  _fromString(number) = IF shift >= 0 THEN significant * getDigits(shift)
                              ELSE significant \div getDigits(-shift)

\* What is shown is the number, rounded half up at the last digit shown, however
\* many thousands it is shortened by, and without a precision it is read back as
\* the same Decimal.  A percentage is called zero exactly when it is shown as
\* zero.  What is typed is read with as many digits as a Decimal has, the rest
\* cut off (but before a positive exponent is applied).
DisplayFaithful ==
    /\ \A amount \in shown : ~isInfinite(amount) => displayed(amount)
    /\ \A ratio \in shown : ratio < Infinity \div 200 => displayedAsPercent(ratio)
    /\ \A number \in typed :
          number.mantissa.length <= PRECISION \/ number.exponent <= 0 => readAsTyped(number)
================================================================================
