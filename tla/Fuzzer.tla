--------------------------------- MODULE Fuzzer ---------------------------------
(***************************************************************************)
(* The repository's own fuzzer (packages/fuzzer): random users of the      *)
(* protocol through the client library, a funder who gives them LUSD, and  *)
(* for every transaction an expectation of whether the contract accepts    *)
(* it.  The draws of Math.random and benford are the elements of small     *)
(* sets; the fuzzer's price is the price it set last.                      *)
(***************************************************************************)
EXTENDS TroveEditing

CONSTANTS
    Draws,      \* values of Math.random, as parts of one
    Benford,    \* values of benford
    FunderNeeds \* amounts asked of the funder beyond her balance

ASSUME FuzzerAssumption == Draws \subseteq 0..ONE /\ Benford \subseteq Nat /\ FunderNeeds \subseteq Nat

\* createRandomTrove: some collateral and less debt than it is worth, or some
\* debt and one to three times its worth of collateral.
createRandomTrove ==
    UNION {{trove(collateral, LUSD_LIQUIDATION_RESERVE + mul(price, collateral) - n) :
              n \in {n \in Benford : n <= mul(price, collateral)}} : collateral \in Collaterals}
      \cup {LET debt == LUSD_LIQUIDATION_RESERVE + loan
            IN  trove((div(debt, price) * (100 + n)) \div 100, debt) : loan \in Loans, n \in Benford}

randomCollateralChange(t) ==
    UNION {{[NoParams EXCEPT !.withdrawCollateral = mul(t.collateral, (11 * x) \div 10)],
            [NoParams EXCEPT !.depositCollateral = mul(t.collateral, x \div 2)]} : x \in Draws}
randomDebtChange(t) ==
    UNION {{[NoParams EXCEPT !.repayLUSD = mul(t.debt, (11 * x) \div 10)],
            [NoParams EXCEPT !.borrowLUSD = mul(t.debt, x \div 2)]} : x \in Draws}
randomAdjustment(t) ==
    randomCollateralChange(t) \cup randomDebtChange(t)
      \cup {[k \in DOMAIN NoParams |-> c[k] + d[k]] :
              c \in randomCollateralChange(t), d \in randomDebtChange(t)}

--------------------------------------------------------------------------------
(***************************************************************************)
(* What the fuzzer expects to fail.                                        *)
(***************************************************************************)
nominalCollateralRatio(t) == mulDiv(t.collateral, 100 * ONE, t.debt)

\* Mutated form: every trove must suit recovery mode.
cannotOpen_Recovery(t) ==
    t.debt < LUSD_MINIMUM_DEBT \/ ~isOpenableInRecoveryMode(t, price)
cannotOpen(t) ==
    \/ t.debt < LUSD_MINIMUM_DEBT
    \/ IF recoveryMode THEN ~isOpenableInRecoveryMode(t, price)
       ELSE \/ collateralRatioIsBelowMinimum(t, price)
            \/ collateralRatioIsBelowCritical(add(shownTotal, t), price)

cannotAdjust(t, params, rate) ==
    LET adjusted == adjust(t, params, rate)
    IN  \/ params.withdrawCollateral >= t.collateral
        \/ params.repayLUSD > t.debt - LUSD_MINIMUM_DEBT
        \/ /\ params.withdrawCollateral > 0 \/ params.borrowLUSD > 0
           /\ \/ collateralRatioIsBelowMinimum(adjusted, price)
              \/ IF recoveryMode THEN nominalCollateralRatio(adjusted) < nominalCollateralRatio(t)
                 ELSE collateralRatioIsBelowCritical(subtract(add(shownTotal, adjusted), t), price)

cannotWithdraw(amount) == amount > 0 /\ collateralRatioIsBelowMinimum(shownTrove(getLast), price)

\* closeTrove and redeemRandomAmount skip what the contract would reject.
skipsClosing == collateralRatioIsBelowCritical(shownTotal, price)
skipsRedemption == collateralRatioIsBelowMinimum(shownTotal, price)

\* Trove.recreate: the parameters that open the trove.
recreate(t, rate) == whatChanged(emptyTrove, t, rate).params

--------------------------------------------------------------------------------
(***************************************************************************)
(* sendLUSDFromFunder: a funder whose balance is short by need borrows     *)
(* twice that on a trove she adjusts to a ratio of 151%, or by more        *)
(* collateral when the system would fall below the critical ratio.         *)
(***************************************************************************)
targetRatio == (151 * ONE) \div 100
justAbove(ratio) == ratio + 1

funderTrove(t, need) ==
    LET target == IF ~recoveryMode THEN targetRatio
                  ELSE LET above == justAbove(collateralRatio(t, price))
                       IN  IF above > (111 * ONE) \div 100 THEN above ELSE (111 * ONE) \div 100
        borrowed == adjust(t, [NoParams EXCEPT !.borrowLUSD = 2 * need], BORROWING_FEE_FLOOR).debt
        debt == IF borrowed < LUSD_MINIMUM_DEBT THEN LUSD_MINIMUM_DEBT ELSE borrowed
        alone == trove(mulDiv(debt, target, price), debt)
        newTotal == subtract(add(shownTotal, alone), t)
    IN  IF ~recoveryMode /\ collateralRatioIsBelowCritical(newTotal, price)
        THEN subtract(add(t, trove(mulDiv(newTotal.debt, targetRatio, price), newTotal.debt)), shownTotal)
        ELSE alone

--------------------------------------------------------------------------------
(***************************************************************************)
(* Properties.                                                             *)
(***************************************************************************)
adjusts(b, params, rate) ==
    adjustTroveAllowed(b, params.depositCollateral - params.withdrawCollateral,
                       params.borrowLUSD - params.repayLUSD, rate)

\* What the fuzzer computes to be impossible from the client's own arithmetic
\* (fees, reserve, totals and pending redistributions included), or skips for
\* that reason, the contract rejects.  The converse does not hold.  Left out is
\* a loss of the nominal ratio in recovery mode that is too small to show in the
\* ratio at the price, which the contract compares.
ExpectedFailuresFail ==
    idle => /\ \A amount \in Deposits :
                 sortedTroves # <<>> /\ cannotWithdraw(amount) => ~ENABLED withdrawFromSP(amount, 0)
            /\ skipsClosing => \A b \in Borrowers : ~ENABLED closeTrove(b)
            /\ skipsRedemption => \A amount \in Redemptions : ~ENABLED redeemCollateral(amount, 0)
            /\ \A b \in Borrowers, rate \in borrowingRates :
                 LET r == feesBorrowingRate(rate, recoveryMode)
                     t == shownTrove(b)
                 IN  IF isActive(b)
                     THEN \A p \in randomAdjustment(t) :
                            /\ cannotAdjust(t, p, r)
                            /\ recoveryMode =>
                                 collateralRatio(adjust(t, p, r), price) # collateralRatio(t, price)
                            => ~adjusts(b, p, rate)
                     ELSE \A new \in createRandomTrove :
                            LET p == recreate(new, r)
                            IN  cannotOpen(new) =>
                                  ~openTroveAllowed(b, p.depositCollateral, p.borrowLUSD, rate)

\* The funder's own adjustment goes through, wherever liquidations, redemptions
\* and prices have left her trove and the system: the ratio she computes for the
\* system is the one the contract checks.  Left out is a system at the critical
\* ratio that the rounding of the fee takes below it.
FundingAccepted ==
    idle /\ ~recoveryMode => \A b \in Borrowers, rate \in borrowingRates :
      isActive(b) => \A need \in FunderNeeds :
        LET t == shownTrove(b)
            new == funderTrove(t, need)
            p == adjustmentParams(t, new, feesBorrowingRate(rate, FALSE))
            newTotal == subtract(add(shownTotal, new), t)
            rounded == add(newTotal, trove(0, 1))
        IN  collateralRatioIsBelowCritical(newTotal, price)
              = collateralRatioIsBelowCritical(rounded, price) => adjusts(b, p, rate)

\* The client's arithmetic and the contracts' checks agree where the fuzzer
\* relies on it: expectFailure never meets an unexpected success, and outside
\* recovery mode sendLUSDFromFunder gets its LUSD.
FuzzerExpectations == ExpectedFailuresFail /\ FundingAccepted
================================================================================
