------------------------------ MODULE TroveEditing ------------------------------
(***************************************************************************)
(* The forms of the frontend that open, adjust and close a trove, over the *)
(* protocol whose state they show: what the user edits is validated on the *)
(* client, turned into the parameters of a transaction, and predicted.     *)
(* The state shown here is fetched from the latest block.  The collateral  *)
(* the user could deposit is not limited.                                  *)
(***************************************************************************)
EXTENDS Liquity, LibBase

\* What the store shows of the chain: totals, and a trove with the
\* redistributions it has not received yet.
shownTotal == trove(getEntireSystemColl, getEntireSystemDebt)
shownTrove(b) ==
    applyRedistribution(trove(Troves[b].coll, Troves[b].debt), Troves[b].stake,
        trove(rewardSnapshots[b].ETH, rewardSnapshots[b].LUSDDebt), trove(L.ETH, L.LUSDDebt))
recoveryMode == collateralRatioIsBelowCritical(shownTotal, price)

(***************************************************************************)
(* validateTroveChange and its three parts: whether the change from the    *)
(* original to the edited trove may be sent.                               *)
(***************************************************************************)
wouldTriggerRecoveryMode(original, resulting) ==
    collateralRatioIsBelowCritical(add(subtract(shownTotal, original), resulting), price)

validateTroveCreation(params, original, resulting) ==
    /\ params.borrowLUSD >= LUSD_MINIMUM_NET_DEBT
    /\ recoveryMode => isOpenableInRecoveryMode(resulting, price)
    /\ ~recoveryMode => /\ ~collateralRatioIsBelowMinimum(resulting, price)
                        /\ ~wouldTriggerRecoveryMode(original, resulting)

validateTroveAdjustment(params, original, resulting) ==
    /\ recoveryMode =>
         /\ params.withdrawCollateral = 0
         /\ params.borrowLUSD > 0 =>
              /\ ~collateralRatioIsBelowCritical(resulting, price)
              /\ collateralRatio(resulting, price) >= collateralRatio(original, price)
    /\ ~recoveryMode => /\ ~collateralRatioIsBelowMinimum(resulting, price)
                        /\ ~wouldTriggerRecoveryMode(original, resulting)
    /\ params.repayLUSD > 0 =>
         resulting.debt >= LUSD_MINIMUM_DEBT /\ params.repayLUSD <= lusd.users

validateTroveClosure(params, original, resulting) ==
    /\ Len(TroveOwners) # 1
    /\ ~recoveryMode
    /\ params.repayLUSD <= lusd.users
    /\ ~wouldTriggerRecoveryMode(original, resulting)

validateTroveChange(original, edited, borrowingRate) ==
    LET c == whatChanged(original, edited, borrowingRate)
        resulting == applyChange(original, c, borrowingRate)
    IN  CASE c.type = "creation" -> validateTroveCreation(c.params, original, resulting)
          [] c.type = "closure" -> validateTroveClosure(c.params, original, resulting)
          [] c.type = "adjustment" -> validateTroveAdjustment(c.params, original, resulting)
          [] OTHER -> FALSE

(***************************************************************************)
(* The forms.  A form holds the amounts the user typed; the trove it would *)
(* lead to is validated and, when valid, the change from the original is   *)
(* what the Confirm button sends.                                          *)
(***************************************************************************)
Opening(collateral, borrowAmount, borrowingRate) ==
    trove(collateral, borrowAmount + LUSD_LIQUIDATION_RESERVE + mul(borrowAmount, borrowingRate))

feeFrom(original, edited, borrowingRate) ==
    mul(whatChanged(original, edited, borrowingRate).params.borrowLUSD, borrowingRate)

\* The fee is that of a loan which includes its fee.
Adjusting(original, collateral, netDebt, borrowingRate) ==
    LET increase == atLeastZero(netDebt - netDebtOf(original))
        fee == IF increase > 0
               THEN feeFrom(original, trove(original.collateral, original.debt + increase), borrowingRate)
               ELSE 0
        dirty == collateral # original.collateral \/ netDebt # netDebtOf(original)
    IN  IF dirty THEN trove(collateral, netDebt + LUSD_LIQUIDATION_RESERVE + fee) ELSE original

\* The parameters of the transaction that useOpenTrove and useAdjustTrove send.
sent(original, edited, borrowingRate) == whatChanged(original, edited, borrowingRate).params

--------------------------------------------------------------------------------
(***************************************************************************)
(* Properties.                                                             *)
(***************************************************************************)

\* The amounts that take the trove of b, with the rewards due to it, to where
\* a transaction took it.
amountsOfStep(b) ==
    LET collChange == Troves'[b].coll - entireColl(b)
        LUSDChange == lusd'.users - lusd.users
    IN  [depositCollateral |-> atLeastZero(collChange), withdrawCollateral |-> atLeastZero(-collChange),
         borrowLUSD |-> atLeastZero(LUSDChange), repayLUSD |-> atLeastZero(-LUSDChange)]

\* The client predicts the outcome of an adjustment to the last digit: from the
\* trove before redistributions, the stake, the snapshot, L and the decayed base
\* rate it computes the very trove that _adjustTrove stores, the fee and the
\* rewards included, although it multiplies and rounds in its own order (hints
\* and the validation rest on it).  Left out is a trove whose pending debt
\* hasPendingRewards does not notice.
AdjustmentPredicted ==
    [][\A b \in Borrowers :
         /\ idle /\ idle'
         /\ Troves[b].coll # Troves'[b].coll \/ Troves[b].debt # Troves'[b].debt
         /\ isActive(b) /\ Troves'[b].status = "active"
         /\ appliedRewards(b) = pendingRewards(b)
         => trove(Troves'[b].coll, Troves'[b].debt)
              = adjust(shownTrove(b), amountsOfStep(b), feesBorrowingRate(baseRate', recoveryMode))]_vars

\* What the forms consider valid, in the very state they were shown, the
\* contract accepts: validateTroveChange reapplies the change "to get the exact
\* state the Trove will end up in" and compares that with the limits of the
\* contract.
ValidatedChangeAccepted ==
    idle => \A b \in Borrowers, rate \in borrowingRates :
       LET r == feesBorrowingRate(rate, recoveryMode)
       IN  /\ ~isActive(b) =>
                \A collateral \in Collaterals, loan \in Loans :
                   LET edited == Opening(collateral, loan, r)
                       p == sent(emptyTrove, edited, r)
                   IN  validateTroveChange(emptyTrove, edited, r) =>
                         openTroveAllowed(b, p.depositCollateral, p.borrowLUSD, rate)
           /\ isActive(b) =>
                \A collChange \in CollChanges, debtChange \in DebtChanges :
                   LET original == shownTrove(b)
                       edited == Adjusting(original, original.collateral + collChange,
                                           netDebtOf(original) + debtChange, r)
                       p == sent(original, edited, r)
                   IN  original.collateral + collChange >= 0 /\ netDebtOf(original) + debtChange >= 0
                         /\ validateTroveChange(original, edited, r) =>
                         adjustTroveAllowed(b, p.depositCollateral - p.withdrawCollateral,
                                            p.borrowLUSD - p.repayLUSD, rate)
================================================================================
