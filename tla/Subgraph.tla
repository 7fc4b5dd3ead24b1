-------------------------------- MODULE Subgraph --------------------------------
(***************************************************************************)
(* packages/subgraph: the entities that The Graph computes from the events *)
(* of the contracts.  A transaction of Liquity emits events; log collects  *)
(* those of the one in progress, and a transaction that is undone takes    *)
(* its events with it.  When a transaction ends, its handlers run in the   *)
(* order of the events: they read nothing but the events and the entities, *)
(* so it makes no difference how much later that happens.                  *)
(*                                                                         *)
(* Liquity has one account for all LUSD of the users, and so the           *)
(* depositors are one account here, with one StabilityDeposit.  Sequence   *)
(* numbers are left out, but for what the last change was about.           *)
(***************************************************************************)
EXTENDS Liquity

CONSTANT NoValue   \* null

VARIABLES
    initialDeposit,   \* the deposit as of the depositor's last operation
    log,              \* events of the transaction in progress
    index             \* the entities: Global, SystemState, Trove, ...

NoTrove == [status |-> "none", collateral |-> 0, debt |-> 0, stake |-> 0, snapshot |-> NoAmounts,
            sortKey |-> NoValue]

EmptyIndex ==
    [troves |-> [b \in Borrowers |-> NoTrove],
     numberOf |-> [open |-> 0, closedByOwner |-> 0, closedByLiquidation |-> 0,
                   closedByRedemption |-> 0],
     totalNumberOfTroves |-> 0,
     redistributed |-> NoAmounts,
     system |-> [price |-> NoValue, totalCollateral |-> 0, totalDebt |-> 0,
                 tokensInStabilityPool |-> 0, collSurplusPoolBalance |-> 0],
     collSurplus |-> [b \in Borrowers |-> 0],
     depositedAmount |-> 0,
     lastChange |-> NoValue,
     temporary |-> [liquidation |-> FALSE, redemption |-> FALSE, depositUpdate |-> NoValue],
     failed |-> FALSE]

(***************************************************************************)
(* SystemState.ts.                                                         *)
(***************************************************************************)
isBorrowerOperation(op) == op \in {"openTrove", "closeTrove", "adjustTrove"}
isLiquidation(op) == op \in {"liquidateInNormalMode", "liquidateInRecoveryMode"}
isRedemption(op) == op = "redeemCollateral"

\* On the first price there is no PriceChange.
updatePrice(ix, newPrice) ==
    LET known == ix.system.price # NoValue /\ ix.system.price # newPrice
    IN  [ix EXCEPT !.system.price = newPrice,
                   !.lastChange = IF known THEN "price" ELSE ix.lastChange]

tryToOffset_AllOrNothing(system, coll, debt) ==
    IF debt > system.tokensInStabilityPool THEN system
    ELSE [system EXCEPT !.totalCollateral = @ - coll, !.totalDebt = @ - debt,
                        !.tokensInStabilityPool = @ - debt]
\* tryToOffsetWithTokensFromStabilityPool.
tryToOffset(system, coll, debt) ==
    LET offset == min(debt, system.tokensInStabilityPool)
    IN  IF offset = 0 THEN system
        ELSE [system EXCEPT !.totalCollateral = @ - (coll * offset) \div debt,
                            !.totalDebt = @ - offset,
                            !.tokensInStabilityPool = @ - offset]

updateSystemStateByTroveChange(system, op, before, coll, debt) ==
    LET gas == getCollGasCompensation(before.collateral)
        paid == [system EXCEPT !.totalCollateral = @ - gas]
        ratioBefore == computeCR(before.collateral, before.debt, system.price)
    IN  IF isBorrowerOperation(op) \/ isRedemption(op)
        THEN [system EXCEPT !.totalCollateral = @ + coll - before.collateral,
                            !.totalDebt = @ + debt - before.debt]
        ELSE IF ~isLiquidation(op) THEN system
        ELSE IF op = "liquidateInRecoveryMode" /\ ratioBefore <= DECIMAL_PRECISION THEN paid
        ELSE tryToOffset(paid, before.collateral - gas, before.debt)

(***************************************************************************)
(* Trove.ts and Global.ts.                                                 *)
(***************************************************************************)

\* getTrove: a trove seen for the first time is counted as open.
counted(ix, b) ==
    IF ix.troves[b].status # "none" THEN ix
    ELSE [ix EXCEPT !.numberOf.open = @ + 1, !.totalNumberOfTroves = @ + 1]

setTroveStatus_NotReopened(numberOf, before, after) ==
    IF after = before \/ after = "open" THEN numberOf
    ELSE [numberOf EXCEPT ![after] = @ + 1, !.open = @ - 1]
setTroveStatus(numberOf, before, after) ==
    IF after = before THEN numberOf
    ELSE IF after = "open" THEN [numberOf EXCEPT ![before] = @ - 1, !.open = @ + 1]
    ELSE [numberOf EXCEPT ![after] = @ + 1, !.open = @ - 1]

statusAfter(op, coll) ==
    IF coll # 0 THEN "open"
    ELSE IF isLiquidation(op) THEN "closedByLiquidation"
    ELSE IF isRedemption(op) THEN "closedByRedemption"
    ELSE "closedByOwner"

\* An event that changes neither amount is ignored.
updateTrove(ix, op, b, coll, debt, stake) ==
    LET seen == counted(ix, b)
        before == ix.troves[b]
        statusBefore == IF before.status = "none" THEN "open" ELSE before.status
        status == statusAfter(op, coll)
    IN  IF coll = before.collateral /\ debt = before.debt THEN seen
        ELSE [seen EXCEPT
                !.failed = @ \/ seen.system.price = NoValue,
                !.system = updateSystemStateByTroveChange(seen.system, op, before, coll, debt),
                !.temporary.liquidation = @ \/ isLiquidation(op),
                !.temporary.redemption = @ \/ isRedemption(op),
                !.lastChange = b,
                !.numberOf = setTroveStatus(seen.numberOf, statusBefore, status),
                !.troves[b] =
                   [status |-> status, collateral |-> coll, debt |-> debt, stake |-> stake,
                    snapshot |-> IF stake # 0 THEN seen.redistributed ELSE NoAmounts,
                    sortKey |-> IF stake = 0 THEN NoValue
                                ELSE (debt * DECIMAL_PRECISION) \div stake
                                       - seen.redistributed.LUSDDebt]]

\* What the trove gained from redistributions since its snapshot.
redistributedTo(ix, b) ==
    LET trove == ix.troves[b]
        gain(total, snapshot) == ((total - snapshot) * trove.stake) \div DECIMAL_PRECISION
    IN  [ETH |-> gain(ix.redistributed.ETH, trove.snapshot.ETH),
         LUSDDebt |-> gain(ix.redistributed.LUSDDebt, trove.snapshot.LUSDDebt)]

applyRedistributionToTroveBeforeLiquidation(ix, b) ==
    updateTrove(ix, "accrueRewards", b,
                ix.troves[b].collateral + redistributedTo(ix, b).ETH,
                ix.troves[b].debt + redistributedTo(ix, b).LUSDDebt, 0)

\* The fee belongs to the last change, which must be a TroveChange.
setBorrowingFeeOfLastTroveChange(ix) ==
    [ix EXCEPT !.failed = @ \/ ix.lastChange \notin Borrowers]

(***************************************************************************)
(* StabilityDeposit.ts and the mapping of StabilityPool.  The two events   *)
(* of a deposit operation come in either order; the first leaves a value   *)
(* for the second.                                                         *)
(***************************************************************************)
swapTmpDepositUpdate(ix, valueToSetIfNull) ==
    [ix EXCEPT !.temporary.depositUpdate = IF @ = NoValue THEN valueToSetIfNull ELSE NoValue]

\* A loss was taken out of the pool when the liquidation was indexed.
updateSystemStateByStabilityDepositChange(system, operation, change) ==
    IF operation \in {"depositTokens", "withdrawTokens"}
    THEN [system EXCEPT !.tokensInStabilityPool = @ + change] ELSE system

updateStabilityDepositByOperation(ix, operation, newDepositedAmount) ==
    [ix EXCEPT !.depositedAmount = newDepositedAmount, !.lastChange = "deposit",
               !.system = updateSystemStateByStabilityDepositChange(
                             @, operation, newDepositedAmount - ix.depositedAmount)]

updateStabilityDeposit(ix, amount) ==
    IF amount = ix.depositedAmount THEN ix
    ELSE updateStabilityDepositByOperation(
            ix, IF amount > ix.depositedAmount THEN "depositTokens" ELSE "withdrawTokens", amount)

withdrawCollateralGain(ix, ETH, LUSDLoss) ==
    IF ETH = 0 /\ LUSDLoss = 0 THEN ix
    ELSE updateStabilityDepositByOperation(ix, "withdrawCollateralGain", ix.depositedAmount - LUSDLoss)

handleUserDepositChanged(ix, newDeposit) ==
    LET swapped == swapTmpDepositUpdate(ix, newDeposit)
    IN  IF ix.temporary.depositUpdate = NoValue THEN swapped
        ELSE updateStabilityDeposit(swapped, newDeposit)

handleETHGainWithdrawn(ix, ETH, LUSDLoss) ==
    LET update == ix.temporary.depositUpdate
        withdrawn == withdrawCollateralGain(swapTmpDepositUpdate(ix, 0), ETH, LUSDLoss)
    IN  IF update = NoValue THEN withdrawn ELSE updateStabilityDeposit(withdrawn, update)

\* User.ts: the surplus a borrower can claim.
updateUserClaimColl(ix, b, collSurplus) ==
    IF collSurplus = ix.collSurplus[b] THEN ix
    ELSE [ix EXCEPT !.collSurplus[b] = collSurplus, !.lastChange = "surplus",
                    !.system.collSurplusPoolBalance = @ + collSurplus - ix.collSurplus[b]]

\* Liquidation.ts and Redemption.ts.
finishCurrentLiquidation(ix) == [ix EXCEPT !.temporary.liquidation = FALSE]
finishCurrentRedemption(ix) == [ix EXCEPT !.temporary.redemption = FALSE]

(***************************************************************************)
(* The mappings: which handler runs for which event.  The manifest names   *)
(* the events of each contract that are handled; those of LQTYStaking are  *)
(* in module LQTY, those of tokens and front ends are not modelled.        *)
(***************************************************************************)
eventHandlers ==
    [TroveManager |-> {"TroveUpdated", "TroveLiquidated", "Liquidation", "Redemption", "LTermsUpdated"},
     BorrowerOperations |-> {"TroveUpdated", "LUSDBorrowingFeePaid"},
     PriceFeed |-> {"LastGoodPriceUpdated"},
     StabilityPool |-> {"UserDepositChanged", "ETHGainWithdrawn"},
     CollSurplusPool |-> {"CollBalanceUpdated"}]
handled(e) == e.event \in eventHandlers[e.contract]

handle(ix, e) ==
    CASE e.event = "LastGoodPriceUpdated" -> updatePrice(ix, e.price)
      [] e.event = "TroveUpdated" -> updateTrove(ix, e.op, e.borrower, e.coll, e.debt, e.stake)
      [] e.event = "LUSDBorrowingFeePaid" -> setBorrowingFeeOfLastTroveChange(ix)
      [] e.event = "TroveLiquidated" -> applyRedistributionToTroveBeforeLiquidation(ix, e.borrower)
      [] e.event = "LTermsUpdated" -> [ix EXCEPT !.redistributed = e.L]
      [] e.event = "Liquidation" -> finishCurrentLiquidation(ix)
      [] e.event = "Redemption" -> finishCurrentRedemption(ix)
      [] e.event = "UserDepositChanged" -> handleUserDepositChanged(ix, e.newDeposit)
      [] e.event = "ETHGainWithdrawn" -> handleETHGainWithdrawn(ix, e.ETH, e.LUSDLoss)
      [] e.event = "CollBalanceUpdated" -> updateUserClaimColl(ix, e.account, e.newBalance)

(***************************************************************************)
(* The events of the contracts, as a step of Liquity emits them.           *)
(***************************************************************************)
LastGoodPriceUpdated == <<[contract |-> "PriceFeed", event |-> "LastGoodPriceUpdated", price |-> price]>>

TroveUpdated(b, coll, debt, stake, op) ==
    <<[contract |-> IF isBorrowerOperation(op) THEN "BorrowerOperations" ELSE "TroveManager",
       event |-> "TroveUpdated", borrower |-> b, coll |-> coll, debt |-> debt, stake |-> stake,
       op |-> op]>>
TroveNow(b, op) == TroveUpdated(b, Troves'[b].coll, Troves'[b].debt, Troves'[b].stake, op)

\* _applyPendingRewards.
RewardsApplied(b) ==
    IF ~hasPendingRewards(b) THEN <<>>
    ELSE TroveUpdated(b, Troves[b].coll + pendingRewards(b).ETH,
                      Troves[b].debt + pendingRewards(b).LUSDDebt, Troves[b].stake, "accrueRewards")

LUSDBorrowingFeePaid == <<[contract |-> "BorrowerOperations", event |-> "LUSDBorrowingFeePaid"]>>

CollBalanceUpdated(b) ==
    <<[contract |-> "CollSurplusPool", event |-> "CollBalanceUpdated", account |-> b, newBalance |-> collSurplusPool'.balances[b]]>>

UserDepositChanged(newDeposit) == <<[contract |-> "StabilityPool", event |-> "UserDepositChanged", newDeposit |-> newDeposit]>>
ETHGainWithdrawn ==
    <<[contract |-> "StabilityPool", event |-> "ETHGainWithdrawn", ETH |-> stabilityPool.ETH - stabilityPool'.ETH,
       LUSDLoss |-> initialDeposit - stabilityPool.totalLUSDDeposits]>>

\* A trove is liquidated in the mode the loop is in.
TroveLiquidated(b) ==
    (IF collSurplusPool'.balances[b] = collSurplusPool.balances[b] THEN <<>>
     ELSE CollBalanceUpdated(b))
    \o <<[contract |-> "TroveManager", event |-> "TroveLiquidated", borrower |-> b]>>
    \o TroveUpdated(b, 0, 0, 0, IF liquidation.backToNormalMode THEN "liquidateInNormalMode"
                                ELSE "liquidateInRecoveryMode")

closedInThisStep == {b \in Borrowers : isActive(b) /\ Troves'[b].status # "active"}

LiquidationEvents ==
    IF idle'
    THEN (IF L' = L THEN <<>> ELSE <<[contract |-> "TroveManager", event |-> "LTermsUpdated", L |-> L']>>)
         \o <<[contract |-> "TroveManager", event |-> "Liquidation"]>>
    ELSE IF closedInThisStep = {} THEN <<>>
    ELSE TroveLiquidated(CHOOSE b \in closedInThisStep : TRUE)

RedemptionEvents ==
    LET b == redemption.user
    IN  IF idle' THEN <<[contract |-> "TroveManager", event |-> "Redemption"]>>
        ELSE RewardsApplied(b)
             \o (IF b \in closedInThisStep
                 THEN CollBalanceUpdated(b) \o TroveUpdated(b, 0, 0, 0, "redeemCollateral")
                 ELSE IF redemption'.phase = "finish" THEN <<>>
                 ELSE TroveNow(b, "redeemCollateral"))

--------------------------------------------------------------------------------
svars == <<vars, initialDeposit, log, index>>

indexed(events) == FoldLeft(handle, index, SelectSeq(events, handled))

\* The transaction ends with these events, and the handlers run.
Emit(events) ==
    /\ index' = indexed(log \o events)
    /\ log' = <<>>

\* The transaction goes on.
EmitAndGoOn(events) ==
    /\ log' = log \o events
    /\ UNCHANGED index

Undone == log' = <<>> /\ UNCHANGED index

IndexedBorrowerAction ==
    \E b \in Borrowers :
       \/ /\ \E value \in Collaterals, loan \in Loans : openTrove(b, value, loan)
          /\ Emit(LastGoodPriceUpdated \o TroveNow(b, "openTrove") \o LUSDBorrowingFeePaid)
          /\ UNCHANGED initialDeposit
       \/ /\ \E collChange \in CollChanges, debtChange \in DebtChanges :
                adjustTrove(b, collChange, debtChange)
          /\ Emit(LastGoodPriceUpdated \o RewardsApplied(b) \o TroveNow(b, "adjustTrove")
                    \o LUSDBorrowingFeePaid)
          /\ UNCHANGED initialDeposit
       \/ /\ \E gain \in ETHGains : withdrawETHGainToTrove(b, gain)
          /\ Emit(ETHGainWithdrawn \o UserDepositChanged(stabilityPool.totalLUSDDeposits)
                    \o LastGoodPriceUpdated \o RewardsApplied(b) \o TroveNow(b, "adjustTrove")
                    \o LUSDBorrowingFeePaid)
          /\ initialDeposit' = stabilityPool.totalLUSDDeposits
       \/ /\ closeTrove(b)
          /\ Emit(LastGoodPriceUpdated \o RewardsApplied(b)
                    \o TroveUpdated(b, 0, 0, 0, "closeTrove"))
          /\ UNCHANGED initialDeposit
       \/ /\ claimCollateral(b)
          /\ Emit(CollBalanceUpdated(b))
          /\ UNCHANGED initialDeposit

IndexedDepositorAction ==
    /\ DepositorAction
    /\ Emit((IF stabilityPool'.totalLUSDDeposits < stabilityPool.totalLUSDDeposits
             THEN LastGoodPriceUpdated ELSE <<>>)
            \o UserDepositChanged(stabilityPool'.totalLUSDDeposits) \o ETHGainWithdrawn)
    /\ initialDeposit' = stabilityPool'.totalLUSDDeposits

\* Liquidations and redemptions fetch the price first.
IndexedStart ==
    /\ LiquidatorAction \/ RedeemerAction
    /\ EmitAndGoOn(LastGoodPriceUpdated)
    /\ UNCHANGED initialDeposit

IndexedStep ==
    /\ \/ /\ LiquidateTrovesStep \/ BatchLiquidateStep
          /\ EmitAndGoOn(LiquidationEvents)
       \/ FinishLiquidation /\ Emit(LiquidationEvents)
       \/ RedeemStep /\ EmitAndGoOn(RedemptionEvents)
       \/ FinishRedemption /\ Emit(RedemptionEvents)
       \/ /\ LiquidationFails \/ RedeemStepFails \/ RedemptionFails
          /\ Undone
    /\ UNCHANGED initialDeposit

\* LUSD transfers and the oracle's price concern none of these entities.
UnindexedAction ==
    /\ TransferAction \/ PriceAction
    /\ UNCHANGED <<initialDeposit, log, index>>

SInit == Init /\ initialDeposit = 0 /\ log = <<>> /\ index = EmptyIndex

STransaction ==
    \/ IndexedBorrowerAction \/ IndexedDepositorAction \/ IndexedStart \/ UnindexedAction
SNext == STransaction \/ IndexedStep

SSpec == SInit /\ [][SNext]_svars

--------------------------------------------------------------------------------
(***************************************************************************)
(* Properties.                                                             *)
(***************************************************************************)

\* The SystemState that the handlers build up from differences is the state of
\* the contracts after every transaction: collateral, debt, the tokens in the
\* StabilityPool and the surplus, through liquidations that are offset,
\* redistributed or both, in either mode.  And no handler fails on the way: a
\* price is known before the first trove, the change that a borrowing fee is
\* added to is the TroveChange of the same operation, and the temporary fields
\* of Global are null between transactions ("Only used internally as temporary
\* storage. Will always be null in queries").
IndexMatchesSystem ==
    /\ idle => /\ index.system.totalCollateral = getEntireSystemColl
               /\ index.system.totalDebt = getEntireSystemDebt
               /\ index.system.tokensInStabilityPool = stabilityPool.totalLUSDDeposits
               /\ index.depositedAmount = initialDeposit
               /\ index.system.collSurplusPoolBalance = collSurplusPool.ETH
    /\ ~index.failed
    /\ index.temporary = EmptyIndex.temporary
================================================================================
