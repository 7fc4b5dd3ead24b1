----------------------------- MODULE StabilityPool ------------------------------
(***************************************************************************)
(* The accounts of the depositors and front ends of the StabilityPool.     *)
(* No operation touches every deposit: a liquidation only changes the      *)
(* product P and the sums S and G, and what a deposit has become and       *)
(* gained is computed from the snapshots taken when it last changed.  P    *)
(* never returns to its first value: when it becomes small it is scaled up *)
(* (a new scale), when the pool is emptied it starts again (a new epoch).  *)
(*                                                                         *)
(* The amounts a liquidation offsets, the troves of the depositors and     *)
(* their LUSD are the state of the other contracts and enter as inputs.    *)
(***************************************************************************)
EXTENDS LiquityBase, Sequences, FiniteSets, FiniteSetsExt

(***************************************************************************)
(* CommunityIssuance holds the LQTY set aside for depositors and releases  *)
(* it along a curve: after t minutes, a share 1 - ISSUANCE_FACTOR^t of the *)
(* cap.  The time passes in whole minutes.                                 *)
(***************************************************************************)
CONSTANTS
    ISSUANCE_FACTOR,   \* share of the remaining LQTY left after a minute
    LQTYSupplyCap,     \* what the contract starts with
    MaxMinutes         \* bound on the time

ASSUME CommunityIssuanceAssumption ==
    /\ ISSUANCE_FACTOR \in 1..(DECIMAL_PRECISION - 1)
    /\ LQTYSupplyCap \in Nat /\ MaxMinutes \in Nat

\* The curve never rises.  Of the code's factor, 999998681227695000, this was
\* computed for every minute of more than 100 years: decPow rounds to the
\* nearest, so it does not follow from the factor being less than 1.
ASSUME IssuanceCurveAssumption ==
    \A m \in 0..MaxMinutes :
       /\ decPow(ISSUANCE_FACTOR, m) \in 0..DECIMAL_PRECISION
       /\ m < MaxMinutes => decPow(ISSUANCE_FACTOR, m + 1) <= decPow(ISSUANCE_FACTOR, m)

VARIABLES
    minutes,           \* passed since deploymentTime
    totalLQTYIssued,   \* LQTY the StabilityPool was told of
    lqtyBalance        \* LQTY the contract still holds

issuanceVars == <<minutes, totalLQTYIssued, lqtyBalance>>

IssuanceInit == minutes = 0 /\ totalLQTYIssued = 0 /\ lqtyBalance = LQTYSupplyCap

getCumulativeIssuanceFraction == DECIMAL_PRECISION - decPow(ISSUANCE_FACTOR, minutes)

\* What issueLQTY records, and what it returns.
latestTotalLQTYIssued == (LQTYSupplyCap * getCumulativeIssuanceFraction) \div DECIMAL_PRECISION
issuance == latestTotalLQTYIssued - totalLQTYIssued

\* Time passes.
Tick ==
    /\ minutes < MaxMinutes
    /\ minutes' = minutes + 1
    /\ UNCHANGED <<totalLQTYIssued, lqtyBalance>>

--------------------------------------------------------------------------------
CONSTANTS
    Depositors, FrontEnds,
    NoFrontEnd,        \* the zero address
    SCALE_FACTOR,      \* 1e9 in the code
    MaxScale, MaxEpoch, \* bounds on the two counters
    Deposits,          \* amounts of provideToSP
    Withdrawals,       \* amounts of withdrawFromSP
    KickbackRates,     \* rates a front end may register with
    Debts, Collaterals, \* amounts of offset
    Remainders         \* LUSD that an offset may leave in the pool

ASSUME StabilityPoolAssumption ==
    /\ IsFiniteSet(Depositors)
    /\ NoFrontEnd \notin FrontEnds /\ MaxScale \in Nat /\ MaxEpoch \in Nat
    /\ SCALE_FACTOR \in Nat /\ SCALE_FACTOR * SCALE_FACTOR = DECIMAL_PRECISION
    /\ Deposits \subseteq Nat /\ Withdrawals \subseteq Nat
    /\ KickbackRates \subseteq 0..DECIMAL_PRECISION
    /\ Debts \subseteq Nat /\ Collaterals \subseteq Nat /\ Remainders \subseteq Nat

VARIABLES
    deposits,            \* depositor -> [initialValue, frontEndTag]
    depositSnapshots,    \* depositor -> [S, P, G, scale, epoch]
    frontEnds,           \* front end -> [kickbackRate, registered]
    frontEndStakes,      \* tag -> last recorded total of its deposits; the
                         \* untagged deposits are totalled under the zero address
    frontEndSnapshots,   \* tag -> [S, P, G, scale, epoch]
    P, currentScale, currentEpoch,
    epochToScaleToSum,   \* S, <<epoch, scale>> -> sum
    epochToScaleToG,     \* G, <<epoch, scale>> -> sum
    lastError,           \* [LQTY, ETH, LUSDLoss] of the last divisions
    ETH, totalLUSDDeposits,
    worstLossError       \* history: the largest lastError.LUSDLoss so far

sums == <<P, currentScale, currentEpoch, epochToScaleToSum, epochToScaleToG, lastError>>
accounts == <<deposits, depositSnapshots, frontEndStakes, frontEndSnapshots>>
vars == <<accounts, frontEnds, sums, ETH, totalLUSDDeposits, worstLossError, issuanceVars>>

Tags == FrontEnds \cup {NoFrontEnd}
NoSnapshots == [S |-> 0, P |-> 0, G |-> 0, scale |-> 0, epoch |-> 0]

\* One scale beyond the last is read by the gains.
Places == (0..MaxEpoch) \X (0..(MaxScale + 1))

Init ==
    /\ deposits = [d \in Depositors |-> [initialValue |-> 0, frontEndTag |-> NoFrontEnd]]
    /\ depositSnapshots = [d \in Depositors |-> NoSnapshots]
    /\ frontEnds = [f \in FrontEnds |-> [kickbackRate |-> 0, registered |-> FALSE]]
    /\ frontEndStakes = [f \in Tags |-> 0]
    /\ frontEndSnapshots = [f \in Tags |-> NoSnapshots]
    /\ P = DECIMAL_PRECISION /\ currentScale = 0 /\ currentEpoch = 0
    /\ epochToScaleToSum = [p \in Places |-> 0] /\ epochToScaleToG = [p \in Places |-> 0]
    /\ lastError = [LQTY |-> 0, ETH |-> 0, LUSDLoss |-> 0]
    /\ ETH = 0 /\ totalLUSDDeposits = 0 /\ worstLossError = 0
    /\ IssuanceInit

Here == <<currentEpoch, currentScale>>

\* Mutated form: the sum is read at the current epoch and scale.
GainFromSnapshots_Here(initial, snapshots, sumSnapshot, sum) ==
    IF initial = 0 THEN 0
    ELSE ((initial * (sum[Here] - sumSnapshot)) \div snapshots.P) \div DECIMAL_PRECISION

\* The gain of a stake from a sum, S or G: the part earned in the scale of
\* its snapshot and the part earned in the next one.
GainFromSnapshots(initial, snapshots, sumSnapshot, sum) ==
    LET firstPortion == sum[<<snapshots.epoch, snapshots.scale>>] - sumSnapshot
        secondPortion == sum[<<snapshots.epoch, snapshots.scale + 1>>] \div SCALE_FACTOR
    IN  IF initial = 0 THEN 0
        ELSE ((initial * (firstPortion + secondPortion)) \div snapshots.P) \div DECIMAL_PRECISION

getDepositorETHGain(d) ==
    GainFromSnapshots(deposits[d].initialValue, depositSnapshots[d], depositSnapshots[d].S,
                      epochToScaleToSum)

\* G after the sum has been brought up to date; the kickback rate splits the
\* gain between the depositor and the front end.
getDepositorLQTYGain(d, G) ==
    LET tag == deposits[d].frontEndTag
        kickbackRate == IF tag = NoFrontEnd THEN DECIMAL_PRECISION ELSE frontEnds[tag].kickbackRate
    IN  (kickbackRate * GainFromSnapshots(deposits[d].initialValue, depositSnapshots[d],
                                          depositSnapshots[d].G, G)) \div DECIMAL_PRECISION

getFrontEndLQTYGain(f, G) ==
    IF f = NoFrontEnd THEN 0
    ELSE ((DECIMAL_PRECISION - frontEnds[f].kickbackRate)
            * GainFromSnapshots(frontEndStakes[f], frontEndSnapshots[f], frontEndSnapshots[f].G, G))
         \div DECIMAL_PRECISION

\* Mutated form: a change of the scale is forgotten.
CompoundedStakeFromSnapshots_Unscaled(initial, snapshots) ==
    IF initial = 0 \/ snapshots.epoch < currentEpoch THEN 0
    ELSE (initial * P) \div snapshots.P

\* What a stake is worth after the offsets since its snapshots.
CompoundedStakeFromSnapshots(initial, snapshots) ==
    LET scaleDiff == currentScale - snapshots.scale
        compounded == CASE scaleDiff = 0 -> (initial * P) \div snapshots.P
                        [] scaleDiff = 1 -> ((initial * P) \div snapshots.P) \div SCALE_FACTOR
                        [] OTHER -> 0
    IN  IF \/ initial = 0
           \/ snapshots.epoch < currentEpoch
           \/ compounded < initial \div SCALE_FACTOR
        THEN 0 ELSE compounded

getCompoundedLUSDDeposit(d) ==
    CompoundedStakeFromSnapshots(deposits[d].initialValue, depositSnapshots[d])

getCompoundedFrontEndStake(f) ==
    CompoundedStakeFromSnapshots(frontEndStakes[f], frontEndSnapshots[f])

\* G and the error of its division after the LQTY issued so far is shared
\* between the deposits.  What is issued while there is none is lost to them.
updateG ==
    LET LQTYNumerator == issuance * DECIMAL_PRECISION + lastError.LQTY
        LQTYPerUnitStaked == LQTYNumerator \div totalLUSDDeposits
    IN  IF totalLUSDDeposits = 0 \/ issuance = 0
        THEN [G |-> epochToScaleToG, error |-> lastError.LQTY]
        ELSE [G |-> [epochToScaleToG EXCEPT ![Here] = @ + LQTYPerUnitStaked * P],
              error |-> LQTYNumerator - LQTYPerUnitStaked * totalLUSDDeposits]

SnapshotsNow(value, S, G) ==
    IF value = 0 THEN NoSnapshots
    ELSE [S |-> S, P |-> P, G |-> G[Here], scale |-> currentScale, epoch |-> currentEpoch]

--------------------------------------------------------------------------------
(***************************************************************************)
(* The three operations of a depositor: LQTY is issued and paid out, the   *)
(* ETH gain leaves the pool, and deposit and stake of the tag are brought  *)
(* up to date and changed by the same amount.                              *)
(***************************************************************************)
ChangeDeposit(d, tag, change) ==
    LET newDeposit == getCompoundedLUSDDeposit(d) + change
        newFrontEndStake == getCompoundedFrontEndStake(tag) + change
        update == updateG
        paid == getFrontEndLQTYGain(tag, update.G) + getDepositorLQTYGain(d, update.G)
    IN  /\ getCompoundedLUSDDeposit(d) <= deposits[d].initialValue
        /\ newFrontEndStake >= 0
        /\ issuance >= 0 /\ lqtyBalance >= paid /\ ETH >= getDepositorETHGain(d)
        /\ totalLUSDDeposits + change >= 0
        /\ totalLQTYIssued' = latestTotalLQTYIssued
        /\ lqtyBalance' = lqtyBalance - paid
        /\ epochToScaleToG' = update.G
        /\ lastError' = [lastError EXCEPT !.LQTY = update.error]
        /\ deposits' = [deposits EXCEPT ![d] =
                           [initialValue |-> newDeposit,
                            frontEndTag |-> IF newDeposit = 0 THEN NoFrontEnd ELSE tag]]
        /\ depositSnapshots' = [depositSnapshots EXCEPT ![d] =
                                   SnapshotsNow(newDeposit, epochToScaleToSum[Here], update.G)]
        /\ frontEndStakes' = [frontEndStakes EXCEPT ![tag] = newFrontEndStake]
        /\ frontEndSnapshots' = [frontEndSnapshots EXCEPT ![tag] =
                                    SnapshotsNow(newFrontEndStake, 0, update.G)]
        /\ totalLUSDDeposits' = totalLUSDDeposits + change
        /\ ETH' = ETH - getDepositorETHGain(d)
        /\ UNCHANGED <<frontEnds, P, currentScale, currentEpoch, epochToScaleToSum, worstLossError,
                       minutes>>

\* A first deposit chooses the tag, a later one keeps it.
provideToSP(d, amount, frontEndTag) ==
    /\ frontEndTag # NoFrontEnd => frontEnds[frontEndTag].registered
    /\ d \in FrontEnds => ~frontEnds[d].registered
    /\ amount > 0
    /\ ChangeDeposit(d, IF deposits[d].initialValue = 0 THEN frontEndTag
                        ELSE deposits[d].frontEndTag, amount)

\* Refused for an amount other than 0 while a trove could be liquidated, which
\* depends on the price: the moments when it is not are those modelled.
withdrawFromSP(d, amount) ==
    /\ deposits[d].initialValue > 0
    /\ ChangeDeposit(d, deposits[d].frontEndTag, -min(amount, getCompoundedLUSDDeposit(d)))

\* The depositor has a trove; the gain goes there by moveETHGainToTrove.
withdrawETHGainToTrove(d) ==
    /\ deposits[d].initialValue > 0
    /\ getDepositorETHGain(d) > 0
    /\ ChangeDeposit(d, deposits[d].frontEndTag, 0)

registerFrontEnd(f, kickbackRate) ==
    /\ ~frontEnds[f].registered
    /\ f \in Depositors => deposits[f].initialValue = 0
    /\ frontEnds' = [frontEnds EXCEPT ![f] = [kickbackRate |-> kickbackRate, registered |-> TRUE]]
    /\ UNCHANGED <<accounts, sums, ETH, totalLUSDDeposits, worstLossError, issuanceVars>>

--------------------------------------------------------------------------------
(***************************************************************************)
(* A liquidation cancels debt against the pool and brings collateral.      *)
(***************************************************************************)

\* The loss is rounded up and corrected by the excess of the last time, the
\* gain rounded down and corrected by what was left over.
computeRewardsPerUnitStaked(collToAdd, debtToOffset) ==
    LET ETHNumerator == collToAdd * DECIMAL_PRECISION + lastError.ETH
        ETHGain == ETHNumerator \div totalLUSDDeposits
        LossNumerator == debtToOffset * DECIMAL_PRECISION - lastError.LUSDLoss
        emptied == debtToOffset = totalLUSDDeposits
        LUSDLoss == IF emptied THEN DECIMAL_PRECISION
                    ELSE (LossNumerator \div totalLUSDDeposits) + 1
    IN  [ETHGain |-> ETHGain, LUSDLoss |-> LUSDLoss,
         ETHError |-> ETHNumerator - ETHGain * totalLUSDDeposits,
         LUSDLossError |-> IF emptied THEN 0 ELSE LUSDLoss * totalLUSDDeposits - LossNumerator]

\* The new product and whether epoch or scale move on.
newProduct(LUSDLossPerUnitStaked) ==
    LET factor == DECIMAL_PRECISION - LUSDLossPerUnitStaked
        plain == (P * factor) \div DECIMAL_PRECISION
    IN  CASE factor = 0 -> [P |-> DECIMAL_PRECISION, epoch |-> currentEpoch + 1, scale |-> 0]
          [] factor # 0 /\ plain < SCALE_FACTOR ->
                [P |-> (P * factor * SCALE_FACTOR) \div DECIMAL_PRECISION,
                 epoch |-> currentEpoch, scale |-> currentScale + 1]
          [] OTHER -> [P |-> plain, epoch |-> currentEpoch, scale |-> currentScale]

offset(debtToOffset, collToAdd) ==
    LET update == updateG
        rewards == computeRewardsPerUnitStaked(collToAdd, debtToOffset)
        product == newProduct(rewards.LUSDLoss)
    IN  /\ issuance >= 0 /\ totalLUSDDeposits > 0 /\ debtToOffset > 0
        /\ debtToOffset <= totalLUSDDeposits
        /\ debtToOffset < totalLUSDDeposits => debtToOffset * DECIMAL_PRECISION >= lastError.LUSDLoss
        /\ product.P > 0
        /\ product.epoch <= MaxEpoch /\ product.scale <= MaxScale
        /\ totalLQTYIssued' = latestTotalLQTYIssued
        /\ epochToScaleToG' = update.G
        /\ lastError' = [LQTY |-> update.error, ETH |-> rewards.ETHError,
                         LUSDLoss |-> rewards.LUSDLossError]
        /\ epochToScaleToSum' = [epochToScaleToSum EXCEPT ![Here] = @ + rewards.ETHGain * P]
        /\ P' = product.P /\ currentEpoch' = product.epoch /\ currentScale' = product.scale
        /\ totalLUSDDeposits' = totalLUSDDeposits - debtToOffset
        /\ ETH' = ETH + collToAdd
        /\ worstLossError' = Max({worstLossError, rewards.LUSDLossError})
        /\ UNCHANGED <<accounts, frontEnds, minutes, lqtyBalance>>

DepositorAction ==
    \E d \in Depositors :
       \/ \E amount \in Deposits, tag \in Tags : provideToSP(d, amount, tag)
       \/ \E amount \in Withdrawals : withdrawFromSP(d, amount)
       \/ withdrawETHGainToTrove(d)

Liquidation ==
    \E coll \in Collaterals,
       debt \in Debts \cup {totalLUSDDeposits - left : left \in Remainders} : offset(debt, coll)

Time == Tick /\ UNCHANGED <<accounts, frontEnds, sums, ETH, totalLUSDDeposits, worstLossError>>

Registration == \E f \in FrontEnds, rate \in KickbackRates : registerFrontEnd(f, rate)

Next == DepositorAction \/ Liquidation \/ Time \/ Registration

Spec == Init /\ [][Next]_vars

--------------------------------------------------------------------------------
totalWorth ==
    LET worth == [d \in Depositors |-> getCompoundedLUSDDeposit(d)]
    IN  MapThenSumSet(LAMBDA d : worth[d], Depositors)

\* The LUSD of the pool covers what all deposits have become, but for the
\* correction of rounding errors: it lets the deposits exceed the pool (although
\* the comments say that the error favours the pool), yet however P was rounded
\* and rescaled since, never by more than the largest correction there was, a
\* share of 1 / DECIMAL_PRECISION of the pool of that time.
ExcessBounded ==
    totalWorth * DECIMAL_PRECISION <= totalLUSDDeposits * DECIMAL_PRECISION + worstLossError

\* Nobody else's step takes from a depositor: a step that leaves the deposit
\* as recorded lowers neither its ETH nor its LQTY gain, and never raises
\* what the deposit is worth.
NothingTaken ==
    \A d \in Depositors :
       deposits'[d] = deposits[d] /\ depositSnapshots'[d] = depositSnapshots[d] =>
          /\ getDepositorETHGain(d)' >= getDepositorETHGain(d)
          /\ getDepositorLQTYGain(d, updateG.G)' >= getDepositorLQTYGain(d, updateG.G)
          /\ getCompoundedLUSDDeposit(d)' <= getCompoundedLUSDDeposit(d)
OthersNeverTake == [][NothingTaken]_vars
================================================================================
