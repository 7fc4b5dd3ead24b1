----------------------------- MODULE LiquityProofs ------------------------------
(***************************************************************************)
(* The types, the backing of the LUSD supply, the mode of the system and   *)
(* the last trove, for all borrowers, amounts, prices and sequences of     *)
(* transactions.                                                           *)
(***************************************************************************)
EXTENDS Liquity, TLAPS

(***************************************************************************)
(* Arithmetic.                                                             *)
(***************************************************************************)

\* Products, quotients and remainders of the code's unsigned integers.
LEMMA MulNat == ASSUME NEW x \in Nat, NEW y \in Nat PROVE x * y \in Nat
BY SMT

\* A quotient of naturals is a natural.
LEMMA DivNat == ASSUME NEW x \in Nat, NEW y \in Nat \ {0} PROVE x \div y \in Nat
BY SMT

\* So is a remainder.
LEMMA ModNat == ASSUME NEW x \in Nat, NEW y \in Nat \ {0} PROVE x % y \in Nat
BY SMT

\* Multiplication keeps the order.
LEMMA MulMono == ASSUME NEW x \in Nat, NEW y \in Nat, NEW z \in Nat, x <= y PROVE x * z <= y * z
BY SMT

\* A quotient is at most what times the divisor bounds the dividend.
LEMMA DivBound ==
    ASSUME NEW x \in Nat, NEW y \in Nat, NEW z \in Nat \ {0}, x <= y * z PROVE x \div z <= y
BY SMT

\* A quotient times its divisor is at most the dividend.
LEMMA DivLower ==
    ASSUME NEW x \in Nat, NEW y \in Nat \ {0}, NEW z \in Nat, x \div y >= z PROVE z * y <= x
BY SMT

\* A fraction of an amount is at most the amount.
LEMMA Fraction ==
    ASSUME NEW amount \in Nat, NEW x \in Nat, NEW y \in Nat \ {0}, x <= y
    PROVE  (amount * x) \div y \in 0..amount
<1>1. amount * x \in Nat /\ amount * y \in Nat
  BY MulNat
<1>2. x * amount <= y * amount
  BY MulMono
<1>3. amount * x <= amount * y
  BY <1>2, SMT
<1>. QED
  BY <1>1, <1>3, DivBound, DivNat

\* A trove with at least the ratio m has the collateral that m requires.
LEMMA CappedCollateral ==
    ASSUME NEW coll \in Nat, NEW debt \in Nat \ {0}, NEW p \in Nat \ {0}, NEW m \in Nat,
           (coll * p) \div debt >= m
    PROVE  (debt * m) \div p \in 0..coll
<1>1. coll * p \in Nat /\ debt * m \in Nat
  BY MulNat
<1>2. m * debt <= coll * p
  BY <1>1, DivLower
<1>3. debt * m <= coll * p
  BY <1>2, SMT
<1>. QED
  BY <1>1, <1>3, DivBound, DivNat

\* The system constants are naturals, and no ratio below the MCR is UintMax.
LEMMA ConstantTypes ==
    /\ DECIMAL_PRECISION \in Nat \ {0} /\ LUSD_GAS_COMPENSATION \in Nat
    /\ MCR \in Nat /\ CCR \in Nat /\ MCR < UintMax
    /\ BORROWING_FEE_FLOOR \in Nat /\ MAX_BORROWING_FEE \in Nat /\ REDEMPTION_FEE_FLOOR \in Nat
BY LiquityBaseAssumption
DEF MCR, CCR, BORROWING_FEE_FLOOR, MAX_BORROWING_FEE, REDEMPTION_FEE_FLOOR

--------------------------------------------------------------------------------
(***************************************************************************)
(* The inductive invariant.                                                *)
(***************************************************************************)
TroveType ==
    /\ Troves \in [Borrowers -> Trove]
    /\ TroveOwners \in Seq(Borrowers) /\ sortedTroves \in Seq(Borrowers)
    /\ rewardSnapshots \in [Borrowers -> Amounts]
    /\ totalStakes \in Nat

SystemType ==
    /\ systemSnapshot \in [stakes : Nat, coll : Nat]
    /\ L \in Amounts /\ lastError \in Amounts /\ baseRate \in 0..DECIMAL_PRECISION
    /\ price \in Prices

LUSDBalances ==
    [totalSupply : Nat, users : Nat, gasPool : Nat, stabilityPool : Nat, lqtyStaking : Nat]

PoolType ==
    /\ activePool \in Amounts /\ defaultPool \in Amounts
    /\ collSurplusPool \in [ETH : Nat, balances : [Borrowers -> Nat]]
    /\ stabilityPool \in [ETH : Nat, totalLUSDDeposits : Nat]
    /\ lusd \in LUSDBalances

LoopType == liquidation \in Liquidation /\ redemption \in Redemption

\* A snapshot is never ahead of the rewards per unit staked.
SnapshotsBehind ==
    \A b \in Borrowers :
       rewardSnapshots[b].ETH <= L.ETH /\ rewardSnapshots[b].LUSDDebt <= L.LUSDDebt

\* At most one transaction is in progress; a redemption starts with debt.
InProgress ==
    /\ liquidation.phase = "idle" \/ redemption.phase = "idle"
    /\ redemption.phase # "idle" => redemption.LUSDSupplyAtStart > 0

\* What a failing transaction returns to satisfies the invariant too.
SavedType ==
    /\ saved[1].Troves \in [Borrowers -> Trove]
    /\ saved[1].TroveOwners \in Seq(Borrowers) /\ saved[1].sortedTroves \in Seq(Borrowers)
    /\ saved[1].rewardSnapshots \in [Borrowers -> Amounts]
    /\ saved[1].totalStakes \in Nat
    /\ saved[1].activePool \in Amounts /\ saved[1].defaultPool \in Amounts
    /\ saved[1].collSurplusPool \in [ETH : Nat, balances : [Borrowers -> Nat]]
    /\ saved[1].lusd \in LUSDBalances

SavedBacked ==
    /\ saved[1].lusd.totalSupply = saved[1].activePool.LUSDDebt + saved[1].defaultPool.LUSDDebt
    /\ saved[1].lusd.totalSupply = saved[1].lusd.users + saved[1].lusd.gasPool
                                     + saved[1].lusd.stabilityPool + saved[1].lusd.lqtyStaking
    /\ saved[1].lusd.stabilityPool = stabilityPool.totalLUSDDeposits

SavedBehind ==
    \A b \in Borrowers :
       /\ saved[1].rewardSnapshots[b].ETH <= L.ETH
       /\ saved[1].rewardSnapshots[b].LUSDDebt <= L.LUSDDebt

SavedOK ==
    ~idle => /\ SavedType
             /\ SavedBacked
             /\ SavedBehind
             /\ Len(saved[1].TroveOwners) >= Len(TroveOwners)

IInv ==
    /\ TroveType /\ SystemType /\ PoolType /\ LoopType
    /\ SnapshotsBehind /\ SupplyBacked /\ InProgress /\ SavedOK

\* The contracts start in the invariant.
LEMMA InvInit == Init => IInv
BY TroveManagerAssumption, LiquityBaseAssumption, ConstantTypes
DEF Init, IInv, TroveType, SystemType, PoolType, LoopType, LUSDBalances, Amounts, NoAmounts, Trove,
    Status, Liquidation, NoLiquidation, LiquidationValues, NoValues, Redemption, NoRedemption,
    SnapshotsBehind, SupplyBacked, getEntireSystemDebt, InProgress, SavedOK, idle

--------------------------------------------------------------------------------
(***************************************************************************)
(* What the operators return.                                              *)
(***************************************************************************)
LEMMA PendingRewardsType ==
    ASSUME TroveType, SystemType, SnapshotsBehind, NEW b \in Borrowers
    PROVE  pendingRewards(b) \in Amounts /\ appliedRewards(b) \in Amounts
<1>1. Troves[b].stake \in Nat
  BY DEF TroveType, Trove
<1>2. /\ L.ETH - rewardSnapshots[b].ETH \in Nat
      /\ L.LUSDDebt - rewardSnapshots[b].LUSDDebt \in Nat
  BY DEF TroveType, SystemType, SnapshotsBehind, Amounts
<1>3. /\ Troves[b].stake * (L.ETH - rewardSnapshots[b].ETH) \in Nat
      /\ Troves[b].stake * (L.LUSDDebt - rewardSnapshots[b].LUSDDebt) \in Nat
  BY <1>1, <1>2, MulNat
<1>4. pendingRewards(b) \in Amounts
  BY <1>3, DivNat, ConstantTypes DEF pendingRewards, Amounts, NoAmounts
<1>. QED
  BY <1>4 DEF appliedRewards, Amounts, NoAmounts

\* Applying the rewards of a trove takes its snapshot no further than L.
LEMMA AppliedSnapshotsType ==
    ASSUME TroveType, SystemType, SnapshotsBehind, NEW b \in Borrowers,
           rewardSnapshots' = appliedSnapshots(b), L' = L
    PROVE  rewardSnapshots' \in [Borrowers -> Amounts] /\ SnapshotsBehind'
BY DEF appliedSnapshots, TroveType, SystemType, SnapshotsBehind, Amounts

\* _computeNewStake returns a natural when its assertion holds.
LEMMA StakeType ==
    ASSUME SystemType, NEW coll \in Nat, stakeComputable
    PROVE  computeNewStake(coll) \in Nat
<1>1. systemSnapshot.stakes \in Nat /\ systemSnapshot.coll \in Nat
  BY DEF SystemType
<1>2. coll * systemSnapshot.stakes \in Nat
  BY <1>1, MulNat
<1>. QED
  BY <1>1, <1>2, DivNat DEF computeNewStake

\* Adding to a pool, and subtracting what it holds, gives a pool.
LEMMA PoolArithmetic ==
    ASSUME NEW pool \in Amounts, NEW amounts \in Amounts
    PROVE  /\ plus(pool, amounts) \in Amounts
           /\ amounts.ETH <= pool.ETH /\ amounts.LUSDDebt <= pool.LUSDDebt
                => minus(pool, amounts) \in Amounts
BY DEF Amounts, plus, minus

\* Removing a trove from the list leaves a list.
LEMMA WithoutType ==
    ASSUME TroveType, NEW b \in Borrowers, contains(b)
    PROVE  without(b) \in Seq(Borrowers)
<1>1. position(b) \in DOMAIN sortedTroves
  BY DEF contains, position
<1>2. position(b) \in 1..Len(sortedTroves)
  BY <1>1 DEF TroveType
<1>. QED
  BY <1>2 DEF TroveType, without, RemoveAt

\* Inserting a borrower into a list gives a list.
LEMMA InsertAtType ==
    ASSUME NEW list \in Seq(Borrowers), NEW b \in Borrowers, NEW k \in 1..(Len(list) + 1)
    PROVE  InsertAt(list, k, b) \in Seq(Borrowers)
BY DEF InsertAt

\* insert and reInsert give a list.
LEMMA InsertType ==
    ASSUME TroveType, NEW b \in Borrowers, NEW NICR, insert(b, NICR) \/ reInsert(b, NICR)
    PROVE  sortedTroves' \in Seq(Borrowers)
<1>1. CASE insert(b, NICR)
  BY <1>1, InsertAtType DEF TroveType, insert, insertPositions
<1>2. CASE reInsert(b, NICR)
  BY <1>2, InsertAtType, WithoutType DEF reInsert, insertPositions
<1>. QED
  BY <1>1, <1>2

\* getPrev returns a borrower or address(0).
LEMMA GetPrevType ==
    ASSUME TroveType, NEW b
    PROVE  getPrev(b) \in Borrowers \union {Null}
<1>1. CASE contains(b) /\ position(b) > 1
  <2>1. position(b) \in DOMAIN sortedTroves
    BY <1>1 DEF contains, position
  <2>2. position(b) - 1 \in 1..Len(sortedTroves)
    BY <1>1, <2>1 DEF TroveType
  <2>. QED
    BY <1>1, <2>2 DEF getPrev, TroveType
<1>2. CASE ~(contains(b) /\ position(b) > 1)
  BY <1>2 DEF getPrev
<1>. QED
  BY <1>1, <1>2

\* Closing a trove keeps the types, and at least one trove.
LEMMA CloseTroveType ==
    ASSUME TroveType, SnapshotsBehind, SystemType, NEW b \in Borrowers, NEW status \in Status,
           internalCloseTrove(b, status), L' = L
    PROVE  /\ TroveType' /\ SnapshotsBehind'
           /\ Len(TroveOwners') = Len(TroveOwners) - 1 /\ Len(TroveOwners') >= 1
<1>1. Len(TroveOwners) \in Nat /\ Len(TroveOwners) > 1
  BY DEF TroveType, internalCloseTrove, moreThanOneTrove
<1>2. Last(TroveOwners) \in Borrowers
  BY <1>1 DEF TroveType, Last
<1>3. Troves[b] \in Trove
  BY DEF TroveType
<1>4. Troves' \in [Borrowers -> Trove]
  BY <1>2, <1>3 DEF TroveType, internalCloseTrove, reindexed, Trove
<1>5. PICK owners : owners = [TroveOwners EXCEPT ![Troves[b].arrayIndex + 1] = Last(TroveOwners)]
  OBVIOUS
<1>6. owners \in Seq(Borrowers) /\ Len(owners) = Len(TroveOwners)
  <2>1. PICK n \in Nat : n = Len(TroveOwners)
    BY <1>1
  <2>2. TroveOwners \in [1..n -> Borrowers]
    BY <2>1 DEF TroveType
  <2>3. owners \in [1..n -> Borrowers]
    BY <1>2, <1>5, <2>2
  <2>. QED
    BY <2>1, <2>3
<1>7. TroveOwners' = Front(owners)
  BY <1>5 DEF internalCloseTrove
<1>8. TroveOwners' \in Seq(Borrowers) /\ Len(TroveOwners') = Len(TroveOwners) - 1
  BY <1>1, <1>6, <1>7 DEF Front
<1>9. sortedTroves' \in Seq(Borrowers)
  BY WithoutType DEF internalCloseTrove
<1>10. rewardSnapshots' \in [Borrowers -> Amounts] /\ SnapshotsBehind'
  BY DEF TroveType, SystemType, SnapshotsBehind, internalCloseTrove, Amounts, NoAmounts
<1>11. totalStakes' \in Nat
  BY <1>3 DEF TroveType, internalCloseTrove, stakeRemovable, Trove
<1>. QED
  BY <1>1, <1>4, <1>8, <1>9, <1>10, <1>11 DEF TroveType

\* The borrowing fee is a natural.
LEMMA FeeType ==
    ASSUME NEW rate \in Nat, NEW amount \in Nat
    PROVE  borrowingFee(rate, amount) \in Nat
<1>1. min(BORROWING_FEE_FLOOR + rate, MAX_BORROWING_FEE) \in Nat
  BY ConstantTypes DEF min
<1>2. min(BORROWING_FEE_FLOOR + rate, MAX_BORROWING_FEE) * amount \in Nat
  BY <1>1, MulNat
<1>. QED
  BY <1>2, DivNat, ConstantTypes DEF borrowingFee, calcBorrowingFee

\* The base rate decays within 0 and 100%.
LEMMA DecayedRate ==
    ASSUME SystemType, NEW decay \in DecayFactors
    PROVE  (baseRate * decay) \div DECIMAL_PRECISION \in 0..DECIMAL_PRECISION
<1>1. decay \in Nat /\ decay <= DECIMAL_PRECISION
  BY TroveManagerAssumption, ConstantTypes
<1>2. baseRate \in Nat /\ baseRate <= DECIMAL_PRECISION
  BY ConstantTypes DEF SystemType
<1>3. (baseRate * decay) \div DECIMAL_PRECISION \in 0..baseRate
  BY <1>1, <1>2, Fraction, ConstantTypes
<1>. QED
  BY <1>2, <1>3, ConstantTypes

\* So do the rates a borrower may pay, and the rate that is stored.
LEMMA BorrowingRate ==
    ASSUME SystemType, NEW rate \in borrowingRates
    PROVE  rate \in 0..DECIMAL_PRECISION /\ rateAfterBorrowing(rate) \in 0..DECIMAL_PRECISION
BY DecayedRate DEF borrowingRates, rateAfterBorrowing, SystemType

--------------------------------------------------------------------------------
(***************************************************************************)
(* One lemma per action: it preserves the invariant.                       *)
(***************************************************************************)

\* A transaction of a single step starts and ends with none in progress.
LEMMA StillIdle ==
    ASSUME IInv, idle, UNCHANGED <<liquidation, redemption>>
    PROVE  LoopType' /\ InProgress' /\ SavedOK' /\ idle'
BY DEF IInv, LoopType, InProgress, SavedOK, idle

\* openTrove mints the loan, the fee and the gas compensation against as much debt.
LEMMA OpenTroveInv ==
    ASSUME IInv, NEW b \in Borrowers, NEW value \in Collaterals, NEW loan \in Loans,
           openTrove(b, value, loan)
    PROVE  IInv'
<1>1. PICK rate \in borrowingRates : openTroveAtRate(b, value, loan, rate)
  BY DEF openTrove
<1>2. value \in Nat /\ loan \in Nat
  BY LiquityAssumption
<1>3. rate \in Nat /\ rateAfterBorrowing(rate) \in 0..DECIMAL_PRECISION
  BY BorrowingRate DEF IInv
<1>4. PICK fee \in Nat : fee = borrowingFee(rate, loan)
  BY <1>2, <1>3, FeeType
<1>5. LUSD_GAS_COMPENSATION \in Nat
  BY ConstantTypes
<1>6. PICK debt \in Nat : debt = getCompositeDebt(loan + fee) /\ debt = loan + fee + LUSD_GAS_COMPENSATION
  BY <1>2, <1>4, <1>5 DEF getCompositeDebt
<1>7. PICK stake \in Nat : stake = computeNewStake(Troves[b].coll + value)
  <2>1. Troves[b].coll + value \in Nat
    BY <1>2 DEF IInv, TroveType, Trove
  <2>. QED
    BY <1>1, <2>1, StakeType DEF IInv, openTroveAtRate, openTroveAllowed
<1>8. TroveType'
  <2>1. Troves' \in [Borrowers -> Trove]
    <3>1. Troves' = [Troves EXCEPT ![b] =
             [debt |-> Troves[b].debt + debt, coll |-> Troves[b].coll + value,
              stake |-> stake, status |-> "active", arrayIndex |-> Len(TroveOwners)]]
      BY <1>1, <1>4, <1>6, <1>7 DEF openTroveAtRate, openTroveAllowed
    <3>2. /\ Troves[b].debt + debt \in Nat /\ Troves[b].coll + value \in Nat
          /\ Len(TroveOwners) \in Nat
      BY <1>2 DEF IInv, TroveType, Trove
    <3>. QED
      BY <3>1, <3>2 DEF IInv, TroveType, Trove, Status
  <2>2. TroveOwners' \in Seq(Borrowers) /\ sortedTroves' \in Seq(Borrowers)
    BY <1>1, InsertType DEF IInv, TroveType, openTroveAtRate, openTroveAllowed
  <2>3. rewardSnapshots' \in [Borrowers -> Amounts]
    BY <1>1 DEF IInv, TroveType, SystemType, openTroveAtRate, openTroveAllowed
  <2>4. totalStakes' \in Nat
    BY <1>1, <1>7 DEF IInv, TroveType, Trove, openTroveAtRate, openTroveAllowed, stakeRemovable
  <2>. QED
    BY <2>1, <2>2, <2>3, <2>4 DEF TroveType
<1>9. SystemType'
  BY <1>1, <1>3 DEF IInv, SystemType, openTroveAtRate, openTroveAllowed
<1>10. SnapshotsBehind'
  BY <1>1 DEF IInv, TroveType, SystemType, SnapshotsBehind, Amounts, openTroveAtRate, openTroveAllowed
<1>11. PoolType' /\ SupplyBacked'
  <2>1. /\ activePool' = [ETH |-> activePool.ETH + value, LUSDDebt |-> activePool.LUSDDebt + debt]
        /\ lusd' = [lusd EXCEPT !.totalSupply = @ + debt, !.users = @ + loan,
                                !.lqtyStaking = @ + fee, !.gasPool = @ + LUSD_GAS_COMPENSATION]
        /\ UNCHANGED <<defaultPool, collSurplusPool, stabilityPool>>
    BY <1>1, <1>4, <1>6 DEF openTroveAtRate, openTroveAllowed, plus
  <2>2. lusd' = [totalSupply |-> lusd.totalSupply + debt, users |-> lusd.users + loan,
                 gasPool |-> lusd.gasPool + LUSD_GAS_COMPENSATION,
                 stabilityPool |-> lusd.stabilityPool, lqtyStaking |-> lusd.lqtyStaking + fee]
    BY <2>1 DEF IInv, PoolType, LUSDBalances
  <2>3. PoolType'
    BY <2>1, <2>2, <1>2, <1>5 DEF IInv, PoolType, Amounts, LUSDBalances
  <2>4. SupplyBacked'
    BY <2>1, <2>2, <1>2, <1>5, <1>6
    DEF IInv, PoolType, Amounts, LUSDBalances, SupplyBacked, getEntireSystemDebt
  <2>. QED
    BY <2>3, <2>4
<1>12. LoopType' /\ InProgress' /\ SavedOK'
  BY <1>1, StillIdle DEF openTroveAtRate, openTroveAllowed
<1>. QED
  BY <1>8, <1>9, <1>10, <1>11, <1>12 DEF IInv

\* For all the callers of _adjustTrove; the StabilityPool may pay the ETH.
LEMMA AdjustTroveInv ==
    ASSUME IInv, NEW b \in Borrowers, NEW collChange \in Int, NEW LUSDChange \in Int,
           adjustTroveBy(b, collChange, LUSDChange),
           stabilityPool' \in [ETH : Nat, totalLUSDDeposits : Nat],
           stabilityPool'.totalLUSDDeposits = stabilityPool.totalLUSDDeposits
    PROVE  IInv'
<1>1. PICK rate \in IF LUSDChange > 0 THEN borrowingRates ELSE {baseRate} :
         adjustTroveAtRate(b, collChange, LUSDChange, rate)
  BY DEF adjustTroveBy
<1>2. baseRate' \in 0..DECIMAL_PRECISION /\ (LUSDChange > 0 => rate \in Nat)
  BY <1>1, BorrowingRate DEF IInv, SystemType, adjustTroveAtRate, adjustTroveAllowed
<1>3. PICK fee \in Nat : fee = IF LUSDChange > 0 THEN borrowingFee(rate, LUSDChange) ELSE 0
  BY <1>2, FeeType
<1>4. PICK rewards \in Amounts : rewards = appliedRewards(b)
  BY PendingRewardsType DEF IInv
<1>5. Troves[b] \in Trove /\ rewards.ETH \in Nat /\ rewards.LUSDDebt \in Nat
  BY <1>4 DEF IInv, TroveType, Amounts
<1>6. PICK newColl \in Nat : newColl = Troves[b].coll + rewards.ETH + collChange
  BY <1>1, <1>4, <1>5 DEF adjustTroveAtRate, adjustTroveAllowed, Trove
<1>7. PICK newDebt \in Nat : newDebt = Troves[b].debt + rewards.LUSDDebt + (LUSDChange + fee)
  BY <1>1, <1>3, <1>4, <1>5 DEF adjustTroveAtRate, adjustTroveAllowed, Trove
<1>8. PICK stake \in Nat : stake = computeNewStake(newColl)
  BY <1>1, <1>6, StakeType DEF IInv, adjustTroveAtRate, adjustTroveAllowed
<1>9. TroveType'
  <2>1. Troves' = [Troves EXCEPT ![b].coll = newColl, ![b].debt = newDebt, ![b].stake = stake]
    BY <1>1, <1>3, <1>4, <1>6, <1>7, <1>8 DEF adjustTroveAtRate, adjustTroveAllowed
  <2>2. Troves' \in [Borrowers -> Trove]
    BY <2>1 DEF IInv, TroveType, Trove
  <2>3. TroveOwners' \in Seq(Borrowers) /\ sortedTroves' \in Seq(Borrowers)
    BY <1>1, InsertType DEF IInv, TroveType, adjustTroveAtRate, adjustTroveAllowed
  <2>4. rewardSnapshots' \in [Borrowers -> Amounts]
    BY <1>1, AppliedSnapshotsType DEF IInv, adjustTroveAtRate, adjustTroveAllowed
  <2>5. totalStakes' = totalStakes - Troves[b].stake + stake /\ Troves[b].stake <= totalStakes
    BY <1>1, <1>4, <1>6, <1>8 DEF adjustTroveAtRate, adjustTroveAllowed, stakeRemovable
  <2>6. totalStakes' \in Nat
    BY <1>5, <2>5 DEF IInv, TroveType, Trove
  <2>. QED
    BY <2>2, <2>3, <2>4, <2>6 DEF TroveType
<1>10. SystemType'
  BY <1>1, <1>2 DEF IInv, SystemType, adjustTroveAtRate, adjustTroveAllowed
<1>11. SnapshotsBehind'
  BY <1>1, AppliedSnapshotsType DEF IInv, adjustTroveAtRate, adjustTroveAllowed
<1>12. PoolType' /\ SupplyBacked'
  <2>1. /\ activePool' = [ETH |-> activePool.ETH + rewards.ETH + collChange,
                          LUSDDebt |-> activePool.LUSDDebt + rewards.LUSDDebt + (LUSDChange + fee)]
        /\ defaultPool' = [ETH |-> defaultPool.ETH - rewards.ETH,
                           LUSDDebt |-> defaultPool.LUSDDebt - rewards.LUSDDebt]
        /\ lusd' = [lusd EXCEPT !.totalSupply = @ + (LUSDChange + fee), !.users = @ + LUSDChange,
                                !.lqtyStaking = @ + fee]
        /\ collSurplusPool' = collSurplusPool
    BY <1>1, <1>3, <1>4 DEF adjustTroveAtRate, adjustTroveAllowed, plus, minus
  <2>2. /\ activePool'.ETH >= 0 /\ activePool'.LUSDDebt >= 0
        /\ rewards.ETH <= defaultPool.ETH /\ rewards.LUSDDebt <= defaultPool.LUSDDebt
        /\ LUSDChange < 0 => lusd.users >= -LUSDChange /\ lusd.totalSupply >= -LUSDChange
    BY <1>1, <1>4 DEF adjustTroveAtRate, adjustTroveAllowed, covered, sufficientLUSDBalance
  <2>3. lusd' = [totalSupply |-> lusd.totalSupply + (LUSDChange + fee),
                 users |-> lusd.users + LUSDChange, gasPool |-> lusd.gasPool,
                 stabilityPool |-> lusd.stabilityPool, lqtyStaking |-> lusd.lqtyStaking + fee]
    BY <2>1 DEF IInv, PoolType, LUSDBalances
  <2>4. lusd' \in LUSDBalances
    BY <2>2, <2>3 DEF IInv, PoolType, LUSDBalances
  <2>5. activePool' \in Amounts /\ defaultPool' \in Amounts
    BY <2>1, <2>2, <1>3, <1>5 DEF IInv, PoolType, Amounts
  <2>6. SupplyBacked'
    BY <2>1, <2>3, <1>5
    DEF IInv, PoolType, Amounts, LUSDBalances, SupplyBacked, getEntireSystemDebt
  <2>. QED
    BY <2>1, <2>4, <2>5, <2>6 DEF IInv, PoolType
<1>13. LoopType' /\ InProgress' /\ SavedOK'
  BY <1>1, StillIdle DEF adjustTroveAtRate, adjustTroveAllowed
<1>. QED
  BY <1>9, <1>10, <1>11, <1>12, <1>13 DEF IInv

\* closeTrove burns the net debt of the caller and the gas compensation of the pool.
LEMMA CloseTroveInv ==
    ASSUME IInv, NEW b \in Borrowers, closeTrove(b)
    PROVE  IInv'
<1>1. PICK rewards \in Amounts : rewards = appliedRewards(b)
  BY PendingRewardsType DEF IInv
<1>2. PICK coll \in Nat : coll = Troves[b].coll + rewards.ETH
  BY DEF IInv, TroveType, Trove, Amounts
<1>3. PICK debt \in Nat : debt = Troves[b].debt + rewards.LUSDDebt
  BY DEF IInv, TroveType, Trove, Amounts
<1>4. LUSD_GAS_COMPENSATION \in Nat
  BY ConstantTypes
<1>5. internalCloseTrove(b, "closedByOwner") /\ L' = L
  BY DEF closeTrove
<1>6. TroveType' /\ SnapshotsBehind'
  BY <1>5, CloseTroveType DEF IInv, Status
<1>7. SystemType'
  BY DEF IInv, SystemType, closeTrove
<1>8. PoolType' /\ SupplyBacked'
  <2>1. /\ rewards.ETH <= defaultPool.ETH /\ rewards.LUSDDebt <= defaultPool.LUSDDebt
        /\ activePool.ETH >= Troves[b].coll /\ activePool.LUSDDebt >= Troves[b].debt
        /\ lusd.users >= debt - LUSD_GAS_COMPENSATION /\ lusd.gasPool >= LUSD_GAS_COMPENSATION
        /\ debt - LUSD_GAS_COMPENSATION >= 0 /\ lusd.totalSupply >= debt
    BY <1>1, <1>3 DEF closeTrove, covered, sufficientLUSDBalance, getNetDebt
  <2>2. PICK net \in Nat : net = getNetDebt(debt) /\ net = debt - LUSD_GAS_COMPENSATION
    BY <2>1, <1>4 DEF getNetDebt
  <2>3. /\ activePool' = minus(plus(activePool, rewards), [ETH |-> coll, LUSDDebt |-> debt])
        /\ defaultPool' = minus(defaultPool, rewards)
        /\ UNCHANGED <<collSurplusPool, stabilityPool>>
    BY <1>1, <1>2, <1>3 DEF closeTrove
  <2>4. lusd' = burnGasCompensation([lusd EXCEPT !.totalSupply = @ - net, !.users = @ - net])
    BY <1>1, <1>3, <2>2 DEF closeTrove
  <2>5. lusd' = [totalSupply |-> lusd.totalSupply - net - LUSD_GAS_COMPENSATION,
                 users |-> lusd.users - net,
                 gasPool |-> lusd.gasPool - LUSD_GAS_COMPENSATION,
                 stabilityPool |-> lusd.stabilityPool, lqtyStaking |-> lusd.lqtyStaking]
    BY <2>4 DEF IInv, PoolType, LUSDBalances, burnGasCompensation
  <2>6. lusd' \in LUSDBalances
    BY <2>1, <2>2, <2>5, <1>4 DEF IInv, PoolType, LUSDBalances
  <2>7. /\ activePool' = [ETH |-> activePool.ETH - Troves[b].coll,
                          LUSDDebt |-> activePool.LUSDDebt - Troves[b].debt]
        /\ defaultPool' = [ETH |-> defaultPool.ETH - rewards.ETH,
                           LUSDDebt |-> defaultPool.LUSDDebt - rewards.LUSDDebt]
    <3>1. /\ activePool.ETH \in Nat /\ activePool.LUSDDebt \in Nat
          /\ rewards.ETH \in Nat /\ rewards.LUSDDebt \in Nat
          /\ Troves[b].coll \in Nat /\ Troves[b].debt \in Nat
      BY DEF IInv, PoolType, TroveType, Trove, Amounts
    <3>. QED
      BY <2>3, <3>1, <1>2, <1>3 DEF minus, plus
  <2>8. activePool' \in Amounts /\ defaultPool' \in Amounts
    <3>1. Troves[b].coll \in Nat /\ Troves[b].debt \in Nat
      BY DEF IInv, TroveType, Trove
    <3>. QED
      BY <2>1, <2>7, <3>1 DEF IInv, PoolType, Amounts
  <2>9. SupplyBacked'
    <3>1. Troves[b].debt \in Nat
      BY DEF IInv, TroveType, Trove
    <3>. QED
      BY <2>2, <2>3, <2>5, <2>7, <3>1, <1>3, <1>4
      DEF IInv, PoolType, Amounts, LUSDBalances, SupplyBacked, getEntireSystemDebt
  <2>. QED
    BY <2>3, <2>6, <2>8, <2>9 DEF IInv, PoolType
<1>9. LoopType' /\ InProgress' /\ SavedOK'
  BY StillIdle DEF closeTrove
<1>. QED
  BY <1>6, <1>7, <1>8, <1>9 DEF IInv

\* claimCollateral touches only the CollSurplusPool.
LEMMA ClaimCollateralInv ==
    ASSUME IInv, NEW b \in Borrowers, claimCollateral(b)
    PROVE  IInv'
<1>1. TroveType' /\ SystemType' /\ SnapshotsBehind' /\ SupplyBacked'
  BY DEF IInv, TroveType, SystemType, SnapshotsBehind, SupplyBacked, getEntireSystemDebt,
         claimCollateral
<1>2. PoolType'
  BY DEF IInv, PoolType, claimCollateral
<1>3. LoopType' /\ InProgress' /\ SavedOK'
  BY StillIdle DEF claimCollateral
<1>. QED
  BY <1>1, <1>2, <1>3 DEF IInv

\* A deposit moves LUSD from the users to the StabilityPool.
LEMMA ProvideToSPInv ==
    ASSUME IInv, NEW amount \in Deposits, NEW gain \in ETHGains, provideToSP(amount, gain)
    PROVE  IInv'
<1>1. amount \in Nat /\ gain \in Nat /\ gain <= stabilityPool.ETH
  BY LiquityAssumption DEF ETHGains, IInv, PoolType
<1>2. TroveType' /\ SystemType' /\ SnapshotsBehind'
  BY DEF IInv, TroveType, SystemType, SnapshotsBehind, provideToSP
<1>3. lusd' = [totalSupply |-> lusd.totalSupply, users |-> lusd.users - amount,
               gasPool |-> lusd.gasPool, stabilityPool |-> lusd.stabilityPool + amount,
               lqtyStaking |-> lusd.lqtyStaking]
  BY DEF IInv, PoolType, LUSDBalances, provideToSP
<1>4. PoolType'
  BY <1>1, <1>3 DEF IInv, PoolType, LUSDBalances, provideToSP, sufficientLUSDBalance
<1>5. SupplyBacked'
  BY <1>1, <1>3 DEF IInv, PoolType, LUSDBalances, SupplyBacked, getEntireSystemDebt, provideToSP
<1>6. LoopType' /\ InProgress' /\ SavedOK'
  BY StillIdle DEF provideToSP
<1>. QED
  BY <1>2, <1>4, <1>5, <1>6 DEF IInv

\* A withdrawal moves at most the deposits back.
LEMMA WithdrawFromSPInv ==
    ASSUME IInv, NEW amount \in Deposits, NEW gain \in ETHGains, withdrawFromSP(amount, gain)
    PROVE  IInv'
<1>1. amount \in Nat /\ gain \in Nat /\ gain <= stabilityPool.ETH
  BY LiquityAssumption DEF ETHGains, IInv, PoolType
<1>2. PICK withdrawn \in Nat : /\ withdrawn = min(amount, stabilityPool.totalLUSDDeposits)
                              /\ withdrawn <= stabilityPool.totalLUSDDeposits
  BY <1>1 DEF IInv, PoolType, min
<1>3. TroveType' /\ SystemType' /\ SnapshotsBehind'
  BY DEF IInv, TroveType, SystemType, SnapshotsBehind, withdrawFromSP
<1>4. lusd' = [totalSupply |-> lusd.totalSupply, users |-> lusd.users + withdrawn,
               gasPool |-> lusd.gasPool, stabilityPool |-> lusd.stabilityPool - withdrawn,
               lqtyStaking |-> lusd.lqtyStaking]
  BY <1>2 DEF IInv, PoolType, LUSDBalances, withdrawFromSP
<1>5. PoolType'
  BY <1>1, <1>2, <1>4 DEF IInv, PoolType, LUSDBalances, withdrawFromSP
<1>6. SupplyBacked'
  BY <1>2, <1>4
  DEF IInv, PoolType, LUSDBalances, SupplyBacked, getEntireSystemDebt, withdrawFromSP
<1>7. LoopType' /\ InProgress' /\ SavedOK'
  BY StillIdle DEF withdrawFromSP
<1>. QED
  BY <1>3, <1>5, <1>6, <1>7 DEF IInv

\* A transfer keeps the sum of the balances.
LEMMA MoveLUSDInv ==
    ASSUME IInv, NEW amount \in Nat,
           \/ moveLUSD("users", "gasPool", amount)
           \/ moveLUSD("lqtyStaking", "users", amount)
    PROVE  IInv'
<1>1. TroveType' /\ SystemType' /\ SnapshotsBehind'
  BY DEF IInv, TroveType, SystemType, SnapshotsBehind, moveLUSD
<1>2. \/ lusd' = [totalSupply |-> lusd.totalSupply, users |-> lusd.users - amount,
                  gasPool |-> lusd.gasPool + amount, stabilityPool |-> lusd.stabilityPool,
                  lqtyStaking |-> lusd.lqtyStaking] /\ lusd.users >= amount
      \/ lusd' = [totalSupply |-> lusd.totalSupply, users |-> lusd.users + amount,
                  gasPool |-> lusd.gasPool, stabilityPool |-> lusd.stabilityPool,
                  lqtyStaking |-> lusd.lqtyStaking - amount] /\ lusd.lqtyStaking >= amount
  BY DEF IInv, PoolType, LUSDBalances, moveLUSD
<1>3. PoolType'
  BY <1>2 DEF IInv, PoolType, LUSDBalances, moveLUSD
<1>4. SupplyBacked'
  BY <1>2 DEF IInv, PoolType, LUSDBalances, SupplyBacked, getEntireSystemDebt, moveLUSD
<1>5. LoopType' /\ InProgress' /\ SavedOK'
  BY StillIdle DEF moveLUSD
<1>. QED
  BY <1>1, <1>3, <1>4, <1>5 DEF IInv

\* Another price changes nothing else.
LEMMA ChangePriceInv ==
    ASSUME IInv, NEW newPrice \in Prices, changePrice(newPrice)
    PROVE  IInv'
<1>1. LoopType' /\ InProgress' /\ SavedOK'
  BY StillIdle DEF changePrice
<1>. QED
  BY <1>1 DEF IInv, TroveType, SystemType, PoolType, SnapshotsBehind, SupplyBacked,
              getEntireSystemDebt, changePrice, storage

--------------------------------------------------------------------------------
(***************************************************************************)
(* Liquidations.                                                           *)
(***************************************************************************)

\* The storage that a transaction saves when it starts.
LEMMA SavesStorage ==
    ASSUME IInv, saved' = <<storageRecord>>, UNCHANGED <<storage, price>>
    PROVE  SavedType' /\ SavedBacked' /\ SavedBehind'
           /\ Len(saved'[1].TroveOwners) >= Len(TroveOwners')
<1>1. saved'[1] = storageRecord
  OBVIOUS
<1>2. /\ saved'[1].Troves = Troves /\ saved'[1].TroveOwners = TroveOwners
      /\ saved'[1].sortedTroves = sortedTroves /\ saved'[1].rewardSnapshots = rewardSnapshots
      /\ saved'[1].totalStakes = totalStakes /\ saved'[1].activePool = activePool
      /\ saved'[1].defaultPool = defaultPool /\ saved'[1].collSurplusPool = collSurplusPool
      /\ saved'[1].lusd = lusd
  BY <1>1 DEF storageRecord
<1>3. UNCHANGED <<Troves, TroveOwners, stabilityPool, L>>
  BY DEF storage
<1>4. SavedType'
  BY <1>2 DEF IInv, TroveType, PoolType, SavedType
<1>5. SavedBacked'
  BY <1>2, <1>3 DEF IInv, SupplyBacked, getEntireSystemDebt, SavedBacked
<1>6. SavedBehind'
  BY <1>2, <1>3 DEF IInv, SnapshotsBehind, SavedBehind
<1>. QED
  BY <1>2, <1>3, <1>4, <1>5, <1>6 DEF IInv, TroveType

\* The storage does not change.
LEMMA SameStorage ==
    ASSUME IInv, UNCHANGED <<storage, price>>
    PROVE  TroveType' /\ SystemType' /\ PoolType' /\ SnapshotsBehind' /\ SupplyBacked'
BY DEF IInv, storage, TroveType, SystemType, PoolType, SnapshotsBehind, SupplyBacked,
       getEntireSystemDebt

\* A liquidation saves the storage when it starts.
LEMMA StartLiquidationInv ==
    ASSUME IInv, NEW start \in Liquidation, start.phase # "idle", startLiquidation(start)
    PROVE  IInv'
<1>1. LoopType' /\ InProgress'
  BY DEF IInv, LoopType, InProgress, startLiquidation, idle
<1>2. SavedOK'
  BY SavesStorage DEF startLiquidation, SavedOK
<1>. QED
  BY <1>1, <1>2, SameStorage DEF IInv, startLiquidation

\* The loop variables at the start of a liquidation.
LEMMA LiquidationFromType ==
    ASSUME IInv, NEW phase \in {"sequence", "batch"}, NEW todo \in Seq(Borrowers),
           NEW user \in Borrowers \union {Null}, NEW first \in Borrowers \union {Null}, NEW n \in Nat
    PROVE  /\ liquidationFrom(phase, todo, user, first, n) \in Liquidation
           /\ liquidationFrom(phase, todo, user, first, n).phase # "idle"
<1>1. getEntireSystemDebt \in Int /\ getEntireSystemColl \in Int
  BY DEF IInv, PoolType, Amounts, getEntireSystemDebt, getEntireSystemColl
<1>2. NoValues \in LiquidationValues
  BY DEF NoValues, LiquidationValues
<1>3. stabilityPool.totalLUSDDeposits \in Nat
  BY DEF IInv, PoolType
<1>. QED
  BY <1>1, <1>2, <1>3 DEF liquidationFrom, Liquidation

\* batchLiquidateTroves, and liquidate, start a loop over an array.
LEMMA BatchLiquidateTrovesInv ==
    ASSUME IInv, NEW troveArray \in Seq(Borrowers), batchLiquidateTroves(troveArray)
    PROVE  IInv'
BY LiquidationFromType, StartLiquidationInv DEF batchLiquidateTroves

\* liquidateTroves starts a walk up the list.
LEMMA LiquidateTrovesInv ==
    ASSUME IInv, NEW n \in Nat, liquidateTroves(n)
    PROVE  IInv'
<1>1. getLast \in Borrowers \union {Null} /\ getFirst \in Borrowers \union {Null}
  BY DEF IInv, TroveType, getLast, getFirst, Last
<1>2. PICK first \in Borrowers \union {Null} : first = IF checkRecoveryMode THEN getFirst ELSE Null
  BY <1>1
<1>3. <<>> \in Seq(Borrowers)
  OBVIOUS
<1>4. startLiquidation(liquidationFrom("sequence", <<>>, getLast, first, n))
  BY <1>2 DEF liquidateTroves
<1>. QED
  BY <1>1, <1>3, <1>4, LiquidationFromType, StartLiquidationInv

\* A trove that can be liquidated has debt: without, its ratio is UintMax.
LEMMA EntireTypes ==
    ASSUME IInv, NEW b \in Borrowers
    PROVE  /\ entireColl(b) \in Nat /\ entireDebt(b) \in Nat
           /\ price \in Nat \ {0}
           /\ getCurrentICR(b) < MCR => entireDebt(b) > 0
<1>1. entireColl(b) \in Nat /\ entireDebt(b) \in Nat
  <2>1. pendingRewards(b).ETH \in Nat /\ pendingRewards(b).LUSDDebt \in Nat
    BY PendingRewardsType DEF IInv, Amounts
  <2>2. Troves[b].coll \in Nat /\ Troves[b].debt \in Nat
    BY DEF IInv, TroveType, Trove
  <2>. QED
    BY <2>1, <2>2 DEF entireColl, entireDebt
<1>2. price \in Nat \ {0}
  BY LiquityAssumption DEF IInv, SystemType
<1>3. b # Null
  BY TroveManagerAssumption
<1>4. ASSUME ~(entireDebt(b) > 0) PROVE ~(getCurrentICR(b) < MCR)
  <2>1. getCurrentICR(b) = UintMax
    BY <1>3, <1>4 DEF getCurrentICR, computeCR
  <2>. QED
    BY <2>1, ConstantTypes, LiquityBaseAssumption
<1>. QED
  BY <1>1, <1>2, <1>4

\* The values of an offset with redistribution: the shares of the collateral add up.
LEMMA OffsetValuesType ==
    ASSUME IInv, NEW b \in Borrowers, entireDebt(b) > 0,
           NEW offset \in Nat, offset <= entireDebt(b)
    PROVE  /\ offsetAndRedistribute(b, offset) \in LiquidationValues
           /\ offsetAndRedistribute(b, offset).debtToOffset = offset
<1>1. entireColl(b) \in Nat /\ entireDebt(b) \in Nat \ {0}
  BY EntireTypes
<1>2. PICK gas \in Nat : gas = getCollGasCompensation(entireColl(b)) /\ gas <= entireColl(b)
  BY <1>1 DEF getCollGasCompensation, PERCENT_DIVISOR
<1>3. PICK coll \in Nat : coll = entireColl(b) - gas
  BY <1>1, <1>2
<1>4. PICK toSP \in Nat : toSP = (coll * offset) \div entireDebt(b) /\ toSP <= coll
  BY <1>1, Fraction
<1>5. offsetAndRedistribute(b, offset) =
        [entireDebt |-> entireDebt(b), collGasCompensation |-> gas,
         LUSDGasCompensation |-> LUSD_GAS_COMPENSATION,
         debtToOffset |-> offset, collToSendToSP |-> toSP,
         debtToRedistribute |-> entireDebt(b) - offset, collToRedistribute |-> coll - toSP,
         collSurplus |-> 0]
  BY <1>2, <1>3, <1>4 DEF offsetAndRedistribute
<1>. QED
  BY <1>1, <1>4, <1>5, ConstantTypes DEF LiquidationValues

\* The values of a capped offset: a trove above the MCR has the collateral the cap takes.
LEMMA CappedValuesType ==
    ASSUME IInv, NEW b \in Borrowers, getCurrentICR(b) >= MCR
    PROVE  /\ getCappedOffsetVals(b) \in LiquidationValues
           /\ getCappedOffsetVals(b).debtToOffset = entireDebt(b)
<1>1. entireColl(b) \in Nat /\ entireDebt(b) \in Nat /\ price \in Nat \ {0}
  BY EntireTypes
<1>2. MCR \in Nat
  BY ConstantTypes
<1>3. PICK capped \in Nat : capped = (entireDebt(b) * MCR) \div price /\ capped <= entireColl(b)
  <2>1. CASE entireDebt(b) = 0
    <3>1. (entireDebt(b) * MCR) \div price = 0
      BY <2>1, <1>1, <1>2, SMT
    <3>. QED
      BY <3>1, <1>1
  <2>2. CASE entireDebt(b) > 0
    <3>1. (entireColl(b) * price) \div entireDebt(b) >= MCR
      BY <2>2, TroveManagerAssumption DEF getCurrentICR, computeCR
    <3>. QED
      BY <2>2, <3>1, <1>1, <1>2, CappedCollateral
  <2>. QED
    BY <2>1, <2>2, <1>1
<1>4. PICK gas \in Nat : gas = getCollGasCompensation(capped) /\ gas <= capped
  BY DEF getCollGasCompensation, PERCENT_DIVISOR
<1>5. getCappedOffsetVals(b) =
        [entireDebt |-> entireDebt(b), collGasCompensation |-> gas,
         LUSDGasCompensation |-> LUSD_GAS_COMPENSATION,
         debtToOffset |-> entireDebt(b), collToSendToSP |-> capped - gas,
         debtToRedistribute |-> 0, collToRedistribute |-> 0,
         collSurplus |-> entireColl(b) - capped]
  BY <1>3, <1>4 DEF getCappedOffsetVals
<1>. QED
  BY <1>1, <1>3, <1>4, <1>5, ConstantTypes DEF LiquidationValues

\* What an iteration may liquidate, with which values.
LEMMA NormalValuesType ==
    ASSUME IInv, NEW b \in Borrowers, NEW remaining \in Nat, getCurrentICR(b) < MCR
    PROVE  /\ normalModeValues(b, remaining) \in LiquidationValues
           /\ normalModeValues(b, remaining).debtToOffset <= remaining
<1>1. entireDebt(b) \in Nat /\ entireDebt(b) > 0
  BY EntireTypes
<1>2. PICK offset \in Nat : /\ offset = min(entireDebt(b), remaining)
                           /\ offset <= entireDebt(b) /\ offset <= remaining
  BY <1>1 DEF min
<1>. QED
  BY <1>1, <1>2, OffsetValuesType DEF normalModeValues

\* The same in recovery mode.
LEMMA RecoveryValuesType ==
    ASSUME IInv, NEW b \in Borrowers, NEW remaining \in Nat, NEW TCR,
           recoveryModeLiquidates(b, remaining, TCR)
    PROVE  /\ recoveryModeValues(b, remaining) \in LiquidationValues
           /\ recoveryModeValues(b, remaining).debtToOffset <= remaining
<1>1. entireDebt(b) \in Nat /\ entireColl(b) \in Nat /\ price \in Nat \ {0}
  BY EntireTypes
<1>2. getCurrentICR(b) \in Nat
  <2>1. entireColl(b) * price \in Nat
    BY <1>1, MulNat
  <2>. QED
    BY <1>1, <2>1, DivNat, LiquityBaseAssumption DEF getCurrentICR, computeCR
<1>3. MCR \in Nat /\ DECIMAL_PRECISION \in Nat /\ DECIMAL_PRECISION < MCR
  BY LiquityBaseAssumption DEF MCR
<1>4. CASE getCurrentICR(b) <= DECIMAL_PRECISION
  <2>1. getCurrentICR(b) < MCR
    BY <1>2, <1>3, <1>4
  <2>2. entireDebt(b) > 0
    BY <2>1, EntireTypes
  <2>3. /\ offsetAndRedistribute(b, 0) \in LiquidationValues
        /\ offsetAndRedistribute(b, 0).debtToOffset = 0
    BY <1>1, <2>2, OffsetValuesType
  <2>. QED
    BY <1>4, <2>3 DEF recoveryModeValues
<1>5. CASE ~(getCurrentICR(b) <= DECIMAL_PRECISION) /\ getCurrentICR(b) < MCR
  BY <1>5, NormalValuesType DEF recoveryModeValues
<1>6. CASE ~(getCurrentICR(b) <= DECIMAL_PRECISION) /\ ~(getCurrentICR(b) < MCR)
  <2>1. getCurrentICR(b) >= MCR
    BY <1>2, <1>3, <1>6
  <2>2. entireDebt(b) <= remaining
    BY <2>1 DEF recoveryModeLiquidates
  <2>. QED
    BY <1>6, <2>1, <2>2, CappedValuesType DEF recoveryModeValues
<1>. QED
  BY <1>4, <1>5, <1>6

\* The totals of a sequence are naturals.
LEMMA TotalsType ==
    ASSUME NEW totals \in LiquidationValues, NEW values \in LiquidationValues
    PROVE  addLiquidationValuesToTotals(totals, values) \in LiquidationValues
BY DEF addLiquidationValuesToTotals, LiquidationValues

\* The loop variables after a trove was liquidated: no more is offset than the pool has.
LEMMA TrackedType ==
    ASSUME IInv, NEW step \in Liquidation, NEW values \in LiquidationValues,
           values.debtToOffset <= liquidation.remainingLUSD
    PROVE  tracked(step, values) \in Liquidation /\ tracked(step, values).phase = step.phase
<1>1. /\ liquidation.remainingLUSD \in Nat /\ liquidation.totals \in LiquidationValues
      /\ liquidation.systemDebt \in Int /\ liquidation.systemColl \in Int
  BY DEF IInv, LoopType, Liquidation
<1>2. /\ values.debtToOffset \in Nat /\ values.collToSendToSP \in Nat
      /\ values.collGasCompensation \in Nat /\ values.collSurplus \in Nat
  BY DEF LiquidationValues
<1>3. /\ step.phase \in {"idle", "sequence", "batch", "finish"} /\ step.todo \in Seq(Borrowers)
      /\ step.user \in Borrowers \union {Null} /\ step.firstUser \in Borrowers \union {Null}
      /\ step.left \in Nat
  BY DEF Liquidation
<1>4. liquidation.remainingLUSD - values.debtToOffset \in Nat
  BY <1>1, <1>2
<1>5. addLiquidationValuesToTotals(liquidation.totals, values) \in LiquidationValues
  BY <1>1, TotalsType
<1>6. /\ liquidation.systemDebt - values.debtToOffset \in Int
      /\ liquidation.systemColl - values.collToSendToSP - values.collGasCompensation
           - values.collSurplus \in Int
  BY <1>1, <1>2
<1>. QED
  BY <1>1, <1>3, <1>4, <1>5, <1>6 DEF tracked, Liquidation

\* An iteration that closes no trove.
LEMMA LoopGoesOn ==
    ASSUME IInv, liquidation.phase # "idle", NEW step \in Liquidation, step.phase # "idle",
           liquidation' = step, UNCHANGED <<storage, price, redemption, saved>>
    PROVE  IInv'
<1>1. LoopType' /\ InProgress'
  BY DEF IInv, LoopType, InProgress
<1>2. SavedOK'
  BY DEF IInv, SavedOK, idle, SavedType, SavedBacked, SavedBehind, storage
<1>. QED
  BY <1>1, <1>2, SameStorage DEF IInv

\* Closing one trove: its debt stays in the two pools until the end of the loop.
LEMMA LiquidateOneInv ==
    ASSUME IInv, liquidation.phase # "idle", NEW b \in Borrowers,
           NEW values \in LiquidationValues, values.debtToOffset <= liquidation.remainingLUSD,
           NEW step \in Liquidation, step.phase # "idle", liquidateOne(b, values, step)
    PROVE  IInv'
<1>1. PICK rewards \in Amounts : rewards = pendingRewards(b)
  BY PendingRewardsType DEF IInv
<1>2. internalCloseTrove(b, "closedByLiquidation") /\ L' = L
  BY DEF liquidateOne
<1>3. TroveType' /\ SnapshotsBehind' /\ Len(TroveOwners') = Len(TroveOwners) - 1
  BY <1>2, CloseTroveType DEF IInv, Status
<1>4. SystemType'
  BY DEF IInv, SystemType, liquidateOne
<1>5. /\ activePool' = [ETH |-> activePool.ETH + rewards.ETH,
                        LUSDDebt |-> activePool.LUSDDebt + rewards.LUSDDebt]
      /\ defaultPool' = [ETH |-> defaultPool.ETH - rewards.ETH,
                         LUSDDebt |-> defaultPool.LUSDDebt - rewards.LUSDDebt]
      /\ rewards.ETH <= defaultPool.ETH /\ rewards.LUSDDebt <= defaultPool.LUSDDebt
      /\ UNCHANGED <<stabilityPool, lusd>>
  BY <1>1 DEF liquidateOne, plus, minus, closable, covered
<1>6. collSurplusPool' \in [ETH : Nat, balances : [Borrowers -> Nat]]
  <2>1. values.collSurplus \in Nat
    BY DEF LiquidationValues
  <2>2. collSurplusPool' = [collSurplusPool EXCEPT !.balances[b] = @ + values.collSurplus]
    BY DEF liquidateOne
  <2>. QED
    BY <2>1, <2>2 DEF IInv, PoolType
<1>7. PoolType' /\ SupplyBacked'
  BY <1>5, <1>6 DEF IInv, PoolType, Amounts, LUSDBalances, SupplyBacked, getEntireSystemDebt
<1>8. liquidation' \in Liquidation /\ liquidation'.phase # "idle"
  BY TrackedType DEF liquidateOne
<1>9. LoopType' /\ InProgress'
  BY <1>8 DEF IInv, LoopType, InProgress, liquidateOne
<1>10. SavedOK'
  <2>1. ~idle /\ UNCHANGED <<saved, stabilityPool, L>>
    BY DEF idle, liquidateOne
  <2>2. SavedType' /\ SavedBacked' /\ SavedBehind'
    BY <2>1 DEF IInv, SavedOK, SavedType, SavedBacked, SavedBehind
  <2>3. Len(saved'[1].TroveOwners) >= Len(TroveOwners')
    <3>1. Len(saved[1].TroveOwners) \in Nat /\ Len(TroveOwners) \in Nat
      BY <2>1 DEF IInv, SavedOK, SavedType, TroveType
    <3>. QED
      BY <1>3, <2>1, <3>1 DEF IInv, SavedOK
  <2>. QED
    BY <2>2, <2>3 DEF SavedOK
<1>. QED
  BY <1>3, <1>4, <1>7, <1>9, <1>10 DEF IInv

\* An iteration of either loop, whatever it decides about the trove.
LEMMA LiquidationIterationInv ==
    ASSUME IInv, liquidation.phase # "idle", NEW b \in Borrowers,
           NEW step \in Liquidation, step.phase # "idle",
           NEW stopped \in Liquidation, stopped.phase # "idle",
           liquidationIteration(b, step, stopped)
    PROVE  IInv'
<1>1. liquidation.remainingLUSD \in Nat
  BY DEF IInv, LoopType, Liquidation
<1>2. CASE /\ verdict(b) = "normal"
           /\ liquidateOne(b, normalModeValues(b, liquidation.remainingLUSD), step)
  <2>1. getCurrentICR(b) < MCR
    BY <1>2 DEF verdict
  <2>. QED
    BY <1>1, <1>2, <2>1, NormalValuesType, LiquidateOneInv
<1>3. CASE /\ verdict(b) = "recovery"
           /\ liquidateOne(b, recoveryModeValues(b, liquidation.remainingLUSD), step)
  <2>1. recoveryModeLiquidates(b, liquidation.remainingLUSD,
          computeCR(liquidation.systemColl, liquidation.systemDebt, price))
    BY <1>3 DEF verdict
  <2>. QED
    BY <1>1, <1>3, <2>1, RecoveryValuesType, LiquidateOneInv
<1>4. CASE liquidation' = step /\ UNCHANGED <<storage, price, redemption, saved>>
  BY <1>4, LoopGoesOn
<1>5. CASE liquidation' = stopped /\ UNCHANGED <<storage, price, redemption, saved>>
  BY <1>5, LoopGoesOn
<1>. QED
  BY <1>2, <1>3, <1>4, <1>5 DEF liquidationIteration

\* Only borrowers are in the list, so the loop closes no trove of address(0).
LEMMA ListMember ==
    ASSUME TroveType, NEW b, contains(b)
    PROVE  b \in Borrowers
<1>1. PICK i \in DOMAIN sortedTroves : sortedTroves[i] = b
  BY DEF contains
<1>2. i \in 1..Len(sortedTroves)
  BY <1>1 DEF TroveType
<1>. QED
  BY <1>1, <1>2 DEF TroveType

\* An iteration of liquidateTroves.
LEMMA LiquidateTrovesStepInv ==
    ASSUME IInv, LiquidateTrovesStep
    PROVE  IInv'
<1>1. /\ liquidation.phase = "sequence" /\ liquidation.left \in Nat /\ liquidation.left # 0
      /\ liquidation.user \in Borrowers \union {Null}
  BY DEF IInv, LoopType, Liquidation, LiquidateTrovesStep, sequenceEnded
<1>2. PICK prev \in Borrowers \union {Null} : prev = getPrev(liquidation.user)
  BY GetPrevType DEF IInv
<1>3. PICK step \in Liquidation : step = [liquidation EXCEPT !.user = prev, !.left = @ - 1]
  <2>1. PICK left \in Nat : left = liquidation.left - 1
    BY <1>1
  <2>2. [liquidation EXCEPT !.user = prev, !.left = left] \in Liquidation
    BY DEF IInv, LoopType, Liquidation
  <2>. QED
    BY <2>1, <2>2
<1>4. PICK stopped \in Liquidation : stopped = [liquidation EXCEPT !.phase = "finish"]
  BY DEF IInv, LoopType, Liquidation
<1>5. step.phase # "idle" /\ stopped.phase # "idle"
  BY <1>1, <1>3, <1>4 DEF IInv, LoopType, Liquidation
<1>6. liquidationIteration(liquidation.user, step, stopped)
  BY <1>2, <1>3, <1>4 DEF LiquidateTrovesStep
<1>7. CASE liquidation.user \in Borrowers
  BY <1>1, <1>5, <1>6, <1>7, LiquidationIterationInv
<1>8. CASE liquidation.user = Null
  <2>1. ~closable(liquidation.user)
    BY <1>8, ListMember, TroveManagerAssumption DEF closable, IInv
  <2>2. (liquidation' = step \/ liquidation' = stopped)
        /\ UNCHANGED <<storage, price, redemption, saved>>
    BY <1>6, <2>1 DEF liquidationIteration, liquidateOne
  <2>. QED
    BY <1>1, <1>5, <2>2, LoopGoesOn
<1>. QED
  BY <1>1, <1>7, <1>8

\* An iteration of batchLiquidateTroves.
LEMMA BatchLiquidateStepInv ==
    ASSUME IInv, BatchLiquidateStep
    PROVE  IInv'
<1>1. /\ liquidation.phase = "batch" /\ liquidation.todo \in Seq(Borrowers)
      /\ liquidation.todo # <<>>
  BY DEF IInv, LoopType, Liquidation, BatchLiquidateStep
<1>2. PICK b \in Borrowers : b = Head(liquidation.todo)
  BY <1>1
<1>3. Tail(liquidation.todo) \in Seq(Borrowers)
  BY <1>1
<1>4. PICK step \in Liquidation : step = [liquidation EXCEPT !.todo = Tail(@)]
  BY <1>3 DEF IInv, LoopType, Liquidation
<1>5. step.phase # "idle"
  BY <1>1, <1>4 DEF IInv, LoopType, Liquidation
<1>6. \/ liquidationIteration(b, step, step)
      \/ liquidation' = step /\ UNCHANGED <<storage, price, redemption, saved>>
  BY <1>2, <1>4 DEF BatchLiquidateStep
<1>7. CASE liquidationIteration(b, step, step)
  BY <1>1, <1>5, <1>7, LiquidationIterationInv
<1>8. CASE liquidation' = step /\ UNCHANGED <<storage, price, redemption, saved>>
  BY <1>1, <1>5, <1>8, LoopGoesOn
<1>. QED
  BY <1>6, <1>7, <1>8

\* The values of the loop variables between transactions.
LEMMA NothingInProgress ==
    NoLiquidation \in Liquidation /\ NoRedemption \in Redemption
    /\ NoLiquidation.phase = "idle" /\ NoRedemption.phase = "idle"
BY DEF NoLiquidation, NoRedemption, Liquidation, Redemption, NoValues, LiquidationValues

\* A failing transaction returns to a state of the invariant.
LEMMA RevertInv ==
    ASSUME IInv, ~idle, Revert
    PROVE  IInv' /\ Len(TroveOwners') >= Len(TroveOwners)
<1>1. /\ SavedType /\ SavedBacked /\ SavedBehind
      /\ Len(saved[1].TroveOwners) >= Len(TroveOwners)
  BY DEF IInv, SavedOK
<1>2. TroveType' /\ Len(TroveOwners') >= Len(TroveOwners)
  BY <1>1 DEF Revert, TroveType, SavedType
<1>3. SystemType'
  BY DEF IInv, SystemType, Revert
<1>4. PoolType'
  BY <1>1 DEF IInv, PoolType, SavedType, Revert
<1>5. SnapshotsBehind'
  BY <1>1 DEF SnapshotsBehind, SavedBehind, Revert
<1>6. SupplyBacked'
  BY <1>1 DEF SupplyBacked, getEntireSystemDebt, SavedBacked, Revert
<1>7. LoopType' /\ InProgress' /\ SavedOK'
  BY NothingInProgress DEF LoopType, InProgress, SavedOK, idle, Revert
<1>. QED
  BY <1>2, <1>3, <1>4, <1>5, <1>6, <1>7 DEF IInv

\* A loop that ended was running.
LEMMA LiquidationInProgress ==
    ASSUME liquidationLoopEnded PROVE liquidation.phase # "idle" /\ ~idle
BY DEF liquidationLoopEnded, idle

\* What the end of a liquidation moves to the StabilityPool and to the troves.
LEMMA MovedAmounts ==
    ASSUME NEW totals \in LiquidationValues
    PROVE  /\ offsetOf(totals) \in Amounts
           /\ offsetOf(totals).ETH <= totals.collToSendToSP
           /\ offsetOf(totals).LUSDDebt <= totals.debtToOffset
           /\ redistributionOf(totals) \in Amounts
           /\ redistributionOf(totals).ETH <= totals.collToRedistribute
           /\ redistributionOf(totals).LUSDDebt = totals.debtToRedistribute
<1>1. /\ totals.collToSendToSP \in Nat /\ totals.debtToOffset \in Nat
      /\ totals.collToRedistribute \in Nat /\ totals.debtToRedistribute \in Nat
  BY DEF LiquidationValues
<1>. QED
  BY <1>1 DEF offsetOf, redistributionOf, Amounts, NoAmounts

\* A redistribution never lowers the rewards per unit staked.
LEMMA RedistributeInv ==
    ASSUME IInv, NEW amounts \in Amounts, amounts.LUSDDebt > 0 => totalStakes > 0,
           redistributeDebtAndColl(amounts)
    PROVE  /\ L' \in Amounts /\ lastError' \in Amounts
           /\ L'.ETH >= L.ETH /\ L'.LUSDDebt >= L.LUSDDebt
<1>1. CASE amounts.LUSDDebt = 0
  BY <1>1 DEF IInv, SystemType, Amounts, redistributeDebtAndColl
<1>2. CASE amounts.LUSDDebt > 0
  <2>1. totalStakes \in Nat \ {0}
    BY <1>2 DEF IInv, TroveType
  <2>2. /\ amounts.ETH * DECIMAL_PRECISION \in Nat
        /\ amounts.LUSDDebt * DECIMAL_PRECISION \in Nat
    BY MulNat, ConstantTypes DEF Amounts
  <2>3. PICK coll \in Nat : coll = amounts.ETH * DECIMAL_PRECISION + lastError.ETH
    BY <2>2 DEF IInv, SystemType, Amounts
  <2>4. PICK debt \in Nat : debt = amounts.LUSDDebt * DECIMAL_PRECISION + lastError.LUSDDebt
    BY <2>2 DEF IInv, SystemType, Amounts
  <2>5. /\ coll \div totalStakes \in Nat /\ debt \div totalStakes \in Nat
        /\ coll % totalStakes \in Nat /\ debt % totalStakes \in Nat
    BY <2>1, DivNat, ModNat
  <2>6. /\ L' = [ETH |-> L.ETH + coll \div totalStakes, LUSDDebt |-> L.LUSDDebt + debt \div totalStakes]
        /\ lastError' = [ETH |-> coll % totalStakes, LUSDDebt |-> debt % totalStakes]
    BY <1>2, <2>3, <2>4 DEF redistributeDebtAndColl
  <2>. QED
    BY <2>5, <2>6 DEF IInv, SystemType, Amounts
<1>. QED
  BY <1>1, <1>2 DEF Amounts

\* The end of a liquidation.
LEMMA FinishLiquidationInv ==
    ASSUME IInv, FinishLiquidation
    PROVE  IInv'
<1>1. PICK totals \in LiquidationValues : totals = liquidation.totals
  BY DEF IInv, LoopType, Liquidation
<1>2. PICK toSP \in Amounts : /\ toSP = offsetOf(totals)
                             /\ toSP.ETH <= totals.collToSendToSP
                             /\ toSP.LUSDDebt <= totals.debtToOffset
  BY MovedAmounts
<1>3. PICK toTroves \in Amounts : /\ toTroves = redistributionOf(totals)
                                 /\ toTroves.ETH <= totals.collToRedistribute
                                 /\ toTroves.LUSDDebt = totals.debtToRedistribute
  BY MovedAmounts
<1>4. /\ toSP.ETH \in Nat /\ toSP.LUSDDebt \in Nat /\ toTroves.ETH \in Nat /\ toTroves.LUSDDebt \in Nat
      /\ activePool.ETH \in Nat /\ activePool.LUSDDebt \in Nat
      /\ defaultPool.ETH \in Nat /\ defaultPool.LUSDDebt \in Nat
  BY DEF IInv, PoolType, Amounts
<1>5. /\ totals.collToSendToSP \in Nat /\ totals.debtToOffset \in Nat
      /\ totals.collToRedistribute \in Nat /\ totals.debtToRedistribute \in Nat
      /\ totals.collSurplus \in Nat /\ totals.collGasCompensation \in Nat
      /\ totals.LUSDGasCompensation \in Nat
  BY DEF LiquidationValues
<1>6. /\ totals.debtToRedistribute > 0 => totalStakes > 0
      /\ activePool.LUSDDebt >= totals.debtToOffset + totals.debtToRedistribute
      /\ activePool.ETH >= totals.collToSendToSP + totals.collToRedistribute
                            + totals.collSurplus + totals.collGasCompensation
      /\ stabilityPool.totalLUSDDeposits >= totals.debtToOffset
      /\ lusd.stabilityPool >= totals.debtToOffset /\ lusd.totalSupply >= totals.debtToOffset
      /\ lusd.gasPool >= totals.LUSDGasCompensation
  BY <1>1 DEF FinishLiquidation, liquidationSucceeds
<1>7. PICK activeColl \in Nat : activeColl = activePool.ETH - toSP.ETH - toTroves.ETH
                                  - totals.collSurplus - totals.collGasCompensation
  BY <1>2, <1>3, <1>4, <1>5, <1>6
<1>8. TroveType'
  BY DEF IInv, TroveType, FinishLiquidation
<1>9. /\ L' \in Amounts /\ lastError' \in Amounts
      /\ L'.ETH >= L.ETH /\ L'.LUSDDebt >= L.LUSDDebt
  BY <1>1, <1>3, <1>6, RedistributeInv DEF FinishLiquidation
<1>10. SystemType'
  <2>1. systemSnapshot' = [stakes |-> totalStakes, coll |-> activeColl + defaultPool.ETH + toTroves.ETH]
    BY <1>1, <1>2, <1>3, <1>7 DEF FinishLiquidation
  <2>2. baseRate' = baseRate /\ price' = price
    BY DEF FinishLiquidation
  <2>. QED
    BY <1>4, <1>9, <2>1, <2>2, SMTT(30) DEF IInv, TroveType, SystemType
<1>11. SnapshotsBehind'
  <2>1. rewardSnapshots' = rewardSnapshots
    BY DEF FinishLiquidation
  <2>. QED
    BY <1>9, <2>1, SMTT(30) DEF IInv, TroveType, SystemType, SnapshotsBehind, Amounts
<1>12. /\ stabilityPool' = [ETH |-> stabilityPool.ETH + toSP.ETH,
                            totalLUSDDeposits |-> stabilityPool.totalLUSDDeposits - toSP.LUSDDebt]
       /\ activePool' = [ETH |-> activeColl,
                         LUSDDebt |-> activePool.LUSDDebt - toSP.LUSDDebt - toTroves.LUSDDebt]
       /\ defaultPool' = [ETH |-> defaultPool.ETH + toTroves.ETH,
                          LUSDDebt |-> defaultPool.LUSDDebt + toTroves.LUSDDebt]
       /\ collSurplusPool' = [collSurplusPool EXCEPT !.ETH = @ + totals.collSurplus]
  BY <1>1, <1>2, <1>3, <1>7 DEF FinishLiquidation, plus
<1>13. lusd' = [totalSupply |-> lusd.totalSupply - toSP.LUSDDebt,
                users |-> lusd.users + totals.LUSDGasCompensation,
                gasPool |-> lusd.gasPool - totals.LUSDGasCompensation,
                stabilityPool |-> lusd.stabilityPool - toSP.LUSDDebt,
                lqtyStaking |-> lusd.lqtyStaking]
  BY <1>1, <1>2 DEF FinishLiquidation, IInv, PoolType, LUSDBalances
<1>14. PoolType'
  <2>1. lusd' \in LUSDBalances
    BY <1>2, <1>4, <1>5, <1>6, <1>13 DEF IInv, PoolType, LUSDBalances
  <2>2. collSurplusPool' \in [ETH : Nat, balances : [Borrowers -> Nat]]
    BY <1>5, <1>12 DEF IInv, PoolType
  <2>3. activePool' \in Amounts /\ defaultPool' \in Amounts
    BY <1>2, <1>3, <1>4, <1>5, <1>6, <1>12 DEF Amounts
  <2>4. stabilityPool' \in [ETH : Nat, totalLUSDDeposits : Nat]
    BY <1>2, <1>4, <1>5, <1>6, <1>12 DEF IInv, PoolType
  <2>. QED
    BY <2>1, <2>2, <2>3, <2>4 DEF PoolType
<1>15. SupplyBacked'
  BY <1>4, <1>5, <1>12, <1>13
  DEF IInv, PoolType, LUSDBalances, SupplyBacked, getEntireSystemDebt
<1>16. LoopType' /\ InProgress' /\ SavedOK'
  <2>1. liquidation' = NoLiquidation /\ redemption' = redemption /\ redemption.phase = "idle"
    BY LiquidationInProgress DEF FinishLiquidation, IInv, InProgress
  <2>. QED
    BY <2>1, NothingInProgress DEF IInv, LoopType, InProgress, SavedOK, idle
<1>. QED
  BY <1>8, <1>10, <1>11, <1>14, <1>15, <1>16 DEF IInv

\* A liquidation that fails at its end is undone.
LEMMA LiquidationFailsInv ==
    ASSUME IInv, LiquidationFails
    PROVE  IInv'
BY LiquidationInProgress, RevertInv DEF LiquidationFails

--------------------------------------------------------------------------------
(***************************************************************************)
(* Redemptions.                                                            *)
(***************************************************************************)

\* A redemption starts while there is debt: the redeemer holds LUSD, and all
\* LUSD is some trove's debt.
LEMMA RedeemCollateralInv ==
    ASSUME IInv, NEW amount \in Nat, NEW n \in Nat, redeemCollateral(amount, n)
    PROVE  IInv'
<1>1. PICK first \in firstToRedeem :
         redemption' = [phase |-> "loop", user |-> first, remainingLUSD |-> amount,
                        left |-> IF n = 0 THEN UintMax ELSE n,
                        totalLUSDToRedeem |-> 0, totalETHDrawn |-> 0,
                        LUSDSupplyAtStart |-> getEntireSystemDebt]
  BY DEF redeemCollateral
<1>2. first \in Borrowers \union {Null}
  <2>1. \A i \in DOMAIN sortedTroves : sortedTroves[i] \in Borrowers
    BY DEF IInv, TroveType
  <2>. QED
    BY <2>1 DEF firstToRedeem
<1>3. getEntireSystemDebt \in Nat /\ getEntireSystemDebt > 0
  <2>1. lusd.users >= amount /\ amount > 0
    BY DEF redeemCollateral, sufficientLUSDBalance
  <2>2. /\ lusd.users \in Nat /\ lusd.gasPool \in Nat /\ lusd.stabilityPool \in Nat
        /\ lusd.lqtyStaking \in Nat
    BY DEF IInv, PoolType, LUSDBalances
  <2>. QED
    BY <2>1, <2>2 DEF IInv, SupplyBacked
<1>4. (IF n = 0 THEN UintMax ELSE n) \in Nat
  BY LiquityBaseAssumption
<1>5. redemption' \in Redemption /\ redemption'.phase = "loop" /\ redemption'.LUSDSupplyAtStart > 0
  BY <1>1, <1>2, <1>3, <1>4 DEF Redemption
<1>6. LoopType' /\ InProgress'
  BY <1>5 DEF IInv, LoopType, InProgress, idle, redeemCollateral
<1>7. SavedOK'
  BY SavesStorage DEF redeemCollateral, SavedOK
<1>. QED
  BY <1>6, <1>7, SameStorage DEF IInv, redeemCollateral

\* A redemption in its loop or at its end was started.
LEMMA RedemptionInProgress ==
    ASSUME redemption.phase = "loop" \/ redemptionLoopEnded
    PROVE  redemption.phase # "idle" /\ ~idle
BY DEF redemptionLoopEnded, idle

\* What is taken from a trove.
LEMMA LotType ==
    ASSUME IInv, NEW b \in Borrowers, redeemable(b)
    PROVE  /\ appliedRewards(b) \in Amounts
           /\ appliedRewards(b).ETH \in Nat /\ appliedRewards(b).LUSDDebt \in Nat
           /\ Troves[b].coll \in Nat /\ Troves[b].debt \in Nat /\ Troves[b].stake \in Nat
           /\ redeemedDebt(b) \in Nat /\ redeemedColl(b) \in Nat
           /\ LUSDLot(b) \in Nat /\ LUSDLot(b) <= redemption.remainingLUSD
           /\ LUSDLot(b) <= redeemedDebt(b) - LUSD_GAS_COMPENSATION
           /\ ETHLot(b) \in Nat /\ ETHLot(b) <= redeemedColl(b)
<1>1. appliedRewards(b) \in Amounts
  BY PendingRewardsType DEF IInv
<1>2. appliedRewards(b).ETH \in Nat /\ appliedRewards(b).LUSDDebt \in Nat
  BY <1>1 DEF Amounts
<1>3. Troves[b].coll \in Nat /\ Troves[b].debt \in Nat /\ Troves[b].stake \in Nat
  BY DEF IInv, TroveType, Trove
<1>4. redeemedDebt(b) \in Nat /\ redeemedColl(b) \in Nat
  BY <1>2, <1>3 DEF redeemedDebt, redeemedColl
<1>5. redemption.remainingLUSD \in Nat
  BY DEF IInv, LoopType, Redemption
<1>6. LUSD_GAS_COMPENSATION \in Nat /\ redeemedDebt(b) >= LUSD_GAS_COMPENSATION
  BY ConstantTypes DEF redeemable
<1>7. /\ LUSDLot(b) \in Nat /\ LUSDLot(b) <= redemption.remainingLUSD
      /\ LUSDLot(b) <= redeemedDebt(b) - LUSD_GAS_COMPENSATION
  BY <1>4, <1>5, <1>6 DEF LUSDLot, min
<1>8. price \in Nat \ {0}
  BY LiquityAssumption DEF IInv, SystemType
<1>9. LUSDLot(b) * DECIMAL_PRECISION \in Nat
  BY <1>7, MulNat, ConstantTypes
<1>10. ETHLot(b) \in Nat /\ ETHLot(b) <= redeemedColl(b)
  BY <1>8, <1>9, DivNat DEF ETHLot, redeemable
<1>. QED
  BY <1>1, <1>2, <1>3, <1>4, <1>7, <1>10

\* The loop variables after a lot was taken.
LEMMA LotTakenType ==
    ASSUME IInv, NEW b \in Borrowers, redeemable(b), redemption.phase = "loop",
           ~redemptionLoopEnded, redemption' = lotTaken(b), liquidation' = liquidation
    PROVE  LoopType' /\ InProgress' /\ redemption'.phase = "loop"
<1>1. /\ redemption.left \in Nat /\ redemption.left # 0 /\ redemption.remainingLUSD \in Nat
      /\ redemption.totalLUSDToRedeem \in Nat /\ redemption.totalETHDrawn \in Nat
      /\ redemption.LUSDSupplyAtStart \in Nat /\ redemption.LUSDSupplyAtStart > 0
  BY DEF IInv, LoopType, InProgress, Redemption, redemptionLoopEnded
<1>2. getPrev(b) \in Borrowers \union {Null}
  BY GetPrevType DEF IInv
<1>3. /\ LUSDLot(b) \in Nat /\ LUSDLot(b) <= redemption.remainingLUSD /\ ETHLot(b) \in Nat
  BY LotType
<1>4. redemption' =
        [phase |-> "loop", user |-> getPrev(b),
         remainingLUSD |-> redemption.remainingLUSD - LUSDLot(b), left |-> redemption.left - 1,
         totalLUSDToRedeem |-> redemption.totalLUSDToRedeem + LUSDLot(b),
         totalETHDrawn |-> redemption.totalETHDrawn + ETHLot(b),
         LUSDSupplyAtStart |-> redemption.LUSDSupplyAtStart]
  BY DEF IInv, LoopType, Redemption, lotTaken
<1>5. redemption' \in Redemption /\ redemption'.LUSDSupplyAtStart > 0
  BY <1>1, <1>2, <1>3, <1>4 DEF Redemption
<1>6. liquidation.phase = "idle"
  BY DEF IInv, InProgress
<1>. QED
  BY <1>4, <1>5, <1>6 DEF IInv, LoopType, InProgress

\* Iterations keep what was saved, and never add a trove.
LEMMA RedemptionKeepsSaved ==
    ASSUME IInv, redemption.phase = "loop", UNCHANGED <<saved, stabilityPool, L>>,
           Len(TroveOwners') \in Nat, Len(TroveOwners') <= Len(TroveOwners)
    PROVE  SavedOK'
<1>1. ~idle
  BY DEF idle
<1>2. SavedType' /\ SavedBacked' /\ SavedBehind'
  BY <1>1 DEF IInv, SavedOK, SavedType, SavedBacked, SavedBehind
<1>3. Len(saved[1].TroveOwners) \in Nat /\ Len(TroveOwners) \in Nat
  BY <1>1 DEF IInv, SavedOK, SavedType, TroveType
<1>4. Len(saved'[1].TroveOwners) >= Len(TroveOwners')
  BY <1>1, <1>3 DEF IInv, SavedOK
<1>. QED
  BY <1>2, <1>4 DEF SavedOK

\* A trove whose debt is redeemed is closed, and its gas compensation burnt.
LEMMA RedeemCloseInv ==
    ASSUME IInv, NEW b \in Borrowers, redemption.phase = "loop", ~redemptionLoopEnded,
           RedeemClose(b),
           UNCHANGED <<systemSnapshot, L, lastError, baseRate, stabilityPool, price, liquidation, saved>>
    PROVE  IInv' /\ Len(TroveOwners') >= 1
<1>1. redeemable(b) /\ redemptionCloses(b) /\ internalCloseTrove(b, "closedByRedemption")
  BY DEF RedeemClose
<1>2. PICK rewards \in Amounts : rewards = appliedRewards(b)
  BY <1>1, LotType
<1>3. /\ rewards.ETH \in Nat /\ rewards.LUSDDebt \in Nat
      /\ rewards.ETH <= defaultPool.ETH /\ rewards.LUSDDebt <= defaultPool.LUSDDebt
  BY <1>1, <1>2 DEF Amounts, redeemable, covered
<1>4. PICK surplus \in Nat : surplus = redeemedColl(b) - ETHLot(b)
  BY <1>1, LotType
<1>5. TroveType' /\ SnapshotsBehind' /\ Len(TroveOwners') = Len(TroveOwners) - 1
      /\ Len(TroveOwners') >= 1
  BY <1>1, CloseTroveType DEF IInv, Status
<1>6. SystemType'
  BY DEF IInv, SystemType
<1>7. /\ activePool' = [ETH |-> activePool.ETH + rewards.ETH - surplus,
                        LUSDDebt |-> activePool.LUSDDebt + rewards.LUSDDebt - LUSD_GAS_COMPENSATION]
      /\ defaultPool' = [ETH |-> defaultPool.ETH - rewards.ETH,
                         LUSDDebt |-> defaultPool.LUSDDebt - rewards.LUSDDebt]
      /\ collSurplusPool' = [ETH |-> collSurplusPool.ETH + surplus,
                             balances |-> [collSurplusPool.balances EXCEPT ![b] = @ + surplus]]
  <2>1. /\ activePool' = minus(plus(activePool, rewards),
                              [ETH |-> surplus, LUSDDebt |-> LUSD_GAS_COMPENSATION])
        /\ defaultPool' = minus(defaultPool, rewards)
        /\ collSurplusPool' = [ETH |-> collSurplusPool.ETH + surplus,
                               balances |-> [collSurplusPool.balances EXCEPT ![b] = @ + surplus]]
    BY <1>2, <1>4 DEF RedeemClose
  <2>2. activePool.ETH \in Nat /\ activePool.LUSDDebt \in Nat /\ LUSD_GAS_COMPENSATION \in Nat
    BY ConstantTypes DEF IInv, PoolType, Amounts
  <2>. QED
    BY <1>3, <2>1, <2>2 DEF plus, minus
<1>8. lusd' = [totalSupply |-> lusd.totalSupply - LUSD_GAS_COMPENSATION, users |-> lusd.users,
               gasPool |-> lusd.gasPool - LUSD_GAS_COMPENSATION,
               stabilityPool |-> lusd.stabilityPool, lqtyStaking |-> lusd.lqtyStaking]
  BY DEF IInv, PoolType, LUSDBalances, RedeemClose, burnGasCompensation
<1>9. /\ LUSD_GAS_COMPENSATION \in Nat
      /\ lusd.gasPool >= LUSD_GAS_COMPENSATION /\ lusd.totalSupply >= LUSD_GAS_COMPENSATION
      /\ activePool.LUSDDebt + rewards.LUSDDebt >= LUSD_GAS_COMPENSATION
      /\ activePool.ETH + rewards.ETH >= surplus
  BY <1>1, <1>2, <1>4, ConstantTypes DEF redemptionCloses
<1>10. PoolType'
  <2>1. lusd' \in LUSDBalances
    BY <1>8, <1>9 DEF IInv, PoolType, LUSDBalances
  <2>2. activePool' \in Amounts /\ defaultPool' \in Amounts
    BY <1>3, <1>7, <1>9 DEF IInv, PoolType, Amounts
  <2>3. collSurplusPool' \in [ETH : Nat, balances : [Borrowers -> Nat]]
    BY <1>7 DEF IInv, PoolType
  <2>. QED
    BY <2>1, <2>2, <2>3 DEF IInv, PoolType
<1>11. SupplyBacked'
  BY <1>3, <1>7, <1>8, <1>9
  DEF IInv, PoolType, Amounts, LUSDBalances, SupplyBacked, getEntireSystemDebt
<1>12. LoopType' /\ InProgress'
  BY <1>1, LotTakenType DEF RedeemClose
<1>13. SavedOK'
  <2>1. Len(TroveOwners) \in Nat
    BY DEF IInv, TroveType
  <2>. QED
    BY <1>5, <2>1, RedemptionKeepsSaved
<1>. QED
  BY <1>5, <1>6, <1>10, <1>11, <1>12, <1>13 DEF IInv

\* The rewards of a trove are applied; its debt stays in the two pools.
LEMMA RewardsAppliedInv ==
    ASSUME IInv, NEW b \in Borrowers, redeemable(b),
           activePool' = plus(activePool, appliedRewards(b)),
           defaultPool' = minus(defaultPool, appliedRewards(b)),
           UNCHANGED <<collSurplusPool, stabilityPool, lusd>>
    PROVE  PoolType' /\ SupplyBacked'
<1>1. PICK rewards \in Amounts : rewards = appliedRewards(b)
  BY LotType
<1>2. /\ rewards.ETH \in Nat /\ rewards.LUSDDebt \in Nat
      /\ rewards.ETH <= defaultPool.ETH /\ rewards.LUSDDebt <= defaultPool.LUSDDebt
  BY <1>1 DEF Amounts, redeemable, covered
<1>3. /\ activePool' = [ETH |-> activePool.ETH + rewards.ETH,
                        LUSDDebt |-> activePool.LUSDDebt + rewards.LUSDDebt]
      /\ defaultPool' = [ETH |-> defaultPool.ETH - rewards.ETH,
                         LUSDDebt |-> defaultPool.LUSDDebt - rewards.LUSDDebt]
  BY <1>1 DEF plus, minus
<1>. QED
  BY <1>2, <1>3 DEF IInv, PoolType, Amounts, LUSDBalances, SupplyBacked, getEntireSystemDebt

\* A part of the debt of a trove is redeemed.
LEMMA RedeemPartlyInv ==
    ASSUME IInv, NEW b \in Borrowers, redemption.phase = "loop", ~redemptionLoopEnded,
           RedeemPartly(b),
           UNCHANGED <<systemSnapshot, L, lastError, baseRate, stabilityPool, price, liquidation, saved>>
    PROVE  IInv'
<1>1. redeemable(b)
  BY DEF RedeemPartly
<1>2. PICK newDebt \in Nat : newDebt = redeemedDebt(b) - LUSDLot(b)
  BY <1>1, LotType, ConstantTypes
<1>3. PICK newColl \in Nat : newColl = redeemedColl(b) - ETHLot(b)
  BY <1>1, LotType
<1>4. PICK stake \in Nat : stake = computeNewStake(newColl)
  BY <1>3, StakeType DEF IInv, RedeemPartly
<1>5. TroveType'
  <2>1. Troves' = [Troves EXCEPT ![b].debt = newDebt, ![b].coll = newColl, ![b].stake = stake]
    BY <1>2, <1>3, <1>4 DEF RedeemPartly
  <2>2. Troves' \in [Borrowers -> Trove]
    BY <2>1 DEF IInv, TroveType, Trove
  <2>3. TroveOwners' \in Seq(Borrowers) /\ sortedTroves' \in Seq(Borrowers)
    BY InsertType DEF IInv, TroveType, RedeemPartly
  <2>4. rewardSnapshots' \in [Borrowers -> Amounts]
    BY AppliedSnapshotsType DEF IInv, RedeemPartly
  <2>5. /\ totalStakes' = totalStakes - Troves[b].stake + stake /\ Troves[b].stake <= totalStakes
        /\ Troves[b].stake \in Nat
    BY <1>1, <1>3, <1>4, LotType DEF RedeemPartly, redeemable, stakeRemovable
  <2>6. totalStakes' \in Nat
    BY <2>5 DEF IInv, TroveType
  <2>. QED
    BY <2>2, <2>3, <2>4, <2>6 DEF TroveType
<1>6. SystemType'
  BY DEF IInv, SystemType
<1>7. SnapshotsBehind'
  BY AppliedSnapshotsType DEF IInv, RedeemPartly
<1>8. PoolType' /\ SupplyBacked'
  BY <1>1, RewardsAppliedInv DEF RedeemPartly
<1>9. LoopType' /\ InProgress'
  BY <1>1, LotTakenType DEF RedeemPartly
<1>10. SavedOK'
  <2>1. Len(TroveOwners) \in Nat /\ TroveOwners' = TroveOwners
    BY DEF IInv, TroveType, RedeemPartly
  <2>. QED
    BY <2>1, RedemptionKeepsSaved
<1>. QED
  BY <1>5, <1>6, <1>7, <1>8, <1>9, <1>10 DEF IInv

\* The partial redemption is cancelled, the rewards stay applied.
LEMMA CancelPartialInv ==
    ASSUME IInv, NEW b \in Borrowers, redemption.phase = "loop", CancelPartial(b),
           UNCHANGED <<systemSnapshot, L, lastError, baseRate, stabilityPool, price, liquidation, saved>>
    PROVE  IInv'
<1>1. redeemable(b)
  BY DEF CancelPartial
<1>2. TroveType'
  <2>1. Troves' = [Troves EXCEPT ![b].debt = redeemedDebt(b), ![b].coll = redeemedColl(b)]
    BY DEF CancelPartial
  <2>2. Troves' \in [Borrowers -> Trove]
    BY <1>1, <2>1, LotType DEF IInv, TroveType, Trove
  <2>3. rewardSnapshots' \in [Borrowers -> Amounts]
    BY AppliedSnapshotsType DEF IInv, CancelPartial
  <2>. QED
    BY <2>2, <2>3 DEF IInv, TroveType, CancelPartial
<1>3. SystemType'
  BY DEF IInv, SystemType
<1>4. SnapshotsBehind'
  BY AppliedSnapshotsType DEF IInv, CancelPartial
<1>5. PoolType' /\ SupplyBacked'
  BY <1>1, RewardsAppliedInv DEF CancelPartial
<1>6. LoopType' /\ InProgress'
  <2>1. redemption' = [redemption EXCEPT !.phase = "finish"] /\ liquidation.phase = "idle"
    BY DEF CancelPartial, IInv, InProgress
  <2>2. redemption' \in Redemption /\ redemption'.LUSDSupplyAtStart > 0
    BY <2>1 DEF IInv, LoopType, InProgress, Redemption
  <2>. QED
    BY <2>1, <2>2 DEF IInv, LoopType, InProgress
<1>7. SavedOK'
  <2>1. Len(TroveOwners) \in Nat /\ TroveOwners' = TroveOwners
    BY DEF IInv, TroveType, CancelPartial
  <2>. QED
    BY <2>1, RedemptionKeepsSaved
<1>. QED
  BY <1>2, <1>3, <1>4, <1>5, <1>6, <1>7 DEF IInv

\* An iteration of a redemption.
LEMMA RedeemStepInv ==
    ASSUME IInv, RedeemStep
    PROVE  IInv'
<1>1. redemption.phase = "loop" /\ ~redemptionLoopEnded
  BY DEF RedeemStep
<1>2. redemption.user \in Borrowers
  BY <1>1 DEF IInv, LoopType, Redemption, redemptionLoopEnded
<1>3. CASE RedeemClose(redemption.user)
  BY <1>1, <1>2, <1>3, RedeemCloseInv DEF RedeemStep
<1>4. CASE RedeemPartly(redemption.user)
  BY <1>1, <1>2, <1>4, RedeemPartlyInv DEF RedeemStep
<1>5. CASE CancelPartial(redemption.user)
  BY <1>1, <1>2, <1>5, CancelPartialInv DEF RedeemStep
<1>. QED
  BY <1>3, <1>4, <1>5 DEF RedeemStep

\* The base rate stays within 100%.
LEMMA NewBaseRateType ==
    ASSUME IInv, NEW decay \in DecayFactors, redemption.phase # "idle"
    PROVE  newBaseRate(decay) \in 0..DECIMAL_PRECISION
<1>1. PICK decayed \in Nat : decayed = (baseRate * decay) \div DECIMAL_PRECISION
  BY DecayedRate DEF IInv
<1>2. /\ redemption.LUSDSupplyAtStart \in Nat \ {0} /\ redemption.totalETHDrawn \in Nat
      /\ price \in Nat
  BY LiquityAssumption DEF IInv, LoopType, InProgress, Redemption, SystemType
<1>3. redemption.totalETHDrawn * price \in Nat
  BY <1>2, MulNat
<1>4. PICK part \in Nat : part = (redemption.totalETHDrawn * price) \div redemption.LUSDSupplyAtStart
  BY <1>2, <1>3, DivNat
<1>5. part \div BETA \in Nat
  BY DEF BETA
<1>6. newBaseRate(decay) = min(decayed + part \div BETA, DECIMAL_PRECISION)
  BY <1>1, <1>4 DEF newBaseRate
<1>. QED
  BY <1>5, <1>6, ConstantTypes DEF min

\* The end of a redemption burns as much LUSD as debt it cancels.
LEMMA FinishRedemptionInv ==
    ASSUME IInv, FinishRedemption
    PROVE  IInv'
<1>1. PICK decay \in DecayFactors : redemptionSucceeds(newBaseRate(decay)) /\ baseRate' = newBaseRate(decay)
  BY DEF FinishRedemption
<1>2. redemption.phase # "idle"
  BY RedemptionInProgress DEF FinishRedemption
<1>3. TroveType'
  BY DEF IInv, TroveType, FinishRedemption
<1>4. SystemType'
  BY <1>1, <1>2, NewBaseRateType DEF IInv, SystemType, FinishRedemption
<1>5. SnapshotsBehind'
  BY DEF IInv, SnapshotsBehind, FinishRedemption
<1>6. PICK redeemed \in Nat : redeemed = redemption.totalLUSDToRedeem
  BY DEF IInv, LoopType, Redemption
<1>7. PICK drawn \in Nat : drawn = redemption.totalETHDrawn
  BY DEF IInv, LoopType, Redemption
<1>8. /\ lusd.users >= redeemed /\ lusd.totalSupply >= redeemed
      /\ activePool.LUSDDebt >= redeemed /\ activePool.ETH >= drawn
  BY <1>1, <1>6, <1>7 DEF redemptionSucceeds, sufficientLUSDBalance
<1>9. activePool' = [ETH |-> activePool.ETH - drawn, LUSDDebt |-> activePool.LUSDDebt - redeemed]
  BY <1>6, <1>7 DEF FinishRedemption, minus
<1>10. lusd' = [totalSupply |-> lusd.totalSupply - redeemed, users |-> lusd.users - redeemed,
                gasPool |-> lusd.gasPool, stabilityPool |-> lusd.stabilityPool,
                lqtyStaking |-> lusd.lqtyStaking]
  BY <1>6 DEF FinishRedemption, IInv, PoolType, LUSDBalances
<1>11. PoolType'
  <2>1. lusd' \in LUSDBalances
    BY <1>8, <1>10 DEF IInv, PoolType, LUSDBalances
  <2>2. activePool' \in Amounts
    BY <1>8, <1>9 DEF IInv, PoolType, Amounts
  <2>. QED
    BY <2>1, <2>2 DEF IInv, PoolType, FinishRedemption
<1>12. SupplyBacked'
  <2>1. defaultPool' = defaultPool /\ stabilityPool' = stabilityPool
    BY DEF FinishRedemption
  <2>. QED
    BY <1>9, <1>10, <2>1
    DEF IInv, PoolType, Amounts, LUSDBalances, SupplyBacked, getEntireSystemDebt
<1>13. LoopType' /\ InProgress' /\ SavedOK'
  <2>1. redemption' = NoRedemption /\ liquidation' = liquidation /\ liquidation.phase = "idle"
    BY <1>2 DEF FinishRedemption, IInv, InProgress
  <2>. QED
    BY <2>1, NothingInProgress DEF IInv, LoopType, InProgress, SavedOK, idle
<1>. QED
  BY <1>3, <1>4, <1>5, <1>11, <1>12, <1>13 DEF IInv

\* A redemption that fails, in the loop or at its end.
LEMMA RedemptionFailsInv ==
    ASSUME IInv, RedeemStepFails \/ RedemptionFails
    PROVE  IInv' /\ Len(TroveOwners') >= Len(TroveOwners)
BY RedemptionInProgress, RevertInv DEF RedeemStepFails, RedemptionFails

--------------------------------------------------------------------------------
(***************************************************************************)
(* The theorems.                                                           *)
(***************************************************************************)

\* Every step of every actor preserves the invariant.
LEMMA InvNext == IInv /\ [Next]_vars => IInv'
<1>. SUFFICES ASSUME IInv, [Next]_vars PROVE IInv'
  OBVIOUS
<1>1. CASE BorrowerAction
  <2>1. PICK b \in Borrowers :
          \/ \E value \in Collaterals, loan \in Loans : openTrove(b, value, loan)
          \/ \E collChange \in CollChanges, debtChange \in DebtChanges :
                adjustTrove(b, collChange, debtChange)
          \/ \E gain \in ETHGains : withdrawETHGainToTrove(b, gain)
          \/ closeTrove(b)
          \/ claimCollateral(b)
    BY <1>1 DEF BorrowerAction
  <2>2. CASE \E value \in Collaterals, loan \in Loans : openTrove(b, value, loan)
    BY <2>2, OpenTroveInv
  <2>3. CASE \E collChange \in CollChanges, debtChange \in DebtChanges :
                adjustTrove(b, collChange, debtChange)
    <3>1. PICK collChange \in Int, debtChange \in Int : adjustTrove(b, collChange, debtChange)
      BY <2>3, LiquityAssumption
    <3>2. /\ stabilityPool' \in [ETH : Nat, totalLUSDDeposits : Nat]
          /\ stabilityPool'.totalLUSDDeposits = stabilityPool.totalLUSDDeposits
      BY <3>1 DEF IInv, PoolType, adjustTrove
    <3>. QED
      BY <3>1, <3>2, AdjustTroveInv DEF adjustTrove
  <2>4. CASE \E gain \in ETHGains : withdrawETHGainToTrove(b, gain)
    <3>1. PICK gain \in ETHGains : withdrawETHGainToTrove(b, gain)
      BY <2>4
    <3>2. gain \in Nat /\ gain <= stabilityPool.ETH
      BY DEF ETHGains, IInv, PoolType
    <3>3. /\ stabilityPool' \in [ETH : Nat, totalLUSDDeposits : Nat]
          /\ stabilityPool'.totalLUSDDeposits = stabilityPool.totalLUSDDeposits
      BY <3>1, <3>2 DEF IInv, PoolType, withdrawETHGainToTrove
    <3>. QED
      BY <3>1, <3>2, <3>3, AdjustTroveInv DEF withdrawETHGainToTrove
  <2>5. CASE closeTrove(b)
    BY <2>5, CloseTroveInv
  <2>6. CASE claimCollateral(b)
    BY <2>6, ClaimCollateralInv
  <2>. QED
    BY <2>1, <2>2, <2>3, <2>4, <2>5, <2>6
<1>2. CASE DepositorAction
  BY <1>2, ProvideToSPInv, WithdrawFromSPInv DEF DepositorAction
<1>3. CASE TransferAction
  <2>1. CASE \E amount \in Gifts : moveLUSD("users", "gasPool", amount)
    <3>1. PICK amount \in Nat : moveLUSD("users", "gasPool", amount)
      BY <2>1, LiquityAssumption
    <3>. QED
      BY <3>1, MoveLUSDInv
  <2>2. CASE moveLUSD("lqtyStaking", "users", lusd.lqtyStaking)
    <3>1. lusd.lqtyStaking \in Nat
      BY DEF IInv, PoolType, LUSDBalances
    <3>. QED
      BY <2>2, <3>1, MoveLUSDInv
  <2>. QED
    BY <1>3, <2>1, <2>2 DEF TransferAction
<1>4. CASE LiquidatorAction
  <2>1. CASE \E b \in Borrowers : liquidate(b)
    <3>1. PICK b \in Borrowers : batchLiquidateTroves(<<b>>)
      BY <2>1 DEF liquidate
    <3>2. <<b>> \in Seq(Borrowers)
      OBVIOUS
    <3>. QED
      BY <3>1, <3>2, BatchLiquidateTrovesInv
  <2>2. CASE \E troveArray \in Batches : batchLiquidateTroves(troveArray)
    BY <2>2, BatchLiquidateTrovesInv, LiquityAssumption
  <2>3. CASE \E n \in SequenceLengths : liquidateTroves(n)
    BY <2>3, LiquidateTrovesInv, LiquityAssumption
  <2>. QED
    BY <1>4, <2>1, <2>2, <2>3 DEF LiquidatorAction
<1>5. CASE RedeemerAction
  BY <1>5, RedeemCollateralInv, LiquityAssumption DEF RedeemerAction
<1>6. CASE PriceAction
  BY <1>6, ChangePriceInv DEF PriceAction
<1>7. CASE LiquidationStep
  BY <1>7, LiquidateTrovesStepInv, BatchLiquidateStepInv, FinishLiquidationInv, LiquidationFailsInv
  DEF LiquidationStep
<1>8. CASE RedemptionStep
  BY <1>8, RedeemStepInv, FinishRedemptionInv, RedemptionFailsInv DEF RedemptionStep
<1>9. CASE UNCHANGED vars
  <2>1. UNCHANGED <<storage, price, liquidation, redemption, saved>>
    BY <1>9 DEF vars
  <2>2. LoopType' /\ InProgress' /\ SavedOK'
    BY <2>1 DEF IInv, LoopType, InProgress, SavedOK, SavedType, SavedBacked, SavedBehind, idle, storage
  <2>. QED
    BY <2>1, <2>2, SameStorage DEF IInv
<1>. QED
  BY <1>1, <1>2, <1>3, <1>4, <1>5, <1>6, <1>7, <1>8, <1>9 DEF Next

\* The invariant holds in every reachable state.
THEOREM Invariance == Spec => []IInv
BY InvInit, InvNext, PTL DEF Spec

\* No subtraction of the code's unsigned integers goes below zero and no
\* transaction in progress is left with values it cannot have.
THEOREM TypeCorrect == Spec => []TypeOK
<1>1. IInv => TypeOK
  BY DEF IInv, TypeOK, TroveType, SystemType, PoolType, LoopType, LUSDBalances
<1>. QED
  BY <1>1, Invariance, PTL

\* Every LUSD is backed by the debt of some trove, between the iterations of a
\* liquidation or a redemption and after one that fails too.
THEOREM SupplyAlwaysBacked == Spec => []SupplyBacked
<1>1. IInv => SupplyBacked
  BY DEF IInv
<1>. QED
  BY <1>1, Invariance, PTL

\* A transaction that changes the collateral and the debt of the system by
\* amounts for which newTCR is at least the CCR leaves it in normal mode.
LEMMA NewTCRKeepsMode ==
    ASSUME IInv', price' = price, NEW coll \in Int, NEW debt \in Int,
           getEntireSystemColl' = getEntireSystemColl + coll,
           getEntireSystemDebt' = getEntireSystemDebt + debt,
           newTCR(coll, debt) >= CCR
    PROVE  ~checkRecoveryMode'
<1>1. getEntireSystemColl' \in Nat /\ getEntireSystemDebt' \in Nat /\ price' \in Nat
  <2>1. getEntireSystemColl' \in Nat /\ getEntireSystemDebt' \in Nat
    BY DEF IInv, PoolType, Amounts, getEntireSystemColl, getEntireSystemDebt
  <2>2. price' \in Nat
    BY LiquityAssumption DEF IInv, SystemType
  <2>. QED
    BY <2>1, <2>2
<1>2. getTCR' = newTCR(coll, debt)
  BY DEF getTCR, newTCR
<1>3. getTCR' \in Nat
  <2>1. getEntireSystemColl' * price' \in Nat
    BY <1>1, MulNat
  <2>. QED
    BY <1>1, <2>1, DivNat, LiquityBaseAssumption DEF getTCR, computeCR
<1>. QED
  BY <1>2, <1>3, ConstantTypes DEF checkRecoveryMode

\* A transaction that leaves the pools of the troves alone keeps the mode.
LEMMA SamePoolsKeepMode ==
    ASSUME UNCHANGED <<activePool, defaultPool, price>>, ~checkRecoveryMode
    PROVE  ~checkRecoveryMode'
BY DEF checkRecoveryMode, getTCR, getEntireSystemColl, getEntireSystemDebt

\* openTrove checks the TCR that it brings about.
LEMMA OpenTroveKeepsMode ==
    ASSUME IInv, IInv', NEW b \in Borrowers, NEW value \in Nat, NEW loan \in Nat,
           openTrove(b, value, loan), ~checkRecoveryMode
    PROVE  ~checkRecoveryMode'
<1>1. PICK rate \in borrowingRates : openTroveAtRate(b, value, loan, rate)
  BY DEF openTrove
<1>2. rate \in Nat
  BY BorrowingRate DEF IInv
<1>3. PICK fee \in Nat : fee = borrowingFee(rate, loan)
  BY <1>2, FeeType
<1>4. PICK debt \in Nat : debt = getCompositeDebt(loan + fee)
  BY ConstantTypes DEF getCompositeDebt
<1>5. /\ newTCR(value, debt) >= CCR /\ price' = price /\ defaultPool' = defaultPool
      /\ activePool' = plus(activePool, [ETH |-> value, LUSDDebt |-> debt])
  BY <1>1, <1>3, <1>4 DEF openTroveAtRate, openTroveAllowed
<1>6. /\ getEntireSystemColl' = getEntireSystemColl + value
      /\ getEntireSystemDebt' = getEntireSystemDebt + debt
  BY <1>5 DEF IInv, PoolType, Amounts, plus, getEntireSystemColl, getEntireSystemDebt
<1>. QED
  BY <1>5, <1>6, NewTCRKeepsMode

\* So does _adjustTrove: the rewards it applies only move between the two pools.
LEMMA AdjustTroveKeepsMode ==
    ASSUME IInv, IInv', NEW b \in Borrowers, NEW collChange \in Int, NEW LUSDChange \in Int,
           adjustTroveBy(b, collChange, LUSDChange), ~checkRecoveryMode
    PROVE  ~checkRecoveryMode'
<1>1. PICK rate \in IF LUSDChange > 0 THEN borrowingRates ELSE {baseRate} :
         adjustTroveAtRate(b, collChange, LUSDChange, rate)
  BY DEF adjustTroveBy
<1>2. LUSDChange > 0 => rate \in Nat
  BY <1>1, BorrowingRate DEF IInv
<1>3. PICK fee \in Nat : fee = IF LUSDChange > 0 THEN borrowingFee(rate, LUSDChange) ELSE 0
  BY <1>2, FeeType
<1>4. PICK rewards \in Amounts : rewards = appliedRewards(b)
  BY PendingRewardsType DEF IInv
<1>5. PICK change \in Int : change = LUSDChange + fee
  OBVIOUS
<1>6. newTCR(collChange, change) >= CCR /\ price' = price
  BY <1>1, <1>3, <1>5 DEF adjustTroveAtRate, adjustTroveAllowed, validAdjustmentInCurrentMode
<1>7. /\ activePool' = plus(plus(activePool, rewards), [ETH |-> collChange, LUSDDebt |-> change])
      /\ defaultPool' = minus(defaultPool, rewards)
  BY <1>1, <1>3, <1>4, <1>5 DEF adjustTroveAtRate, adjustTroveAllowed
<1>8. /\ getEntireSystemColl' = getEntireSystemColl + collChange
      /\ getEntireSystemDebt' = getEntireSystemDebt + change
  <2>1. /\ activePool.ETH \in Nat /\ activePool.LUSDDebt \in Nat
        /\ defaultPool.ETH \in Nat /\ defaultPool.LUSDDebt \in Nat
        /\ rewards.ETH \in Nat /\ rewards.LUSDDebt \in Nat
    BY DEF IInv, PoolType, Amounts
  <2>. QED
    BY <1>7, <2>1 DEF plus, minus, getEntireSystemColl, getEntireSystemDebt
<1>. QED
  BY <1>6, <1>8, NewTCRKeepsMode

\* So does closeTrove.
LEMMA CloseTroveKeepsMode ==
    ASSUME IInv, IInv', NEW b \in Borrowers, closeTrove(b), ~checkRecoveryMode
    PROVE  ~checkRecoveryMode'
<1>1. PICK rewards \in Amounts : rewards = appliedRewards(b)
  BY PendingRewardsType DEF IInv
<1>2. PICK coll \in Nat : coll = Troves[b].coll + rewards.ETH
  BY SMTT(30) DEF IInv, TroveType, Trove, Amounts
<1>3. PICK debt \in Nat : debt = Troves[b].debt + rewards.LUSDDebt
  BY SMTT(30) DEF IInv, TroveType, Trove, Amounts
<1>4. /\ newTCR(-coll, -debt) >= CCR /\ price' = price
      /\ activePool' = minus(plus(activePool, rewards), [ETH |-> coll, LUSDDebt |-> debt])
      /\ defaultPool' = minus(defaultPool, rewards)
  BY <1>1, <1>2, <1>3 DEF closeTrove
<1>5. /\ getEntireSystemColl' = getEntireSystemColl + (-coll)
      /\ getEntireSystemDebt' = getEntireSystemDebt + (-debt)
  <2>1. /\ activePool.ETH \in Nat /\ activePool.LUSDDebt \in Nat
        /\ defaultPool.ETH \in Nat /\ defaultPool.LUSDDebt \in Nat
        /\ rewards.ETH \in Nat /\ rewards.LUSDDebt \in Nat
    BY DEF IInv, PoolType, Amounts
  <2>. QED
    BY <1>4, <2>1 DEF plus, minus, getEntireSystemColl, getEntireSystemDebt
<1>6. -coll \in Int /\ -debt \in Int
  OBVIOUS
<1>. QED
  BY <1>4, <1>5, <1>6, NewTCRKeepsMode

\* No transaction of a borrower or a depositor takes the system from normal mode
\* to recovery mode while the price stands still.
THEOREM NormalMode == Spec => NormalModeKept
<1>1. IInv /\ IInv' /\ [Next]_vars =>
        [idle /\ idle' /\ price' = price /\ ~checkRecoveryMode => ~checkRecoveryMode']_vars
  <2>. SUFFICES ASSUME IInv, IInv', Next, idle, idle', price' = price, ~checkRecoveryMode
                PROVE  ~checkRecoveryMode'
    OBVIOUS
  <2>1. CASE BorrowerAction
    <3>1. PICK b \in Borrowers :
            \/ \E value \in Collaterals, loan \in Loans : openTrove(b, value, loan)
            \/ \E collChange \in CollChanges, debtChange \in DebtChanges :
                  adjustTrove(b, collChange, debtChange)
            \/ \E gain \in ETHGains : withdrawETHGainToTrove(b, gain)
            \/ closeTrove(b)
            \/ claimCollateral(b)
      BY <2>1 DEF BorrowerAction
    <3>2. CASE \E value \in Collaterals, loan \in Loans : openTrove(b, value, loan)
      BY <3>2, OpenTroveKeepsMode, LiquityAssumption
    <3>3. CASE \E collChange \in CollChanges, debtChange \in DebtChanges :
                  adjustTrove(b, collChange, debtChange)
      BY <3>3, AdjustTroveKeepsMode, LiquityAssumption DEF adjustTrove
    <3>4. CASE \E gain \in ETHGains : withdrawETHGainToTrove(b, gain)
      BY <3>4, AdjustTroveKeepsMode DEF withdrawETHGainToTrove, ETHGains, IInv, PoolType
    <3>5. CASE closeTrove(b)
      BY <3>5, CloseTroveKeepsMode
    <3>6. CASE claimCollateral(b)
      BY <3>6, SamePoolsKeepMode DEF claimCollateral
    <3>. QED
      BY <3>1, <3>2, <3>3, <3>4, <3>5, <3>6
  <2>2. CASE DepositorAction
    BY <2>2, SamePoolsKeepMode DEF DepositorAction, provideToSP, withdrawFromSP
  <2>3. CASE TransferAction
    BY <2>3, SamePoolsKeepMode DEF TransferAction, moveLUSD
  <2>4. CASE LiquidatorAction
    BY <2>4, SamePoolsKeepMode
    DEF LiquidatorAction, liquidate, batchLiquidateTroves, liquidateTroves, startLiquidation, storage
  <2>5. CASE RedeemerAction
    BY <2>5, SamePoolsKeepMode DEF RedeemerAction, redeemCollateral, storage
  <2>6. CASE PriceAction
    BY <2>6 DEF PriceAction, changePrice
  <2>7. CASE LiquidationStep
    BY <2>7
    DEF LiquidationStep, LiquidateTrovesStep, BatchLiquidateStep, FinishLiquidation,
        LiquidationFails, liquidationLoopEnded, idle
  <2>8. CASE RedemptionStep
    BY <2>8
    DEF RedemptionStep, RedeemStep, RedeemStepFails, FinishRedemption, RedemptionFails,
        redemptionLoopEnded, idle
  <2>. QED
    BY <2>1, <2>2, <2>3, <2>4, <2>5, <2>6, <2>7, <2>8 DEF Next
<1>. QED
  BY <1>1, Invariance, PTL DEF Spec, NormalModeKept

\* The number of troves after an iteration of a liquidation.
LEMMA IterationKeepsOne ==
    ASSUME IInv, NEW b \in Borrowers \union {Null}, NEW step, NEW stopped,
           liquidationIteration(b, step, stopped)
    PROVE  TroveOwners' = TroveOwners \/ Len(TroveOwners') >= 1
<1>1. CASE UNCHANGED <<storage, price, redemption, saved>>
  BY <1>1 DEF storage
<1>2. CASE \E values : liquidateOne(b, values, step)
  <2>1. b \in Borrowers
    BY <1>2, ListMember DEF liquidateOne, closable, IInv
  <2>2. internalCloseTrove(b, "closedByLiquidation") /\ L' = L
    BY <1>2 DEF liquidateOne
  <2>. QED
    BY <2>1, <2>2, CloseTroveType DEF IInv, Status
<1>. QED
  BY <1>1, <1>2 DEF liquidationIteration

\* Once there is a trove there always is one: a liquidation or a redemption that
\* would close the last one stops or is undone.
THEOREM LastTrove == Spec => LastTroveStays
<1>1. IInv /\ [Next]_vars => [Len(TroveOwners) >= 1 => Len(TroveOwners') >= 1]_vars
  <2>. SUFFICES ASSUME IInv, Next, Len(TroveOwners) >= 1 PROVE Len(TroveOwners') >= 1
    OBVIOUS
  <2>. /\ TroveOwners \in Seq(Borrowers) /\ Len(TroveOwners) \in Nat
    BY DEF IInv, TroveType
  <2>1. CASE BorrowerAction
    <3>1. PICK b \in Borrowers :
            \/ \E value \in Collaterals, loan \in Loans : openTrove(b, value, loan)
            \/ \E collChange \in CollChanges, debtChange \in DebtChanges :
                  adjustTrove(b, collChange, debtChange)
            \/ \E gain \in ETHGains : withdrawETHGainToTrove(b, gain)
            \/ closeTrove(b)
            \/ claimCollateral(b)
      BY <2>1 DEF BorrowerAction
    <3>2. CASE \E value \in Collaterals, loan \in Loans : openTrove(b, value, loan)
      <4>1. TroveOwners' = Append(TroveOwners, b)
        BY <3>2 DEF openTrove, openTroveAtRate, openTroveAllowed
      <4>. QED
        BY <4>1
    <3>3. CASE \E collChange \in CollChanges, debtChange \in DebtChanges :
                  adjustTrove(b, collChange, debtChange)
      BY <3>3 DEF adjustTrove, adjustTroveBy, adjustTroveAtRate, adjustTroveAllowed
    <3>4. CASE \E gain \in ETHGains : withdrawETHGainToTrove(b, gain)
      BY <3>4 DEF withdrawETHGainToTrove, adjustTroveBy, adjustTroveAtRate, adjustTroveAllowed
    <3>5. CASE closeTrove(b)
      BY <3>5, CloseTroveType DEF closeTrove, IInv, Status
    <3>6. CASE claimCollateral(b)
      BY <3>6 DEF claimCollateral
    <3>. QED
      BY <3>1, <3>2, <3>3, <3>4, <3>5, <3>6
  <2>2. CASE DepositorAction \/ TransferAction
    BY <2>2 DEF DepositorAction, provideToSP, withdrawFromSP, TransferAction, moveLUSD
  <2>3. CASE LiquidatorAction \/ RedeemerAction \/ PriceAction
    BY <2>3
    DEF LiquidatorAction, liquidate, batchLiquidateTroves, liquidateTroves, startLiquidation,
        RedeemerAction, redeemCollateral, PriceAction, changePrice, storage
  <2>4. CASE LiquidationStep
    <3>1. CASE LiquidateTrovesStep
      BY <3>1, IterationKeepsOne DEF LiquidateTrovesStep, IInv, LoopType, Liquidation
    <3>2. CASE BatchLiquidateStep
      <4>1. Head(liquidation.todo) \in Borrowers
        BY <3>2 DEF BatchLiquidateStep, IInv, LoopType, Liquidation
      <4>. QED
        BY <3>2, <4>1, IterationKeepsOne DEF BatchLiquidateStep, storage
    <3>3. CASE FinishLiquidation
      BY <3>3 DEF FinishLiquidation
    <3>4. CASE LiquidationFails
      <4>1. Len(TroveOwners') \in Nat /\ Len(TroveOwners') >= Len(TroveOwners)
        BY <3>4, LiquidationInProgress, RevertInv DEF LiquidationFails, IInv, TroveType
      <4>. QED
        BY <4>1
    <3>. QED
      BY <2>4, <3>1, <3>2, <3>3, <3>4 DEF LiquidationStep
  <2>5. CASE RedemptionStep
    <3>1. CASE RedeemStep
      <4>1. redemption.phase = "loop" /\ ~redemptionLoopEnded /\ redemption.user \in Borrowers
        BY <3>1 DEF RedeemStep, IInv, LoopType, Redemption, redemptionLoopEnded
      <4>2. CASE RedeemClose(redemption.user)
        BY <3>1, <4>1, <4>2, RedeemCloseInv DEF RedeemStep
      <4>3. CASE RedeemPartly(redemption.user) \/ CancelPartial(redemption.user)
        BY <4>3 DEF RedeemPartly, CancelPartial
      <4>. QED
        BY <3>1, <4>2, <4>3 DEF RedeemStep
    <3>2. CASE RedeemStepFails \/ RedemptionFails
      <4>1. Len(TroveOwners') \in Nat /\ Len(TroveOwners') >= Len(TroveOwners)
        BY <3>2, RedemptionFailsInv DEF IInv, TroveType
      <4>. QED
        BY <4>1
    <3>3. CASE FinishRedemption
      BY <3>3 DEF FinishRedemption
    <3>. QED
      BY <2>5, <3>1, <3>2, <3>3 DEF RedemptionStep
  <2>. QED
    BY <2>1, <2>2, <2>3, <2>4, <2>5 DEF Next
<1>. QED
  BY <1>1, Invariance, PTL DEF Spec, LastTroveStays

--------------------------------------------------------------------------------
(***************************************************************************)
(* The three records of which troves exist: status, array and list.        *)
(***************************************************************************)

\* What RemoveAt and InsertAt put where.
LEMMA RemoveAtElements ==
    ASSUME NEW S, NEW s \in Seq(S), NEW p \in 1..Len(s)
    PROVE  /\ RemoveAt(s, p) \in Seq(S) /\ Len(RemoveAt(s, p)) = Len(s) - 1
           /\ \A j \in 1..(Len(s) - 1) : RemoveAt(s, p)[j] = IF j < p THEN s[j] ELSE s[j + 1]
<1>1. PICK u, v : u = SubSeq(s, 1, p - 1) /\ v = SubSeq(s, p + 1, Len(s))
  OBVIOUS
<1>2. /\ u \in Seq(S) /\ Len(u) = p - 1 /\ \A j \in 1..(p - 1) : u[j] = s[j]
      /\ v \in Seq(S) /\ Len(v) = Len(s) - p /\ \A j \in 1..(Len(s) - p) : v[j] = s[p + j]
  BY <1>1
<1>3. RemoveAt(s, p) = u \o v
  BY <1>1 DEF RemoveAt
<1>4. u \o v \in Seq(S) /\ Len(u \o v) = Len(s) - 1
  BY <1>2
<1>5. ASSUME NEW j \in 1..(Len(s) - 1)
      PROVE  (u \o v)[j] = IF j < p THEN s[j] ELSE s[j + 1]
  <2>1. CASE j < p
    BY <1>2, <2>1
  <2>2. CASE ~(j < p)
    <3>1. j - (p - 1) \in 1..(Len(s) - p) /\ p + (j - (p - 1)) = j + 1
      BY <2>2
    <3>2. (u \o v)[j] = v[j - (p - 1)]
      BY <1>2, <2>2
    <3>. QED
      BY <1>2, <2>2, <3>1, <3>2
  <2>. QED
    BY <2>1, <2>2
<1>. QED
  BY <1>3, <1>4, <1>5

\* What InsertAt returns, element by element.
LEMMA InsertAtElements ==
    ASSUME NEW S, NEW s \in Seq(S), NEW k \in 1..(Len(s) + 1), NEW e \in S
    PROVE  /\ InsertAt(s, k, e) \in Seq(S) /\ Len(InsertAt(s, k, e)) = Len(s) + 1
           /\ \A j \in 1..(Len(s) + 1) :
                 InsertAt(s, k, e)[j] = IF j < k THEN s[j] ELSE IF j = k THEN e ELSE s[j - 1]
<1>1. PICK u, v : u = SubSeq(s, 1, k - 1) \o <<e>> /\ v = SubSeq(s, k, Len(s))
  OBVIOUS
<1>2. /\ u \in Seq(S) /\ Len(u) = k /\ (\A j \in 1..(k - 1) : u[j] = s[j]) /\ u[k] = e
      /\ v \in Seq(S) /\ Len(v) = Len(s) + 1 - k
      /\ \A j \in 1..(Len(s) + 1 - k) : v[j] = s[k + j - 1]
  BY <1>1
<1>3. InsertAt(s, k, e) = u \o v
  BY <1>1 DEF InsertAt
<1>4. u \o v \in Seq(S) /\ Len(u \o v) = Len(s) + 1
  BY <1>2
<1>5. ASSUME NEW j \in 1..(Len(s) + 1)
      PROVE  (u \o v)[j] = IF j < k THEN s[j] ELSE IF j = k THEN e ELSE s[j - 1]
  <2>1. CASE j < k
    BY <1>2, <2>1, SMTT(30)
  <2>2. CASE j = k
    BY <1>2, <2>2
  <2>3. CASE ~(j < k) /\ j # k
    <3>1. j - k \in 1..(Len(s) + 1 - k) /\ k + (j - k) - 1 = j - 1
      BY <2>3
    <3>2. (u \o v)[j] = v[j - k]
      BY <1>2, <2>3
    <3>. QED
      BY <1>2, <2>3, <3>1, <3>2
  <2>. QED
    BY <2>1, <2>2, <2>3
<1>. QED
  BY <1>3, <1>4, <1>5

\* A sequence without repetitions, of exactly the elements of a set.
Lists(s, S) ==
    /\ \A i \in 1..Len(s) : s[i] \in S
    /\ \A x \in S : \E i \in 1..Len(s) : s[i] = x
    /\ \A i, j \in 1..Len(s) : s[i] = s[j] => i = j

\* Without its p-th element, a list of A lists the rest of A.
LEMMA ListsRemoved ==
    ASSUME NEW S, NEW s \in Seq(S), NEW A, NEW p \in 1..Len(s), Lists(s, A)
    PROVE  Lists(RemoveAt(s, p), A \ {s[p]})
<1>1. PICK r, n : r = RemoveAt(s, p) /\ n = Len(s) /\ n \in Nat
  OBVIOUS
<1>2. /\ Len(r) = n - 1
      /\ \A j \in 1..(n - 1) : r[j] = IF j < p THEN s[j] ELSE s[j + 1]
  BY <1>1, RemoveAtElements
<1>3. ASSUME NEW i \in 1..(n - 1) PROVE r[i] \in A \ {s[p]}
  BY <1>1, <1>2 DEF Lists
<1>4. ASSUME NEW x \in A \ {s[p]} PROVE \E i \in 1..(n - 1) : r[i] = x
  <2>1. PICK i \in 1..n : s[i] = x
    BY <1>1 DEF Lists
  <2>2. CASE i < p
    BY <1>1, <1>2, <2>1, <2>2
  <2>3. CASE i > p
    <3>1. i - 1 \in 1..(n - 1) /\ ~(i - 1 < p) /\ (i - 1) + 1 = i
      BY <1>1, <2>3
    <3>. QED
      BY <1>2, <2>1, <3>1
  <2>. QED
    BY <2>1, <2>2, <2>3
<1>5. ASSUME NEW i \in 1..(n - 1), NEW j \in 1..(n - 1), r[i] = r[j] PROVE i = j
  <2>1. PICK k \in 1..n : k = IF i < p THEN i ELSE i + 1
    BY <1>1
  <2>2. PICK l \in 1..n : l = IF j < p THEN j ELSE j + 1
    BY <1>1
  <2>3. s[k] = s[l]
    BY <1>2, <1>5, <2>1, <2>2
  <2>4. k = l
    BY <1>1, <2>3 DEF Lists
  <2>. QED
    BY <2>1, <2>2, <2>4
<1>. QED
  BY <1>1, <1>2, <1>3, <1>4, <1>5 DEF Lists

\* With a new element, a list of A lists that element too.
LEMMA ListsInserted ==
    ASSUME NEW S, NEW s \in Seq(S), NEW A, NEW k \in 1..(Len(s) + 1), NEW e \in S, e \notin A,
           Lists(s, A)
    PROVE  Lists(InsertAt(s, k, e), A \union {e})
<1>1. PICK r, n : r = InsertAt(s, k, e) /\ n = Len(s) /\ n \in Nat
  OBVIOUS
<1>2. /\ Len(r) = n + 1
      /\ \A j \in 1..(n + 1) : r[j] = IF j < k THEN s[j] ELSE IF j = k THEN e ELSE s[j - 1]
  <2>1. /\ InsertAt(s, k, e) \in Seq(S) /\ Len(InsertAt(s, k, e)) = Len(s) + 1
        /\ \A j \in 1..(Len(s) + 1) :
              InsertAt(s, k, e)[j] = IF j < k THEN s[j] ELSE IF j = k THEN e ELSE s[j - 1]
    BY InsertAtElements, SMTT(60)
  <2>. QED
    BY <1>1, <2>1
<1>3. ASSUME NEW i \in 1..(n + 1) PROVE r[i] \in A \union {e} /\ (i # k => r[i] \in A)
  <2>1. CASE i < k
    BY <1>1, <1>2, <2>1 DEF Lists
  <2>2. CASE i = k
    BY <1>1, <1>2, <2>2
  <2>3. CASE i > k
    <3>1. i - 1 \in 1..n
      BY <1>1, <2>3
    <3>. QED
      BY <1>1, <1>2, <2>3, <3>1 DEF Lists
  <2>. QED
    BY <1>1, <2>1, <2>2, <2>3
<1>4. ASSUME NEW x \in A \union {e} PROVE \E i \in 1..(n + 1) : r[i] = x
  <2>1. CASE x = e
    BY <1>1, <1>2, <2>1
  <2>2. CASE x \in A
    <3>1. PICK i \in 1..n : s[i] = x
      BY <1>1, <2>2 DEF Lists
    <3>2. CASE i < k
      BY <1>1, <1>2, <3>1, <3>2
    <3>3. CASE i >= k
      <4>1. i + 1 \in 1..(n + 1) /\ ~(i + 1 < k) /\ i + 1 # k /\ (i + 1) - 1 = i
        BY <1>1, <3>3
      <4>. QED
        BY <1>2, <3>1, <4>1
    <3>. QED
      BY <1>1, <3>2, <3>3
  <2>. QED
    BY <2>1, <2>2
<1>5. ASSUME NEW i \in 1..(n + 1), NEW j \in 1..(n + 1), r[i] = r[j] PROVE i = j
  <2>1. r[k] = e
    BY <1>1, <1>2
  <2>2. CASE i = k \/ j = k
    BY <1>1, <1>3, <1>5, <2>1, <2>2
  <2>3. CASE i # k /\ j # k
    <3>1. PICK u \in 1..n : u = IF i < k THEN i ELSE i - 1
      BY <1>1, <2>3
    <3>2. PICK v \in 1..n : v = IF j < k THEN j ELSE j - 1
      BY <1>1, <2>3
    <3>3. s[u] = s[v]
      BY <1>2, <1>5, <2>3, <3>1, <3>2
    <3>4. u = v
      BY <1>1, <3>3 DEF Lists
    <3>. QED
      BY <1>1, <2>3, <3>1, <3>2, <3>4
  <2>. QED
    BY <2>2, <2>3
<1>. QED
  BY <1>1, <1>2, <1>3, <1>4, <1>5 DEF Lists

ActiveIn(T) == {b \in Borrowers : T[b].status = "active"}

\* Each active trove is in the array at its index, and nothing else is.
Indexed(T, owners) ==
    /\ \A b \in ActiveIn(T) : T[b].arrayIndex < Len(owners) /\ owners[T[b].arrayIndex + 1] = b
    /\ \A i \in 1..Len(owners) : owners[i] \in ActiveIn(T) /\ T[owners[i]].arrayIndex = i - 1

Recorded(T, owners, list) ==
    Indexed(T, owners) /\ Lists(list, ActiveIn(T)) /\ Len(list) = Len(owners)

\* The records agree, and so do those a failing transaction returns to.
OInv ==
    /\ Recorded(Troves, TroveOwners, sortedTroves)
    /\ ~idle => Recorded(saved[1].Troves, saved[1].TroveOwners, saved[1].sortedTroves)

\* openTrove appends to the array and inserts into the list.
LEMMA OpenRecorded ==
    ASSUME IInv, IInv', Recorded(Troves, TroveOwners, sortedTroves), NEW b \in Borrowers,
           ~isActive(b), NEW k \in 1..(Len(sortedTroves) + 1),
           \A y \in Borrowers : y # b => Troves'[y] = Troves[y],
           Troves'[b].status = "active", Troves'[b].arrayIndex = Len(TroveOwners),
           TroveOwners' = Append(TroveOwners, b),
           sortedTroves' = InsertAt(sortedTroves, k, b)
    PROVE  Recorded(Troves', TroveOwners', sortedTroves')
<1>1. /\ TroveOwners \in Seq(Borrowers) /\ sortedTroves \in Seq(Borrowers)
      /\ Troves \in [Borrowers -> Trove] /\ Troves' \in [Borrowers -> Trove]
  BY DEF IInv, TroveType
<1>2. ActiveIn(Troves') = ActiveIn(Troves) \union {b} /\ b \notin ActiveIn(Troves)
  BY DEF ActiveIn, isActive
<1>3. PICK n \in Nat : n = Len(TroveOwners)
  BY <1>1
<1>4. /\ Len(TroveOwners') = n + 1 /\ TroveOwners'[n + 1] = b
      /\ \A i \in 1..n : TroveOwners'[i] = TroveOwners[i]
  BY <1>1, <1>3
<1>5. ASSUME NEW y \in ActiveIn(Troves')
      PROVE  Troves'[y].arrayIndex < n + 1 /\ TroveOwners'[Troves'[y].arrayIndex + 1] = y
  <2>1. CASE y = b
    BY <1>3, <1>4, <2>1
  <2>2. CASE y # b
    <3>1. y \in ActiveIn(Troves) /\ Troves'[y].arrayIndex = Troves[y].arrayIndex
          /\ Troves[y].arrayIndex \in Nat
      BY <1>1, <1>2, <2>2 DEF ActiveIn, Trove
    <3>2. Troves[y].arrayIndex < n /\ TroveOwners[Troves[y].arrayIndex + 1] = y
      BY <1>3, <3>1 DEF Recorded, Indexed
    <3>. QED
      BY <1>4, <3>1, <3>2
  <2>. QED
    BY <2>1, <2>2
<1>6. ASSUME NEW i \in 1..(n + 1)
      PROVE  TroveOwners'[i] \in ActiveIn(Troves') /\ Troves'[TroveOwners'[i]].arrayIndex = i - 1
  <2>1. CASE i = n + 1
    BY <1>2, <1>3, <1>4, <2>1
  <2>2. CASE i # n + 1
    <3>1. i \in 1..n
      BY <2>2
    <3>2. TroveOwners[i] \in ActiveIn(Troves) /\ Troves[TroveOwners[i]].arrayIndex = i - 1
      BY <1>3, <3>1 DEF Recorded, Indexed
    <3>3. TroveOwners[i] # b /\ TroveOwners[i] \in Borrowers
      BY <1>2, <3>2 DEF ActiveIn
    <3>. QED
      BY <1>2, <1>4, <3>1, <3>2, <3>3
  <2>. QED
    BY <2>1, <2>2
<1>7. Lists(sortedTroves', ActiveIn(Troves'))
  BY <1>1, <1>2, ListsInserted DEF Recorded
<1>8. Len(sortedTroves') = n + 1
  BY <1>1, <1>3, InsertAtElements DEF Recorded
<1>. QED
  BY <1>4, <1>5, <1>6, <1>7, <1>8 DEF Recorded, Indexed

\* Where b is in the list.
LEMMA PositionOf ==
    ASSUME IInv, NEW b, contains(b)
    PROVE  position(b) \in 1..Len(sortedTroves) /\ sortedTroves[position(b)] = b
<1>1. position(b) \in DOMAIN sortedTroves /\ sortedTroves[position(b)] = b
  BY DEF contains, position
<1>. QED
  BY <1>1 DEF IInv, TroveType

\* A trove whose ratio changes is put back into the list elsewhere.
LEMMA ReInsertRecorded ==
    ASSUME IInv, IInv', Recorded(Troves, TroveOwners, sortedTroves), NEW b \in Borrowers, NEW NICR,
           reInsert(b, NICR), TroveOwners' = TroveOwners,
           \A y \in Borrowers : /\ Troves'[y].status = Troves[y].status
                                /\ Troves'[y].arrayIndex = Troves[y].arrayIndex
    PROVE  Recorded(Troves', TroveOwners', sortedTroves')
<1>1. ActiveIn(Troves') = ActiveIn(Troves) /\ sortedTroves \in Seq(Borrowers)
  BY DEF ActiveIn, IInv, TroveType
<1>2. PICK k \in 1..(Len(without(b)) + 1) : sortedTroves' = InsertAt(without(b), k, b)
  BY DEF reInsert, insertPositions
<1>3. position(b) \in 1..Len(sortedTroves) /\ sortedTroves[position(b)] = b
  BY PositionOf DEF reInsert
<1>4. b \in ActiveIn(Troves)
  BY <1>3 DEF Recorded, Lists
<1>5. Lists(without(b), ActiveIn(Troves) \ {b})
  BY <1>1, <1>3, ListsRemoved DEF Recorded, without
<1>6. without(b) \in Seq(Borrowers) /\ Len(without(b)) = Len(sortedTroves) - 1
  BY <1>1, <1>3, RemoveAtElements DEF without
<1>7. Lists(sortedTroves', (ActiveIn(Troves) \ {b}) \union {b})
  BY <1>2, <1>5, <1>6, ListsInserted
<1>8. Len(sortedTroves') = Len(sortedTroves)
  <2>1. Len(sortedTroves') = Len(without(b)) + 1
    BY <1>2, <1>6, InsertAtElements
  <2>2. Len(sortedTroves) \in Nat
    BY <1>1
  <2>. QED
    BY <1>6, <2>1, <2>2
<1>9. Indexed(Troves', TroveOwners')
  <2>1. \A i \in 1..Len(TroveOwners) : TroveOwners[i] \in Borrowers
    BY DEF Recorded, Indexed, ActiveIn
  <2>2. \A y \in ActiveIn(Troves) : y \in Borrowers
    BY DEF ActiveIn
  <2>. QED
    BY <1>1, <2>1, <2>2 DEF Recorded, Indexed
<1>. QED
  BY <1>1, <1>4, <1>7, <1>8, <1>9 DEF Recorded

\* _removeTroveOwner moves the last owner to where the closed trove was.
LEMMA CloseRecorded ==
    ASSUME IInv, IInv', Recorded(Troves, TroveOwners, sortedTroves), NEW b,
           NEW status \in Status, status # "active", internalCloseTrove(b, status)
    PROVE  Recorded(Troves', TroveOwners', sortedTroves')
<1>1. /\ TroveOwners \in Seq(Borrowers) /\ sortedTroves \in Seq(Borrowers)
      /\ Troves \in [Borrowers -> Trove]
  BY DEF IInv, TroveType
<1>2. position(b) \in 1..Len(sortedTroves) /\ sortedTroves[position(b)] = b
  BY PositionOf DEF internalCloseTrove
<1>3. b \in ActiveIn(Troves) /\ b \in Borrowers
  BY <1>2 DEF Recorded, Lists, ActiveIn
<1>4. PICK n \in Nat : n = Len(TroveOwners) /\ n > 1
  BY <1>1 DEF internalCloseTrove, moreThanOneTrove
<1>5. PICK k \in 1..n : k = Troves[b].arrayIndex + 1 /\ TroveOwners[k] = b
  <2>1. Troves[b].arrayIndex \in Nat
    BY <1>1, <1>3 DEF Trove
  <2>. QED
    BY <1>3, <1>4, <2>1 DEF Recorded, Indexed
<1>6. PICK last \in Borrowers : last = TroveOwners[n] /\ last = Last(TroveOwners)
  BY <1>1, <1>4 DEF Last
<1>7. last \in ActiveIn(Troves) /\ Troves[last].arrayIndex = n - 1
  <2>1. n \in 1..Len(TroveOwners)
    BY <1>4
  <2>2. TroveOwners[n] \in ActiveIn(Troves) /\ Troves[TroveOwners[n]].arrayIndex = n - 1
    BY <2>1 DEF Recorded, Indexed
  <2>. QED
    BY <1>6, <2>2
<1>8. last = b <=> k = n
  <2>1. Troves[b].arrayIndex \in Nat
    BY <1>1, <1>3 DEF Trove
  <2>2. last = b => k = n
    BY <1>4, <1>5, <1>7, <2>1
  <2>3. k = n => last = b
    BY <1>5, <1>6
  <2>. QED
    BY <2>2, <2>3
<1>9. /\ Len(TroveOwners') = n - 1
      /\ \A i \in 1..(n - 1) : TroveOwners'[i] = IF i = k THEN last ELSE TroveOwners[i]
  <2>1. PICK owners : owners = [TroveOwners EXCEPT ![k] = last]
    OBVIOUS
  <2>2. /\ owners \in Seq(Borrowers) /\ Len(owners) = n
        /\ \A i \in 1..n : owners[i] = IF i = k THEN last ELSE TroveOwners[i]
    BY <1>1, <1>4, <2>1
  <2>3. TroveOwners' = Front(owners)
    <3>1. Troves[b].arrayIndex + 1 = k
      BY <1>5
    <3>. QED
      BY <1>6, <2>1, <3>1 DEF internalCloseTrove
  <2>. QED
    BY <1>4, <2>2, <2>3 DEF Front
<1>10. /\ Troves'[b].status = status
       /\ \A y \in Borrowers : y # b => Troves'[y].status = Troves[y].status
       /\ \A y \in Borrowers : y # b =>
             Troves'[y].arrayIndex = IF y = last THEN k - 1 ELSE Troves[y].arrayIndex
  <2>1. PICK closed : closed = [Troves EXCEPT ![b] = [debt |-> 0, coll |-> 0, stake |-> 0,
                                 status |-> status, arrayIndex |-> Troves[b].arrayIndex]]
    OBVIOUS
  <2>2. Troves' = [closed EXCEPT ![last].arrayIndex = Troves[b].arrayIndex]
    BY <1>6, <2>1 DEF internalCloseTrove, reindexed
  <2>3. closed[b].status = status /\ DOMAIN closed = Borrowers
        /\ \A y \in Borrowers : y # b => closed[y] = Troves[y]
    BY <1>1, <1>3, <2>1
  <2>4. closed[b] \in Trove /\ \A y \in Borrowers : closed[y] \in Trove
    BY <1>1, <1>3, <2>1 DEF Trove
  <2>5. Troves[b].arrayIndex = k - 1
    BY <1>1, <1>3, <1>5 DEF Trove
  <2>6. closed \in [Borrowers -> Trove]
    BY <1>1, <1>3, <2>1 DEF Trove
  <2>7. \A y \in Borrowers : /\ Troves'[y].status = closed[y].status
                             /\ Troves'[y].arrayIndex = IF y = last THEN k - 1 ELSE closed[y].arrayIndex
    BY <2>2, <2>5, <2>6 DEF Trove
  <2>. QED
    BY <1>3, <2>3, <2>7
<1>11. ActiveIn(Troves') = ActiveIn(Troves) \ {b}
  BY <1>3, <1>10 DEF ActiveIn
<1>12. ASSUME NEW y \in ActiveIn(Troves')
       PROVE  Troves'[y].arrayIndex < n - 1 /\ TroveOwners'[Troves'[y].arrayIndex + 1] = y
  <2>1. y \in Borrowers /\ y \in ActiveIn(Troves) /\ y # b
    BY <1>11 DEF ActiveIn
  <2>2. CASE y = last
    <3>1. k # n /\ Troves'[y].arrayIndex = k - 1
      BY <1>8, <1>10, <2>1, <2>2
    <3>. QED
      BY <1>4, <1>9, <2>2, <3>1
  <2>3. CASE y # last
    <3>1. PICK j \in Nat : j = Troves[y].arrayIndex
      BY <1>1, <2>1 DEF Trove
    <3>2. j < n /\ TroveOwners[j + 1] = y /\ Troves'[y].arrayIndex = j
      BY <1>4, <1>10, <2>1, <2>3, <3>1 DEF Recorded, Indexed
    <3>3. j + 1 # n /\ j + 1 # k
      BY <1>5, <1>6, <2>1, <2>3, <3>2
    <3>4. j + 1 \in 1..(n - 1)
      BY <1>4, <3>2, <3>3
    <3>. QED
      BY <1>9, <3>2, <3>3, <3>4
  <2>. QED
    BY <2>2, <2>3
<1>13. ASSUME NEW i \in 1..(n - 1)
       PROVE  TroveOwners'[i] \in ActiveIn(Troves') /\ Troves'[TroveOwners'[i]].arrayIndex = i - 1
  <2>1. CASE i = k
    <3>1. last # b
      BY <1>4, <1>8, <2>1
    <3>. QED
      BY <1>7, <1>9, <1>10, <1>11, <2>1, <3>1
  <2>2. CASE i # k
    <3>1. PICK y : y = TroveOwners[i]
      OBVIOUS
    <3>2. i \in 1..n
      BY <1>4
    <3>3. y \in ActiveIn(Troves) /\ Troves[y].arrayIndex = i - 1
      BY <1>4, <3>1, <3>2 DEF Recorded, Indexed
    <3>4. y # b /\ y # last /\ y \in Borrowers
      <4>1. Troves[b].arrayIndex = k - 1
        BY <1>1, <1>3, <1>5 DEF Trove
      <4>. QED
        BY <1>4, <1>7, <2>2, <3>3, <4>1 DEF ActiveIn
    <3>. QED
      BY <1>9, <1>10, <1>11, <2>2, <3>1, <3>3, <3>4
  <2>. QED
    BY <2>1, <2>2
<1>14. Lists(sortedTroves', ActiveIn(Troves')) /\ Len(sortedTroves') = n - 1
  <2>1. sortedTroves' = RemoveAt(sortedTroves, position(b))
    BY DEF internalCloseTrove, without
  <2>2. Lists(sortedTroves', ActiveIn(Troves) \ {b})
    BY <1>1, <1>2, <2>1, ListsRemoved DEF Recorded
  <2>3. Len(sortedTroves') = Len(sortedTroves) - 1 /\ Len(sortedTroves) = n
    BY <1>1, <1>2, <1>4, <2>1, RemoveAtElements DEF Recorded
  <2>. QED
    BY <1>11, <2>2, <2>3
<1>. QED
  BY <1>9, <1>12, <1>13, <1>14 DEF Recorded, Indexed

\* Steps that leave the records alone.
LEMMA SameRecorded ==
    ASSUME OInv, UNCHANGED <<Troves, TroveOwners, sortedTroves, saved>>, idle' \/ ~idle
    PROVE  OInv'
BY DEF OInv

\* In the middle of a transaction only the current owners have to be looked at.
LEMMA ProgressRecorded ==
    ASSUME OInv, Recorded(Troves', TroveOwners', sortedTroves'), saved' = saved, idle' \/ ~idle
    PROVE  OInv'
BY DEF OInv

\* Borrowers' operations: openTrove appends an owner, closeTrove moves the last.
LEMMA BorrowerRecorded == ASSUME IInv, IInv', OInv, BorrowerAction PROVE OInv'
<1>1. PICK b \in Borrowers :
        \/ \E value \in Collaterals, loan \in Loans : openTrove(b, value, loan)
        \/ \E collChange \in CollChanges, debtChange \in DebtChanges :
              adjustTrove(b, collChange, debtChange)
        \/ \E gain \in ETHGains : withdrawETHGainToTrove(b, gain)
        \/ closeTrove(b)
        \/ claimCollateral(b)
  BY DEF BorrowerAction
<1>2. Troves \in [Borrowers -> Trove] /\ Recorded(Troves, TroveOwners, sortedTroves)
  BY DEF IInv, TroveType, OInv
<1>3. CASE \E value \in Collaterals, loan \in Loans : openTrove(b, value, loan)
  <2>1. PICK value, loan, rate : openTroveAtRate(b, value, loan, rate)
    BY <1>3 DEF openTrove
  <2>2. PICK k \in 1..(Len(sortedTroves) + 1) : sortedTroves' = InsertAt(sortedTroves, k, b)
    BY <2>1 DEF openTroveAtRate, insert, insertPositions
  <2>3. PICK debt, coll, stake :
          Troves' = [Troves EXCEPT ![b] = [debt |-> debt, coll |-> coll, stake |-> stake,
                                           status |-> "active", arrayIndex |-> Len(TroveOwners)]]
    BY <2>1 DEF openTroveAtRate
  <2>4. /\ Troves'[b].status = "active" /\ Troves'[b].arrayIndex = Len(TroveOwners)
        /\ \A y \in Borrowers : y # b => Troves'[y] = Troves[y]
    BY <1>2, <2>3
  <2>5. /\ TroveOwners' = Append(TroveOwners, b) /\ ~isActive(b)
        /\ UNCHANGED <<saved, liquidation, redemption>> /\ idle
    BY <2>1 DEF openTroveAtRate, openTroveAllowed
  <2>. QED
    BY <1>2, <2>2, <2>4, <2>5, OpenRecorded, ProgressRecorded DEF idle
<1>4. CASE \/ \E collChange \in CollChanges, debtChange \in DebtChanges :
                 adjustTrove(b, collChange, debtChange)
           \/ \E gain \in ETHGains : withdrawETHGainToTrove(b, gain)
  <2>1. PICK collChange, debtChange, rate : adjustTroveAtRate(b, collChange, debtChange, rate)
    BY <1>4 DEF adjustTrove, withdrawETHGainToTrove, adjustTroveBy
  <2>2. PICK NICR : reInsert(b, NICR)
    BY <2>1 DEF adjustTroveAtRate
  <2>3. PICK coll, debt, stake :
          Troves' = [Troves EXCEPT ![b].coll = coll, ![b].debt = debt, ![b].stake = stake]
    BY <2>1 DEF adjustTroveAtRate
  <2>4. \A y \in Borrowers : /\ Troves'[y].status = Troves[y].status
                             /\ Troves'[y].arrayIndex = Troves[y].arrayIndex
    BY <1>2, <2>3 DEF Trove
  <2>5. TroveOwners' = TroveOwners /\ UNCHANGED <<saved, liquidation, redemption>> /\ idle
    BY <2>1 DEF adjustTroveAtRate
  <2>. QED
    BY <1>2, <2>2, <2>4, <2>5, ReInsertRecorded, ProgressRecorded DEF idle
<1>5. CASE closeTrove(b)
  <2>1. /\ internalCloseTrove(b, "closedByOwner") /\ idle
        /\ UNCHANGED <<saved, liquidation, redemption>>
    BY <1>5 DEF closeTrove
  <2>. QED
    BY <1>2, <2>1, CloseRecorded, ProgressRecorded DEF idle, Status
<1>6. CASE claimCollateral(b)
  BY <1>6, SameRecorded DEF claimCollateral, idle
<1>. QED
  BY <1>1, <1>3, <1>4, <1>5, <1>6

\* A transaction that is undone leaves the owners that were saved.
LEMMA RevertRecorded == ASSUME OInv, ~idle, Revert PROVE OInv'
BY DEF OInv, Revert, idle, NoLiquidation, NoRedemption

\* Liquidations remove owners one by one.
LEMMA LiquidationRecorded == ASSUME IInv, IInv', OInv, LiquidationStep PROVE OInv'
<1>1. CASE LiquidateTrovesStep \/ BatchLiquidateStep
  <2>1. ~idle
    BY <1>1 DEF LiquidateTrovesStep, BatchLiquidateStep, idle
  <2>2. CASE UNCHANGED storage /\ UNCHANGED saved
    BY <2>1, <2>2, SameRecorded DEF storage
  <2>3. CASE \E b, values, step : liquidateOne(b, values, step)
    <3>1. PICK b, values, step : liquidateOne(b, values, step)
      BY <2>3
    <3>2. internalCloseTrove(b, "closedByLiquidation") /\ saved' = saved
      BY <3>1 DEF liquidateOne
    <3>3. Recorded(Troves', TroveOwners', sortedTroves')
      BY <3>2, CloseRecorded DEF Status, OInv
    <3>. QED
      BY <2>1, <3>2, <3>3, ProgressRecorded
  <2>. QED
    BY <1>1, <2>2, <2>3
    DEF LiquidateTrovesStep, BatchLiquidateStep, liquidationIteration
<1>2. CASE FinishLiquidation
  <2>1. idle' /\ UNCHANGED <<Troves, TroveOwners, sortedTroves>>
    BY <1>2, LiquidationInProgress DEF FinishLiquidation, IInv, InProgress, idle, NoLiquidation
  <2>. QED
    BY <2>1 DEF OInv
<1>3. CASE LiquidationFails
  BY <1>3, LiquidationInProgress, RevertRecorded DEF LiquidationFails
<1>. QED
  BY <1>1, <1>2, <1>3 DEF LiquidationStep

\* Redemptions remove the owners of troves that are fully redeemed.
LEMMA RedemptionRecorded == ASSUME IInv, IInv', OInv, RedemptionStep PROVE OInv'
<1>1. Troves \in [Borrowers -> Trove] /\ Recorded(Troves, TroveOwners, sortedTroves)
  BY DEF IInv, TroveType, OInv
<1>2. CASE RedeemStep
  <2>1. ~idle /\ saved' = saved
    BY <1>2 DEF RedeemStep, idle
  <2>2. PICK b : b = redemption.user
    OBVIOUS
  <2>3. CASE RedeemClose(b)
    <3>1. internalCloseTrove(b, "closedByRedemption")
      BY <2>3 DEF RedeemClose
    <3>. QED
      BY <1>1, <2>1, <3>1, CloseRecorded, ProgressRecorded DEF Status
  <2>4. CASE RedeemPartly(b)
    <3>1. PICK NICR : reInsert(b, NICR)
      BY <2>4 DEF RedeemPartly
    <3>2. b \in Borrowers
      BY <3>1 DEF reInsert, contains, IInv, TroveType
    <3>3. PICK coll, debt, stake :
            Troves' = [Troves EXCEPT ![b].debt = debt, ![b].coll = coll, ![b].stake = stake]
      BY <2>4 DEF RedeemPartly
    <3>4. \A y \in Borrowers : /\ Troves'[y].status = Troves[y].status
                               /\ Troves'[y].arrayIndex = Troves[y].arrayIndex
      BY <1>1, <3>3 DEF Trove
    <3>5. TroveOwners' = TroveOwners
      BY <2>4 DEF RedeemPartly
    <3>. QED
      BY <1>1, <2>1, <3>1, <3>2, <3>4, <3>5, ReInsertRecorded, ProgressRecorded
  <2>5. CASE CancelPartial(b)
    <3>1. PICK coll, debt : Troves' = [Troves EXCEPT ![b].debt = debt, ![b].coll = coll]
      BY <2>5 DEF CancelPartial
    <3>2. \A y \in Borrowers : /\ Troves'[y].status = Troves[y].status
                               /\ Troves'[y].arrayIndex = Troves[y].arrayIndex
      BY <1>1, <3>1 DEF Trove
    <3>3. UNCHANGED <<TroveOwners, sortedTroves>>
      BY <2>5 DEF CancelPartial
    <3>4. ActiveIn(Troves') = ActiveIn(Troves)
      BY <3>2 DEF ActiveIn
    <3>5. Recorded(Troves', TroveOwners', sortedTroves')
      <4>1. \A i \in 1..Len(TroveOwners) : TroveOwners[i] \in Borrowers
        BY <1>1 DEF Recorded, Indexed, ActiveIn
      <4>2. \A y \in ActiveIn(Troves) : y \in Borrowers
        BY DEF ActiveIn
      <4>. QED
        BY <1>1, <3>2, <3>3, <3>4, <4>1, <4>2 DEF Recorded, Indexed
    <3>. QED
      BY <2>1, <3>5, ProgressRecorded
  <2>. QED
    BY <1>2, <2>2, <2>3, <2>4, <2>5 DEF RedeemStep
<1>3. CASE FinishRedemption
  <2>1. idle' /\ UNCHANGED <<Troves, TroveOwners, sortedTroves>>
    BY <1>3, RedemptionInProgress DEF FinishRedemption, IInv, InProgress, idle, NoRedemption
  <2>. QED
    BY <2>1 DEF OInv
<1>4. CASE RedeemStepFails \/ RedemptionFails
  BY <1>4, RedemptionInProgress, RevertRecorded DEF RedeemStepFails, RedemptionFails
<1>. QED
  BY <1>2, <1>3, <1>4 DEF RedemptionStep

\* Every step of every actor keeps the records in agreement.
LEMMA RecordedNext == ASSUME IInv, IInv', OInv, [Next]_vars PROVE OInv'
<1>1. CASE DepositorAction \/ TransferAction
  BY <1>1, SameRecorded
  DEF DepositorAction, provideToSP, withdrawFromSP, TransferAction, moveLUSD, idle
<1>2. CASE PriceAction
  BY <1>2, SameRecorded DEF PriceAction, changePrice, storage, idle
<1>3. CASE LiquidatorAction \/ RedeemerAction
  <2>1. UNCHANGED <<Troves, TroveOwners, sortedTroves>> /\ saved' = <<storageRecord>>
    BY <1>3
    DEF LiquidatorAction, liquidate, batchLiquidateTroves, liquidateTroves, startLiquidation,
        RedeemerAction, redeemCollateral, storage
  <2>2. /\ saved'[1].Troves = Troves /\ saved'[1].TroveOwners = TroveOwners
        /\ saved'[1].sortedTroves = sortedTroves
    BY <2>1 DEF storageRecord
  <2>. QED
    BY <2>1, <2>2 DEF OInv
<1>4. CASE UNCHANGED vars
  BY <1>4, SameRecorded DEF vars, storage, idle
<1>. QED
  BY <1>1, <1>2, <1>3, <1>4, BorrowerRecorded, LiquidationRecorded, RedemptionRecorded DEF Next

--------------------------------------------------------------------------------
(***************************************************************************)
(* The totals a liquidation keeps, and what it and the records promise.    *)
(***************************************************************************)

\* A liquidated trove's pending rewards only move between the pools, and its
\* values are subtracted from the trackers as they are added to the totals.
LEMMA LiquidateOneTracked ==
    ASSUME IInv, TrackedTotalsExact, liquidation.phase # "idle", NEW b \in Borrowers,
           NEW values \in LiquidationValues, NEW step, liquidateOne(b, values, step)
    PROVE  TrackedTotalsExact'
<1>1. PICK rewards \in Amounts : rewards = pendingRewards(b)
  BY PendingRewardsType DEF IInv
<1>2. /\ activePool' = plus(activePool, rewards) /\ defaultPool' = minus(defaultPool, rewards)
      /\ liquidation' = tracked(step, values)
  BY <1>1 DEF liquidateOne
<1>3. /\ activePool.ETH \in Nat /\ activePool.LUSDDebt \in Nat
      /\ defaultPool.ETH \in Nat /\ defaultPool.LUSDDebt \in Nat
      /\ rewards.ETH \in Nat /\ rewards.LUSDDebt \in Nat
  BY DEF IInv, PoolType, Amounts
<1>4. getEntireSystemColl' = getEntireSystemColl /\ getEntireSystemDebt' = getEntireSystemDebt
  BY <1>2, <1>3 DEF plus, minus, getEntireSystemColl, getEntireSystemDebt
<1>5. /\ getEntireSystemColl \in Int /\ getEntireSystemDebt \in Int
      /\ liquidation.totals \in LiquidationValues
  BY <1>3 DEF getEntireSystemColl, getEntireSystemDebt, IInv, LoopType, Liquidation
<1>6. CASE ~liquidation'.backToNormalMode
  <2>1. ~liquidation.backToNormalMode
    BY <1>2, <1>6 DEF tracked
  <2>2. /\ liquidation'.systemDebt = liquidation.systemDebt - values.debtToOffset
        /\ liquidation'.systemColl = liquidation.systemColl - values.collToSendToSP
              - values.collGasCompensation - values.collSurplus
    BY <1>2, <2>1 DEF tracked
  <2>3. /\ liquidation'.totals.debtToOffset
             = liquidation.totals.debtToOffset + values.debtToOffset
        /\ liquidation'.totals.collToSendToSP
             = liquidation.totals.collToSendToSP + values.collToSendToSP
        /\ liquidation'.totals.collGasCompensation
             = liquidation.totals.collGasCompensation + values.collGasCompensation
        /\ liquidation'.totals.collSurplus = liquidation.totals.collSurplus + values.collSurplus
    BY <1>2 DEF tracked, addLiquidationValuesToTotals
  <2>4. /\ liquidation.systemDebt = getEntireSystemDebt - liquidation.totals.debtToOffset
        /\ liquidation.systemColl = getEntireSystemColl - liquidation.totals.collToSendToSP
              - liquidation.totals.collGasCompensation - liquidation.totals.collSurplus
    BY <2>1 DEF TrackedTotalsExact
  <2>5. /\ values.debtToOffset \in Nat /\ values.collToSendToSP \in Nat
        /\ values.collGasCompensation \in Nat /\ values.collSurplus \in Nat
        /\ liquidation.totals.debtToOffset \in Nat /\ liquidation.totals.collToSendToSP \in Nat
        /\ liquidation.totals.collGasCompensation \in Nat
        /\ liquidation.totals.collSurplus \in Nat
    BY <1>5 DEF LiquidationValues
  <2>. QED
    BY <1>4, <1>5, <2>2, <2>3, <2>4, <2>5 DEF TrackedTotalsExact
<1>. QED
  BY <1>6 DEF TrackedTotalsExact

\* A step that passes over a trove, or stops, keeps the trackers.
LEMMA SameTracked ==
    ASSUME TrackedTotalsExact, UNCHANGED <<activePool, defaultPool>>,
           \/ liquidation'.phase = "idle"
           \/ /\ liquidation.phase # "idle" /\ liquidation'.totals = liquidation.totals
              /\ liquidation'.systemDebt = liquidation.systemDebt
              /\ liquidation'.systemColl = liquidation.systemColl
              /\ liquidation'.backToNormalMode = liquidation.backToNormalMode
    PROVE  TrackedTotalsExact'
<1>1. getEntireSystemColl' = getEntireSystemColl /\ getEntireSystemDebt' = getEntireSystemDebt
  BY DEF getEntireSystemColl, getEntireSystemDebt
<1>. QED
  BY <1>1 DEF TrackedTotalsExact

\* One iteration of a liquidation takes the same from the tracked totals as the
\* settlement will take from the pools (_getTotalsFromBatchLiquidate_RecoveryMode).
LEMMA IterationTracked ==
    ASSUME IInv, TrackedTotalsExact, liquidation.phase # "idle",
           NEW b \in Borrowers \union {Null}, NEW step, NEW stopped,
           liquidationIteration(b, step, stopped),
           \A s \in {step, stopped} :
              /\ s.totals = liquidation.totals /\ s.systemDebt = liquidation.systemDebt
              /\ s.systemColl = liquidation.systemColl
              /\ s.backToNormalMode = liquidation.backToNormalMode
    PROVE  TrackedTotalsExact'
<1>1. liquidation.remainingLUSD \in Nat
  BY DEF IInv, LoopType, Liquidation
<1>2. CASE verdict(b) = "normal" /\
           liquidateOne(b, normalModeValues(b, liquidation.remainingLUSD), step)
  <2>1. b \in Borrowers
    BY <1>2, ListMember DEF liquidateOne, closable, IInv
  <2>2. normalModeValues(b, liquidation.remainingLUSD) \in LiquidationValues
    <3>1. getCurrentICR(b) < MCR
      BY <1>2 DEF verdict
    <3>. QED
      BY <1>1, <2>1, <3>1, NormalValuesType
  <2>. QED
    BY <1>2, <2>1, <2>2, LiquidateOneTracked
<1>3. CASE verdict(b) = "recovery" /\
           liquidateOne(b, recoveryModeValues(b, liquidation.remainingLUSD), step)
  <2>1. b \in Borrowers
    BY <1>3, ListMember DEF liquidateOne, closable, IInv
  <2>2. recoveryModeValues(b, liquidation.remainingLUSD) \in LiquidationValues
    <3>1. PICK TCR : recoveryModeLiquidates(b, liquidation.remainingLUSD, TCR)
      BY <1>3 DEF verdict
    <3>. QED
      BY <1>1, <2>1, <3>1, RecoveryValuesType
  <2>. QED
    BY <1>3, <2>1, <2>2, LiquidateOneTracked
<1>4. CASE (liquidation' = step \/ liquidation' = stopped) /\ UNCHANGED storage
  BY <1>4, SameTracked DEF storage
<1>. QED
  BY <1>2, <1>3, <1>4 DEF liquidationIteration

\* Every step of every actor keeps the trackers exact.
LEMMA TrackedNext == ASSUME IInv, TrackedTotalsExact, [Next]_vars PROVE TrackedTotalsExact'
<1>1. liquidation \in Liquidation
  BY DEF IInv, LoopType
<1>2. CASE idle /\ UNCHANGED liquidation
  BY <1>2 DEF TrackedTotalsExact, idle
<1>3. CASE LiquidatorAction
  <2>1. PICK start :
          /\ liquidation' = start /\ UNCHANGED storage
          /\ start.totals = NoValues /\ start.systemDebt = getEntireSystemDebt
          /\ start.systemColl = getEntireSystemColl
    BY <1>3
    DEF LiquidatorAction, liquidate, batchLiquidateTroves, liquidateTroves, startLiquidation,
        liquidationFrom
  <2>2. /\ getEntireSystemColl' = getEntireSystemColl /\ getEntireSystemDebt' = getEntireSystemDebt
        /\ getEntireSystemColl \in Int /\ getEntireSystemDebt \in Int
    BY <2>1
    DEF getEntireSystemColl, getEntireSystemDebt, storage, IInv, PoolType, Amounts
  <2>. QED
    BY <2>1, <2>2 DEF TrackedTotalsExact, NoValues
<1>4. CASE LiquidateTrovesStep
  <2>1. PICK step, stopped :
          /\ step = [liquidation EXCEPT !.user = getPrev(liquidation.user), !.left = @ - 1]
          /\ stopped = [liquidation EXCEPT !.phase = "finish"]
    OBVIOUS
  <2>2. /\ liquidation.phase # "idle" /\ liquidation.user \in Borrowers \union {Null}
        /\ liquidationIteration(liquidation.user, step, stopped)
    BY <1>1, <1>4, <2>1 DEF LiquidateTrovesStep, Liquidation
  <2>3. \A s \in {step, stopped} :
          /\ s.totals = liquidation.totals /\ s.systemDebt = liquidation.systemDebt
          /\ s.systemColl = liquidation.systemColl
          /\ s.backToNormalMode = liquidation.backToNormalMode
    BY <1>1, <2>1 DEF Liquidation
  <2>. QED
    BY <2>2, <2>3, IterationTracked
<1>5. CASE BatchLiquidateStep
  <2>1. PICK b, step : /\ b = Head(liquidation.todo)
                       /\ step = [liquidation EXCEPT !.todo = Tail(@)]
    OBVIOUS
  <2>2. /\ liquidation.phase # "idle" /\ liquidation.todo # <<>>
        /\ \/ liquidationIteration(b, step, step)
           \/ liquidation' = step /\ UNCHANGED storage
    BY <1>5, <2>1 DEF BatchLiquidateStep
  <2>3. b \in Borrowers
    BY <1>1, <2>1, <2>2 DEF Liquidation
  <2>4. /\ step.totals = liquidation.totals /\ step.systemDebt = liquidation.systemDebt
        /\ step.systemColl = liquidation.systemColl
        /\ step.backToNormalMode = liquidation.backToNormalMode
    BY <1>1, <2>1 DEF Liquidation
  <2>5. CASE liquidationIteration(b, step, step)
    BY <2>2, <2>3, <2>4, <2>5, IterationTracked
  <2>6. CASE liquidation' = step /\ UNCHANGED storage
    BY <2>2, <2>4, <2>6, SameTracked DEF storage
  <2>. QED
    BY <2>2, <2>5, <2>6
<1>6. CASE FinishLiquidation \/ LiquidationFails \/ RedeemStepFails \/ RedemptionFails
  BY <1>6
  DEF FinishLiquidation, LiquidationFails, RedeemStepFails, RedemptionFails, Revert, NoLiquidation,
      TrackedTotalsExact
<1>7. CASE RedeemStep \/ FinishRedemption
  <2>1. liquidation.phase = "idle" /\ liquidation' = liquidation
    BY <1>7, RedemptionInProgress DEF RedeemStep, FinishRedemption, IInv, InProgress
  <2>. QED
    BY <2>1 DEF TrackedTotalsExact
<1>8. CASE BorrowerAction
  <2>1. PICK b \in Borrowers :
          \/ \E value, loan, rate : openTroveAtRate(b, value, loan, rate)
          \/ \E collChange, debtChange, rate : adjustTroveAtRate(b, collChange, debtChange, rate)
          \/ closeTrove(b)
          \/ claimCollateral(b)
    BY <1>8 DEF BorrowerAction, openTrove, adjustTrove, withdrawETHGainToTrove, adjustTroveBy
  <2>2. idle /\ UNCHANGED liquidation
    BY <2>1, ZenonT(60) DEF openTroveAtRate, adjustTroveAtRate, closeTrove, claimCollateral
  <2>. QED
    BY <1>2, <2>2
<1>9. CASE DepositorAction \/ TransferAction \/ RedeemerAction \/ PriceAction
  <2>1. idle /\ UNCHANGED liquidation
    BY <1>9
    DEF DepositorAction, provideToSP, withdrawFromSP, TransferAction, moveLUSD, RedeemerAction,
        redeemCollateral, PriceAction, changePrice
  <2>. QED
    BY <1>2, <2>1
<1>10. CASE UNCHANGED vars
  BY <1>10 DEF TrackedTotalsExact, getEntireSystemColl, getEntireSystemDebt, vars, storage
<1>. QED
  BY <1>3, <1>4, <1>5, <1>6, <1>7, <1>8, <1>9, <1>10 DEF Next, LiquidationStep, RedemptionStep

\* Status, the array of owners with its indexes and the sorted list name the same
\* troves, also between the iterations of a liquidation or a redemption, and the
\* totals that decide the mode of a liquidation are those of the system.
THEOREM TrackedState == Spec => []TrackedStateAgrees
<1>1. Init => OInv /\ TrackedTotalsExact
  <2>. SUFFICES ASSUME Init PROVE OInv /\ TrackedTotalsExact
    OBVIOUS
  <2>1. ActiveIn(Troves) = {} /\ TroveOwners = <<>> /\ sortedTroves = <<>>
    BY DEF Init, ActiveIn
  <2>2. liquidation.phase = "idle" /\ idle
    BY DEF Init, idle, NoLiquidation, NoRedemption
  <2>. QED
    BY <2>1, <2>2 DEF OInv, Recorded, Indexed, Lists, TrackedTotalsExact
<1>2. IInv /\ IInv' /\ OInv /\ TrackedTotalsExact /\ [Next]_vars => OInv' /\ TrackedTotalsExact'
  BY RecordedNext, TrackedNext
<1>3. IInv /\ OInv /\ TrackedTotalsExact => TrackedStateAgrees
  <2>. SUFFICES ASSUME IInv, OInv PROVE OwnersAgree
    BY DEF TrackedStateAgrees
  <2>1. TroveOwners \in Seq(Borrowers) /\ sortedTroves \in Seq(Borrowers)
    BY DEF IInv, TroveType
  <2>2. Indexed(Troves, TroveOwners) /\ Lists(sortedTroves, ActiveIn(Troves))
        /\ Len(sortedTroves) = Len(TroveOwners)
    BY DEF OInv, Recorded
  <2>3. ToSet(sortedTroves) = ActiveIn(Troves)
    BY <2>1, <2>2 DEF ToSet, Lists
  <2>4. ToSet(TroveOwners) = ActiveIn(Troves)
    <3>1. ASSUME NEW b \in ActiveIn(Troves) PROVE b \in ToSet(TroveOwners)
      <4>1. Troves[b].arrayIndex \in Nat
        BY DEF ActiveIn, IInv, TroveType, Trove
      <4>2. Troves[b].arrayIndex + 1 \in 1..Len(TroveOwners)
        BY <2>1, <2>2, <4>1 DEF Indexed
      <4>. QED
        BY <2>1, <2>2, <4>2 DEF Indexed, ToSet
    <3>2. ASSUME NEW b \in ToSet(TroveOwners) PROVE b \in ActiveIn(Troves)
      BY <2>1, <2>2 DEF Indexed, ToSet
    <3>. QED
      BY <3>1, <3>2
  <2>5. \A b \in Borrowers : isActive(b) =>
          Troves[b].arrayIndex < Len(TroveOwners) /\ TroveOwners[Troves[b].arrayIndex + 1] = b
    BY <2>2 DEF Indexed, ActiveIn, isActive
  <2>6. \A i \in 1..Len(TroveOwners) :
          isActive(TroveOwners[i]) /\ Troves[TroveOwners[i]].arrayIndex = i - 1
    BY <2>2 DEF Indexed, ActiveIn, isActive
  <2>. QED
    BY <2>2, <2>3, <2>4, <2>5, <2>6 DEF OwnersAgree
<1>. QED
  BY <1>1, <1>2, <1>3, Invariance, PTL DEF Spec
================================================================================
