---------------------------- MODULE LiquityPoolProofs ----------------------------
(***************************************************************************)
(* Proofs about Liquity that add over all troves: the pools hold what the  *)
(* troves say they do, and every claim on them can be paid.  The invariant *)
(* of LiquityProofs is assumed before and after each step.                 *)
(*                                                                         *)
(* While a liquidation or a redemption is in progress, the ActivePool also *)
(* holds what the transaction has taken from the troves and not yet moved; *)
(* what a failing transaction returns to satisfies the invariant too.      *)
(***************************************************************************)
EXTENDS LiquityProofs, Sums

total(f) == SumOver(f, Borrowers)

Colls(T) == [b \in Borrowers |-> T[b].coll]
Debts(T) == [b \in Borrowers |-> T[b].debt]
Stakes(T) == [b \in Borrowers |-> T[b].stake]

\* What a trove has earned since its snapshot, before it is rounded down.
ETHShares(T, R, l) == [b \in Borrowers |-> T[b].stake * (l.ETH - R[b].ETH)]
DebtShares(T, R, l) == [b \in Borrowers |-> T[b].stake * (l.LUSDDebt - R[b].LUSDDebt)]

(***************************************************************************)
(* The inductive invariant, for the storage as it is and as it was when    *)
(* the transaction in progress started.                                    *)
(***************************************************************************)

\* Taken from the troves by the transaction in progress, not yet from the pool.
collInTransit ==
    liquidation.totals.collToSendToSP + liquidation.totals.collToRedistribute
      + liquidation.totals.collSurplus + liquidation.totals.collGasCompensation
      + redemption.totalETHDrawn
debtInTransit ==
    liquidation.totals.debtToOffset + liquidation.totals.debtToRedistribute
      + redemption.totalLUSDToRedeem

Held(T, stakes, pool, coll, debt) ==
    /\ pool.ETH = total(Colls(T)) + coll
    /\ pool.LUSDDebt = total(Debts(T)) + debt
    /\ stakes = total(Stakes(T))

\* A closed trove has nothing.
Cleared(T) ==
    \A b \in Borrowers : T[b].status # "active" => T[b].coll = 0 /\ T[b].debt = 0 /\ T[b].stake = 0

\* The DefaultPool covers the unrounded shares and the error carried forward.
ETHCovered(T, R, pool, l, error) ==
    DECIMAL_PRECISION * pool.ETH >= total(ETHShares(T, R, l)) + error.ETH
DebtCovered(T, R, pool, l, error) ==
    DECIMAL_PRECISION * pool.LUSDDebt >= total(DebtShares(T, R, l)) + error.LUSDDebt

SurplusHeld(pool, surplus) == pool.ETH + surplus = total(pool.balances)

GasHeld(owners, token, gas) == token.gasPool >= LUSD_GAS_COMPENSATION * Len(owners) + gas

\* The trackers of a transaction in progress; nothing is in transit otherwise.
Transit ==
    /\ liquidation.phase = "idle" => liquidation.totals = NoValues
    /\ redemption.phase = "idle" =>
         redemption.totalETHDrawn = 0 /\ redemption.totalLUSDToRedeem = 0
    /\ liquidation.phase # "idle" =>
         liquidation.remainingLUSD + liquidation.totals.debtToOffset
           = stabilityPool.totalLUSDDeposits
    /\ liquidation.totals.debtToOffset = 0 => liquidation.totals.collToSendToSP = 0
    /\ liquidation.totals.debtToRedistribute = 0 => liquidation.totals.collToRedistribute = 0

SavedHeld ==
    ~idle => /\ Held(saved[1].Troves, saved[1].totalStakes, saved[1].activePool, 0, 0)
             /\ Cleared(saved[1].Troves)
             /\ ETHCovered(saved[1].Troves, saved[1].rewardSnapshots, saved[1].defaultPool, L, lastError)
             /\ SurplusHeld(saved[1].collSurplusPool, 0)
             /\ GasHeld(saved[1].TroveOwners, saved[1].lusd, 0)

\* _applyPendingRewards notices the rewards of a trove by the snapshot of L_ETH
\* alone.  It misses none of debt when that of L_LUSDDebt is behind only with it.
SnapshotsTogether ==
    \A b \in Borrowers : isActive(b) /\ rewardSnapshots[b].ETH = L.ETH =>
       rewardSnapshots[b].LUSDDebt = L.LUSDDebt

\* The half of the invariant that needs it.
DInv ==
    /\ DebtCovered(Troves, rewardSnapshots, defaultPool, L, lastError)
    /\ ~idle => DebtCovered(saved[1].Troves, saved[1].rewardSnapshots, saved[1].defaultPool, L,
                            lastError)

PInv ==
    /\ Held(Troves, totalStakes, activePool, collInTransit, debtInTransit)
    /\ Cleared(Troves)
    /\ ETHCovered(Troves, rewardSnapshots, defaultPool, L, lastError)
    /\ SurplusHeld(collSurplusPool, liquidation.totals.collSurplus)
    /\ GasHeld(TroveOwners, lusd, liquidation.totals.LUSDGasCompensation)
    /\ Transit
    /\ SavedHeld

--------------------------------------------------------------------------------
(***************************************************************************)
(* Sums over the troves.                                                   *)
(***************************************************************************)

\* The borrowers are finitely many, and what is added up are integers.
LEMMA Summands ==
    ASSUME NEW T \in [Borrowers -> Trove], NEW R \in [Borrowers -> Amounts], NEW l \in Amounts
    PROVE  /\ IsFiniteSet(Borrowers)
           /\ Summand(Colls(T), Borrowers) /\ Summand(Debts(T), Borrowers)
           /\ Summand(Stakes(T), Borrowers)
           /\ Summand(ETHShares(T, R, l), Borrowers) /\ Summand(DebtShares(T, R, l), Borrowers)
<1>1. \A x \in Nat, y \in Int : x * y \in Int
  BY SMT
<1>2. ASSUME NEW b \in Borrowers
      PROVE  /\ T[b].stake \in Nat /\ T[b].coll \in Nat /\ T[b].debt \in Nat
             /\ l.ETH - R[b].ETH \in Int /\ l.LUSDDebt - R[b].LUSDDebt \in Int
  BY DEF Trove, Amounts
<1>. QED
  BY <1>1, <1>2, LiquityAssumption DEF Summand, Colls, Debts, Stakes, ETHShares, DebtShares

\* Totals are integers; those of naturals are naturals, and no part exceeds them.
LEMMA TotalTypes ==
    ASSUME NEW T \in [Borrowers -> Trove], NEW R \in [Borrowers -> Amounts], NEW l \in Amounts
    PROVE  /\ total(Colls(T)) \in Nat /\ total(Debts(T)) \in Nat /\ total(Stakes(T)) \in Nat
           /\ total(ETHShares(T, R, l)) \in Int /\ total(DebtShares(T, R, l)) \in Int
           /\ \A b \in Borrowers : /\ T[b].coll <= total(Colls(T)) /\ T[b].debt <= total(Debts(T))
                                   /\ T[b].stake <= total(Stakes(T))
<1>1. ASSUME NEW b \in Borrowers
      PROVE  Colls(T)[b] \in Nat /\ Debts(T)[b] \in Nat /\ Stakes(T)[b] \in Nat
  BY DEF Colls, Debts, Stakes, Trove
<1>2. IsFiniteSet(Borrowers)
  BY LiquityAssumption
<1>3. total(Colls(T)) \in Nat /\ \A b \in Borrowers : Colls(T)[b] <= total(Colls(T))
  BY <1>1, <1>2, SumNat DEF total
<1>4. total(Debts(T)) \in Nat /\ \A b \in Borrowers : Debts(T)[b] <= total(Debts(T))
  BY <1>1, <1>2, SumNat DEF total
<1>5. total(Stakes(T)) \in Nat /\ \A b \in Borrowers : Stakes(T)[b] <= total(Stakes(T))
  BY <1>1, <1>2, SumNat DEF total
<1>6. total(ETHShares(T, R, l)) \in Int /\ total(DebtShares(T, R, l)) \in Int
  BY Summands, SumType DEF total
<1>. QED
  BY <1>3, <1>4, <1>5, <1>6 DEF Colls, Debts, Stakes

\* Replacing one trove changes the totals by the difference.
LEMMA TroveReplaced ==
    ASSUME NEW T \in [Borrowers -> Trove], NEW U \in [Borrowers -> Trove],
           NEW b \in Borrowers,
           \A y \in Borrowers : y # b =>
              U[y].coll = T[y].coll /\ U[y].debt = T[y].debt /\ U[y].stake = T[y].stake
    PROVE  /\ total(Colls(U)) = total(Colls(T)) - T[b].coll + U[b].coll
           /\ total(Debts(U)) = total(Debts(T)) - T[b].debt + U[b].debt
           /\ total(Stakes(U)) = total(Stakes(T)) - T[b].stake + U[b].stake
<1>1. NoAmounts \in Amounts /\ [y \in Borrowers |-> NoAmounts] \in [Borrowers -> Amounts]
  BY DEF Amounts, NoAmounts
<1>2. /\ IsFiniteSet(Borrowers)
      /\ Summand(Colls(T), Borrowers) /\ Summand(Debts(T), Borrowers) /\ Summand(Stakes(T), Borrowers)
  BY <1>1, Summands
<1>3. U[b].coll \in Int /\ U[b].debt \in Int /\ U[b].stake \in Int
  BY DEF Trove
<1>4. /\ Colls(U)[b] = U[b].coll /\ Debts(U)[b] = U[b].debt /\ Stakes(U)[b] = U[b].stake
      /\ Colls(T)[b] = T[b].coll /\ Debts(T)[b] = T[b].debt /\ Stakes(T)[b] = T[b].stake
  BY DEF Colls, Debts, Stakes
<1>5. \A y \in Borrowers : y # b => /\ Colls(U)[y] = Colls(T)[y] /\ Debts(U)[y] = Debts(T)[y]
                                    /\ Stakes(U)[y] = Stakes(T)[y]
  BY DEF Colls, Debts, Stakes
<1>6. total(Colls(U)) = total(Colls(T)) - Colls(T)[b] + Colls(U)[b]
  BY <1>2, <1>3, <1>4, <1>5, SumChange DEF total
<1>7. total(Debts(U)) = total(Debts(T)) - Debts(T)[b] + Debts(U)[b]
  BY <1>2, <1>3, <1>4, <1>5, SumChange DEF total
<1>8. total(Stakes(U)) = total(Stakes(T)) - Stakes(T)[b] + Stakes(U)[b]
  BY <1>2, <1>3, <1>4, <1>5, SumChange DEF total
<1>. QED
  BY <1>4, <1>6, <1>7, <1>8

\* The same for the shares, at unchanged rewards per unit staked.
LEMMA ShareReplaced ==
    ASSUME NEW T \in [Borrowers -> Trove], NEW U \in [Borrowers -> Trove], NEW l \in Amounts,
           NEW R \in [Borrowers -> Amounts], NEW Q \in [Borrowers -> Amounts], NEW b \in Borrowers,
           \A y \in Borrowers : y # b => U[y].stake = T[y].stake /\ Q[y] = R[y]
    PROVE  /\ total(ETHShares(U, Q, l)) = total(ETHShares(T, R, l)) - ETHShares(T, R, l)[b] + ETHShares(U, Q, l)[b]
           /\ total(DebtShares(U, Q, l))
                = total(DebtShares(T, R, l)) - DebtShares(T, R, l)[b] + DebtShares(U, Q, l)[b]
<1>1. /\ IsFiniteSet(Borrowers)
      /\ Summand(ETHShares(T, R, l), Borrowers) /\ Summand(DebtShares(T, R, l), Borrowers)
  BY Summands
<1>2. ETHShares(U, Q, l)[b] \in Int /\ DebtShares(U, Q, l)[b] \in Int
  BY Summands DEF Summand
<1>3. \A y \in Borrowers : y # b => /\ ETHShares(U, Q, l)[y] = ETHShares(T, R, l)[y]
                                    /\ DebtShares(U, Q, l)[y] = DebtShares(T, R, l)[y]
  BY DEF ETHShares, DebtShares
<1>. QED
  BY <1>1, <1>2, <1>3, SumChange DEF total

--------------------------------------------------------------------------------
(***************************************************************************)
(* What a step that changes one trove has to keep.                         *)
(***************************************************************************)

\* The other troves keep their collateral, debt, stake, status and snapshot.
OthersKept(b) ==
    \A y \in Borrowers : y # b =>
       /\ Troves'[y].coll = Troves[y].coll /\ Troves'[y].debt = Troves[y].debt
       /\ Troves'[y].stake = Troves[y].stake /\ Troves'[y].status = Troves[y].status
       /\ rewardSnapshots'[y] = rewardSnapshots[y]

\* The pool and the total of the stakes follow the trove that changes.
LEMMA OneTroveHeld ==
    ASSUME IInv, IInv', Held(Troves, totalStakes, activePool, collInTransit, debtInTransit),
           collInTransit \in Int, debtInTransit \in Int,
           NEW coll \in Int, NEW debt \in Int, NEW b \in Borrowers, OthersKept(b),
           activePool'.ETH = activePool.ETH - Troves[b].coll + Troves'[b].coll
                               + coll - collInTransit,
           activePool'.LUSDDebt = activePool.LUSDDebt - Troves[b].debt + Troves'[b].debt
                                    + debt - debtInTransit,
           totalStakes' = totalStakes - Troves[b].stake + Troves'[b].stake
    PROVE  Held(Troves', totalStakes', activePool', coll, debt)
<1>1. Troves \in [Borrowers -> Trove] /\ Troves' \in [Borrowers -> Trove]
  BY DEF IInv, TroveType
<1>2. /\ total(Colls(Troves')) = total(Colls(Troves)) - Troves[b].coll + Troves'[b].coll
      /\ total(Debts(Troves')) = total(Debts(Troves)) - Troves[b].debt + Troves'[b].debt
      /\ total(Stakes(Troves')) = total(Stakes(Troves)) - Troves[b].stake + Troves'[b].stake
  BY <1>1, TroveReplaced DEF OthersKept
<1>3. NoAmounts \in Amounts /\ [y \in Borrowers |-> NoAmounts] \in [Borrowers -> Amounts]
  BY DEF Amounts, NoAmounts
<1>4. /\ total(Colls(Troves)) \in Nat /\ total(Debts(Troves)) \in Nat /\ total(Stakes(Troves)) \in Nat
  BY <1>1, <1>3, TotalTypes
<1>5. /\ Troves[b].coll \in Nat /\ Troves[b].debt \in Nat /\ Troves[b].stake \in Nat
      /\ Troves'[b].coll \in Nat /\ Troves'[b].debt \in Nat /\ Troves'[b].stake \in Nat
  BY <1>1 DEF Trove
<1>. QED
  BY <1>2, <1>4, <1>5 DEF Held

\* What the type invariant says of the numbers of one trove and of the pools.
LEMMA Numbers ==
    ASSUME IInv, NEW b \in Borrowers
    PROVE  /\ Troves \in [Borrowers -> Trove] /\ rewardSnapshots \in [Borrowers -> Amounts]
           /\ Troves[b].coll \in Nat /\ Troves[b].debt \in Nat /\ Troves[b].stake \in Nat
           /\ totalStakes \in Nat /\ TroveOwners \in Seq(Borrowers)
           /\ L \in Amounts /\ L.ETH \in Nat /\ L.LUSDDebt \in Nat
           /\ lastError.ETH \in Nat /\ lastError.LUSDDebt \in Nat
           /\ rewardSnapshots[b].ETH \in Nat /\ rewardSnapshots[b].LUSDDebt \in Nat
           /\ rewardSnapshots[b].ETH <= L.ETH /\ rewardSnapshots[b].LUSDDebt <= L.LUSDDebt
           /\ activePool \in Amounts /\ activePool.ETH \in Nat /\ activePool.LUSDDebt \in Nat
           /\ defaultPool \in Amounts /\ defaultPool.ETH \in Nat /\ defaultPool.LUSDDebt \in Nat
           /\ lusd.gasPool \in Nat /\ DECIMAL_PRECISION \in Nat \ {0}
<1>1. /\ Troves \in [Borrowers -> Trove] /\ rewardSnapshots \in [Borrowers -> Amounts]
      /\ totalStakes \in Nat /\ TroveOwners \in Seq(Borrowers)
      /\ L \in Amounts /\ lastError \in Amounts /\ activePool \in Amounts /\ defaultPool \in Amounts
      /\ lusd \in LUSDBalances
  BY DEF IInv, TroveType, SystemType, PoolType
<1>2. Troves[b] \in Trove /\ rewardSnapshots[b] \in Amounts
  BY <1>1
<1>3. rewardSnapshots[b].ETH <= L.ETH /\ rewardSnapshots[b].LUSDDebt <= L.LUSDDebt
  BY DEF IInv, SnapshotsBehind
<1>. QED
  BY <1>1, <1>2, <1>3, ConstantTypes DEF Trove, Amounts, LUSDBalances

\* The same after a step.
LEMMA NumbersNext ==
    ASSUME IInv', NEW b \in Borrowers
    PROVE  /\ Troves' \in [Borrowers -> Trove] /\ rewardSnapshots' \in [Borrowers -> Amounts]
           /\ Troves'[b].coll \in Nat /\ Troves'[b].debt \in Nat /\ Troves'[b].stake \in Nat
           /\ totalStakes' \in Nat /\ TroveOwners' \in Seq(Borrowers)
           /\ activePool'.ETH \in Nat /\ activePool'.LUSDDebt \in Nat
           /\ defaultPool'.ETH \in Nat /\ defaultPool'.LUSDDebt \in Nat
           /\ lusd'.gasPool \in Nat
<1>1. /\ Troves' \in [Borrowers -> Trove] /\ rewardSnapshots' \in [Borrowers -> Amounts]
      /\ totalStakes' \in Nat /\ TroveOwners' \in Seq(Borrowers)
      /\ activePool' \in Amounts /\ defaultPool' \in Amounts /\ lusd' \in LUSDBalances
  BY DEF IInv, TroveType, PoolType
<1>2. Troves'[b] \in Trove
  BY <1>1
<1>. QED
  BY <1>1, <1>2 DEF Trove, Amounts, LUSDBalances

\* A rounded reward is at most the share, and shares are not negative.
LEMMA RewardsWithinShare ==
    ASSUME IInv, NEW b \in Borrowers
    PROVE  /\ ETHShares(Troves, rewardSnapshots, L)[b] \in Nat
           /\ DebtShares(Troves, rewardSnapshots, L)[b] \in Nat
           /\ pendingRewards(b) \in Amounts /\ appliedRewards(b) \in Amounts
           /\ DECIMAL_PRECISION * pendingRewards(b).ETH <= ETHShares(Troves, rewardSnapshots, L)[b]
           /\ DECIMAL_PRECISION * appliedRewards(b).ETH <= ETHShares(Troves, rewardSnapshots, L)[b]
           /\ DECIMAL_PRECISION * pendingRewards(b).LUSDDebt
                <= DebtShares(Troves, rewardSnapshots, L)[b]
           /\ DECIMAL_PRECISION * appliedRewards(b).LUSDDebt
                <= DebtShares(Troves, rewardSnapshots, L)[b]
<1>1. ASSUME NEW x \in Nat, NEW y \in Nat \ {0} PROVE y * (x \div y) <= x
  BY SMT
<1>2. DECIMAL_PRECISION \in Nat \ {0} /\ DECIMAL_PRECISION * 0 = 0
  BY ConstantTypes
<1>3. PICK stake \in Nat, x \in Nat, y \in Nat :
         /\ stake = Troves[b].stake /\ x = L.ETH - rewardSnapshots[b].ETH
         /\ y = L.LUSDDebt - rewardSnapshots[b].LUSDDebt
  <2>1. L.ETH - rewardSnapshots[b].ETH \in Nat /\ L.LUSDDebt - rewardSnapshots[b].LUSDDebt \in Nat
    BY Numbers
  <2>. QED
    BY <2>1, Numbers
<1>4. PICK e \in Nat, d \in Nat : e = stake * x /\ d = stake * y
  BY MulNat
<1>5. /\ ETHShares(Troves, rewardSnapshots, L)[b] = e
      /\ DebtShares(Troves, rewardSnapshots, L)[b] = d
  BY <1>3, <1>4 DEF ETHShares, DebtShares
<1>6. pendingRewards(b) \in Amounts /\ appliedRewards(b) \in Amounts
  BY PendingRewardsType DEF IInv
<1>7. \/ pendingRewards(b) = NoAmounts
      \/ /\ pendingRewards(b).ETH = e \div DECIMAL_PRECISION
         /\ pendingRewards(b).LUSDDebt = d \div DECIMAL_PRECISION
  BY <1>3, <1>4 DEF pendingRewards
<1>8. appliedRewards(b) = NoAmounts \/ appliedRewards(b) = pendingRewards(b)
  BY DEF appliedRewards
<1>9. NoAmounts.ETH = 0 /\ NoAmounts.LUSDDebt = 0
  BY DEF NoAmounts
<1>10. /\ DECIMAL_PRECISION * pendingRewards(b).ETH <= e
       /\ DECIMAL_PRECISION * pendingRewards(b).LUSDDebt <= d
  <2>1. /\ DECIMAL_PRECISION * (e \div DECIMAL_PRECISION) <= e
        /\ DECIMAL_PRECISION * (d \div DECIMAL_PRECISION) <= d
    BY <1>1, <1>2
  <2>. QED
    BY <1>2, <1>7, <1>9, <2>1
<1>. QED
  BY <1>2, <1>4, <1>5, <1>6, <1>8, <1>9, <1>10

\* Rewards paid out of the DefaultPool that are at most the part of the trove's
\* share that is used up leave the rest of it covered.
LEMMA OneTroveCovered ==
    ASSUME IInv, IInv', NEW b \in Borrowers, OthersKept(b), UNCHANGED <<L, lastError>>,
           NEW paid \in Amounts, defaultPool' = minus(defaultPool, paid)
    PROVE  /\ /\ ETHCovered(Troves, rewardSnapshots, defaultPool, L, lastError)
              /\ DECIMAL_PRECISION * paid.ETH + ETHShares(Troves', rewardSnapshots', L)[b]
                   <= ETHShares(Troves, rewardSnapshots, L)[b]
              => ETHCovered(Troves', rewardSnapshots', defaultPool', L', lastError')
           /\ /\ DebtCovered(Troves, rewardSnapshots, defaultPool, L, lastError)
              /\ DECIMAL_PRECISION * paid.LUSDDebt + DebtShares(Troves', rewardSnapshots', L)[b]
                   <= DebtShares(Troves, rewardSnapshots, L)[b]
              => DebtCovered(Troves', rewardSnapshots', defaultPool', L', lastError')
<1>1. /\ Troves \in [Borrowers -> Trove] /\ Troves' \in [Borrowers -> Trove]
      /\ rewardSnapshots \in [Borrowers -> Amounts] /\ rewardSnapshots' \in [Borrowers -> Amounts]
      /\ L \in Amounts
  BY DEF IInv, TroveType, SystemType
<1>2. PICK old \in Int, oldDebt \in Int : /\ old = ETHShares(Troves, rewardSnapshots, L)[b]
                                         /\ oldDebt = DebtShares(Troves, rewardSnapshots, L)[b]
  BY <1>1, Summands DEF Summand
<1>3. PICK new \in Int, newDebt \in Int : /\ new = ETHShares(Troves', rewardSnapshots', L)[b]
                                         /\ newDebt = DebtShares(Troves', rewardSnapshots', L)[b]
  BY <1>1, Summands DEF Summand
<1>4. /\ total(ETHShares(Troves', rewardSnapshots', L))
           = total(ETHShares(Troves, rewardSnapshots, L)) - old + new
      /\ total(DebtShares(Troves', rewardSnapshots', L))
           = total(DebtShares(Troves, rewardSnapshots, L)) - oldDebt + newDebt
  BY <1>1, <1>2, <1>3, ShareReplaced, ZenonT(60) DEF OthersKept
<1>5. /\ total(ETHShares(Troves, rewardSnapshots, L)) \in Int
      /\ total(DebtShares(Troves, rewardSnapshots, L)) \in Int
  BY <1>1, TotalTypes
<1>6. ASSUME NEW pool \in Nat, NEW p \in Nat, NEW sum \in Int, NEW error \in Nat,
             NEW x \in Int, NEW y \in Int,
             DECIMAL_PRECISION * pool >= sum + error, DECIMAL_PRECISION * p + y <= x
      PROVE  DECIMAL_PRECISION * (pool - p) >= (sum - x + y) + error
  <2>1. DECIMAL_PRECISION * (pool - p) = DECIMAL_PRECISION * pool - DECIMAL_PRECISION * p
        /\ DECIMAL_PRECISION * pool \in Int /\ DECIMAL_PRECISION * p \in Int
    BY ConstantTypes, SMT
  <2>. QED
    BY <1>6, <2>1
<1>7. /\ paid.ETH \in Nat /\ paid.LUSDDebt \in Nat
      /\ defaultPool'.ETH = defaultPool.ETH - paid.ETH
      /\ defaultPool'.LUSDDebt = defaultPool.LUSDDebt - paid.LUSDDebt
  BY DEF Amounts, minus
<1>8. /\ defaultPool.ETH \in Nat /\ defaultPool.LUSDDebt \in Nat
      /\ lastError.ETH \in Nat /\ lastError.LUSDDebt \in Nat
  BY Numbers
<1>9. ASSUME ETHCovered(Troves, rewardSnapshots, defaultPool, L, lastError),
             DECIMAL_PRECISION * paid.ETH + new <= old
      PROVE  ETHCovered(Troves', rewardSnapshots', defaultPool', L', lastError')
  <2>1. DECIMAL_PRECISION * defaultPool.ETH
          >= total(ETHShares(Troves, rewardSnapshots, L)) + lastError.ETH
    BY <1>9 DEF ETHCovered
  <2>2. DECIMAL_PRECISION * (defaultPool.ETH - paid.ETH)
          >= (total(ETHShares(Troves, rewardSnapshots, L)) - old + new) + lastError.ETH
    BY <1>5, <1>6, <1>7, <1>8, <1>9, <2>1
  <2>. QED
    BY <1>4, <1>7, <2>2 DEF ETHCovered
<1>10. ASSUME DebtCovered(Troves, rewardSnapshots, defaultPool, L, lastError),
              DECIMAL_PRECISION * paid.LUSDDebt + newDebt <= oldDebt
       PROVE  DebtCovered(Troves', rewardSnapshots', defaultPool', L', lastError')
  <2>1. DECIMAL_PRECISION * defaultPool.LUSDDebt
          >= total(DebtShares(Troves, rewardSnapshots, L)) + lastError.LUSDDebt
    BY <1>10 DEF DebtCovered
  <2>2. DECIMAL_PRECISION * (defaultPool.LUSDDebt - paid.LUSDDebt)
          >= (total(DebtShares(Troves, rewardSnapshots, L)) - oldDebt + newDebt)
               + lastError.LUSDDebt
    BY <1>5, <1>6, <1>7, <1>8, <1>10, <2>1
  <2>. QED
    BY <1>4, <1>7, <2>2 DEF DebtCovered
<1>. QED
  BY <1>2, <1>3, <1>9, <1>10

\* A trove that is opened or closed has no share afterwards.
LEMMA NoShareCovered ==
    ASSUME IInv, IInv', NEW b \in Borrowers, OthersKept(b), UNCHANGED <<L, lastError>>,
           NEW paid \in {NoAmounts, appliedRewards(b), pendingRewards(b)},
           defaultPool' = minus(defaultPool, paid), Troves'[b].stake = 0 \/ rewardSnapshots'[b] = L
    PROVE  /\ ETHCovered(Troves, rewardSnapshots, defaultPool, L, lastError)
                => ETHCovered(Troves', rewardSnapshots', defaultPool', L', lastError')
           /\ DebtCovered(Troves, rewardSnapshots, defaultPool, L, lastError)
                => DebtCovered(Troves', rewardSnapshots', defaultPool', L', lastError')
<1>1. /\ ETHShares(Troves', rewardSnapshots', L)[b] = 0
      /\ DebtShares(Troves', rewardSnapshots', L)[b] = 0
  <2>1. \A x \in Int : 0 * x = 0 /\ x * 0 = 0
    OBVIOUS
  <2>2. rewardSnapshots'[b] \in Amounts
    BY DEF IInv, TroveType
  <2>3. /\ L.ETH - rewardSnapshots'[b].ETH \in Int /\ L.LUSDDebt - rewardSnapshots'[b].LUSDDebt \in Int
        /\ L.ETH - L.ETH = 0 /\ L.LUSDDebt - L.LUSDDebt = 0
    BY <2>2, Numbers DEF Amounts
  <2>. QED
    BY <2>1, <2>3, NumbersNext DEF ETHShares, DebtShares
<1>2. paid \in Amounts /\ NoAmounts.ETH = 0 /\ NoAmounts.LUSDDebt = 0
  BY RewardsWithinShare DEF NoAmounts, Amounts
<1>3. DECIMAL_PRECISION * 0 = 0
  BY ConstantTypes
<1>4. /\ DECIMAL_PRECISION * paid.ETH <= ETHShares(Troves, rewardSnapshots, L)[b]
      /\ DECIMAL_PRECISION * paid.LUSDDebt <= DebtShares(Troves, rewardSnapshots, L)[b]
  BY <1>2, <1>3, RewardsWithinShare
<1>5. DECIMAL_PRECISION * paid.ETH \in Nat /\ DECIMAL_PRECISION * paid.LUSDDebt \in Nat
  BY <1>2, MulNat, ConstantTypes DEF Amounts
<1>6. /\ DECIMAL_PRECISION * paid.ETH + ETHShares(Troves', rewardSnapshots', L)[b]
           <= ETHShares(Troves, rewardSnapshots, L)[b]
      /\ DECIMAL_PRECISION * paid.LUSDDebt + DebtShares(Troves', rewardSnapshots', L)[b]
           <= DebtShares(Troves, rewardSnapshots, L)[b]
  BY <1>1, <1>4, <1>5
<1>. QED
  BY <1>2, <1>6, OneTroveCovered

\* Applying the rewards of an active trove uses up its share, whatever its stake
\* becomes; of the debt only if the snapshot is not behind unnoticed.
LEMMA AppliedCovered ==
    ASSUME IInv, IInv', NEW b \in Borrowers, OthersKept(b), UNCHANGED <<L, lastError>>,
           isActive(b), rewardSnapshots' = appliedSnapshots(b),
           defaultPool' = minus(defaultPool, appliedRewards(b))
    PROVE  /\ ETHCovered(Troves, rewardSnapshots, defaultPool, L, lastError)
                => ETHCovered(Troves', rewardSnapshots', defaultPool', L', lastError')
           /\ /\ DebtCovered(Troves, rewardSnapshots, defaultPool, L, lastError)
              /\ SnapshotsTogether
              => DebtCovered(Troves', rewardSnapshots', defaultPool', L', lastError')
<1>1. rewardSnapshots'[b].ETH = L.ETH
  BY Numbers DEF appliedSnapshots, hasPendingRewards
<1>2. SnapshotsTogether => rewardSnapshots'[b].LUSDDebt = L.LUSDDebt
  BY Numbers DEF appliedSnapshots, hasPendingRewards, SnapshotsTogether
<1>3. \A x \in Int : x * 0 = 0
  OBVIOUS
<1>4. L.ETH - L.ETH = 0 /\ L.LUSDDebt - L.LUSDDebt = 0
  BY Numbers
<1>5. /\ ETHShares(Troves', rewardSnapshots', L)[b] = 0
      /\ SnapshotsTogether => DebtShares(Troves', rewardSnapshots', L)[b] = 0
  BY <1>1, <1>2, <1>3, <1>4, NumbersNext DEF ETHShares, DebtShares
<1>6. PICK paid \in Amounts : paid = appliedRewards(b)
  BY RewardsWithinShare
<1>7. DECIMAL_PRECISION * paid.ETH \in Nat /\ DECIMAL_PRECISION * paid.LUSDDebt \in Nat
  BY MulNat, ConstantTypes DEF Amounts
<1>8. /\ DECIMAL_PRECISION * paid.ETH + ETHShares(Troves', rewardSnapshots', L)[b]
           <= ETHShares(Troves, rewardSnapshots, L)[b]
      /\ SnapshotsTogether =>
           DECIMAL_PRECISION * paid.LUSDDebt + DebtShares(Troves', rewardSnapshots', L)[b]
             <= DebtShares(Troves, rewardSnapshots, L)[b]
  BY <1>5, <1>6, <1>7, RewardsWithinShare
<1>. QED
  BY <1>6, <1>8, OneTroveCovered

\* Between transactions nothing is in transit.
LEMMA NothingInTransit ==
    ASSUME PInv, idle
    PROVE  /\ collInTransit = 0 /\ debtInTransit = 0
           /\ liquidation.totals.collSurplus = 0 /\ liquidation.totals.LUSDGasCompensation = 0
BY DEF PInv, Transit, idle, NoValues, collInTransit, debtInTransit

\* A transaction that ends at once leaves nothing in transit either.
LEMMA StillNothingInTransit ==
    ASSUME PInv, idle, UNCHANGED <<liquidation, redemption>>
    PROVE  /\ Transit' /\ SavedHeld'
           /\ collInTransit' = 0 /\ debtInTransit' = 0
           /\ liquidation'.totals.collSurplus = 0 /\ liquidation'.totals.LUSDGasCompensation = 0
BY NothingInTransit
DEF PInv, Transit, SavedHeld, idle, collInTransit, debtInTransit

\* The product of the gas compensation and the number of troves.
LEMMA GasProduct ==
    ASSUME NEW n \in Nat
    PROVE  /\ LUSD_GAS_COMPENSATION * n \in Nat /\ LUSD_GAS_COMPENSATION \in Nat
           /\ LUSD_GAS_COMPENSATION * (n + 1) = LUSD_GAS_COMPENSATION * n + LUSD_GAS_COMPENSATION
           /\ LUSD_GAS_COMPENSATION * (n - 1) = LUSD_GAS_COMPENSATION * n - LUSD_GAS_COMPENSATION
<1>1. LUSD_GAS_COMPENSATION \in Nat
  BY ConstantTypes
<1>. QED
  BY <1>1, SMT

--------------------------------------------------------------------------------
(***************************************************************************)
(* The operations of borrowers.                                            *)
(***************************************************************************)

\* openTrove: the trove starts with the collateral and debt that the pool gets.
LEMMA OpenTrovePools ==
    ASSUME IInv, IInv', PInv, NEW b \in Borrowers, NEW value \in Collaterals, NEW loan \in Loans,
           openTrove(b, value, loan)
    PROVE  PInv' /\ (DInv => DInv')
<1>1. PICK rate \in borrowingRates : openTroveAtRate(b, value, loan, rate)
  BY DEF openTrove
<1>2. idle /\ ~isActive(b) /\ UNCHANGED <<liquidation, redemption>>
  BY <1>1 DEF openTroveAtRate, openTroveAllowed
<1>3. PICK debt : debt = getCompositeDebt(loan + borrowingFee(rate, loan))
  OBVIOUS
<1>4. PICK stake : stake = computeNewStake(Troves[b].coll + value)
  OBVIOUS
<1>5. /\ Troves' = [Troves EXCEPT ![b] =
           [debt |-> Troves[b].debt + debt, coll |-> Troves[b].coll + value,
            stake |-> stake, status |-> "active", arrayIndex |-> Len(TroveOwners)]]
      /\ TroveOwners' = Append(TroveOwners, b)
      /\ rewardSnapshots' = [rewardSnapshots EXCEPT ![b] = L]
      /\ totalStakes' = totalStakes - Troves[b].stake + stake
      /\ activePool' = plus(activePool, [ETH |-> value, LUSDDebt |-> debt])
      /\ lusd'.gasPool = lusd.gasPool + LUSD_GAS_COMPENSATION
      /\ UNCHANGED <<L, lastError, defaultPool, collSurplusPool>>
  BY <1>1, <1>3, <1>4 DEF openTroveAtRate, IInv, PoolType, LUSDBalances
<1>6. Troves \in [Borrowers -> Trove] /\ rewardSnapshots \in [Borrowers -> Amounts]
  BY DEF IInv, TroveType
<1>7. /\ Troves'[b].coll = Troves[b].coll + value /\ Troves'[b].debt = Troves[b].debt + debt
      /\ Troves'[b].stake = stake /\ Troves'[b].status = "active" /\ rewardSnapshots'[b] = L
  BY <1>5, <1>6
<1>8. OthersKept(b)
  BY <1>5, <1>6 DEF OthersKept
<1>9. /\ collInTransit = 0 /\ debtInTransit = 0 /\ collInTransit' = 0 /\ debtInTransit' = 0
      /\ liquidation'.totals.collSurplus = 0 /\ liquidation'.totals.LUSDGasCompensation = 0
      /\ liquidation.totals.collSurplus = 0 /\ liquidation.totals.LUSDGasCompensation = 0
      /\ Transit' /\ SavedHeld'
  BY <1>2, NothingInTransit, StillNothingInTransit
<1>10. Held(Troves', totalStakes', activePool', 0, 0)
  <2>1. activePool'.ETH = activePool.ETH + value /\ activePool'.LUSDDebt = activePool.LUSDDebt + debt
    BY <1>5 DEF plus
  <2>2. loan \in Nat /\ rate \in Nat /\ value \in Nat
    BY LiquityAssumption, BorrowingRate DEF IInv
  <2>3. debt \in Nat
    <3>1. borrowingFee(rate, loan) \in Nat
      BY <2>2, FeeType
    <3>. QED
      BY <1>3, <2>2, <3>1, ConstantTypes DEF getCompositeDebt
  <2>4. activePool'.ETH = activePool.ETH - Troves[b].coll + Troves'[b].coll + 0 - collInTransit
    BY <1>7, <1>9, <2>1, <2>2, Numbers
  <2>5. activePool'.LUSDDebt = activePool.LUSDDebt - Troves[b].debt + Troves'[b].debt
                                 + 0 - debtInTransit
    BY <1>7, <1>9, <2>1, <2>3, Numbers
  <2>6. totalStakes' = totalStakes - Troves[b].stake + Troves'[b].stake
    BY <1>5, <1>7
  <2>7. Held(Troves, totalStakes, activePool, collInTransit, debtInTransit)
        /\ collInTransit \in Int /\ debtInTransit \in Int
    BY <1>9 DEF PInv
  <2>. QED
    BY <1>8, <2>4, <2>5, <2>6, <2>7, OneTroveHeld
<1>11. Cleared(Troves')
  BY <1>7, <1>8 DEF PInv, Cleared, OthersKept
<1>12. /\ ETHCovered(Troves', rewardSnapshots', defaultPool', L', lastError')
       /\ DInv => DInv'
  <2>1. defaultPool' = minus(defaultPool, NoAmounts)
    BY <1>5, Numbers, SMTT(30) DEF minus, NoAmounts, Amounts
  <2>2. ETHCovered(Troves, rewardSnapshots, defaultPool, L, lastError)
    BY DEF PInv
  <2>3. idle'
    BY <1>2 DEF idle
  <2>. QED
    BY <1>5, <1>7, <1>8, <2>1, <2>2, <2>3, NoShareCovered DEF DInv
<1>13. SurplusHeld(collSurplusPool', liquidation'.totals.collSurplus)
  BY <1>5, <1>9 DEF PInv
<1>14. GasHeld(TroveOwners', lusd', liquidation'.totals.LUSDGasCompensation)
  <2>1. PICK n \in Nat : n = Len(TroveOwners) /\ Len(TroveOwners') = n + 1
    BY <1>5, Numbers
  <2>2. lusd.gasPool >= LUSD_GAS_COMPENSATION * n + 0
    BY <1>9, <2>1 DEF PInv, GasHeld
  <2>3. PICK m \in Nat : m = LUSD_GAS_COMPENSATION * n
    BY GasProduct
  <2>4. LUSD_GAS_COMPENSATION * (n + 1) = m + LUSD_GAS_COMPENSATION /\ LUSD_GAS_COMPENSATION \in Nat
    BY <2>3, GasProduct
  <2>5. lusd'.gasPool >= LUSD_GAS_COMPENSATION * (n + 1) + 0
    BY <1>5, <2>2, <2>3, <2>4, Numbers
  <2>. QED
    BY <1>9, <2>1, <2>5 DEF GasHeld
<1>. QED
  BY <1>9, <1>10, <1>11, <1>12, <1>13, <1>14 DEF PInv

\* _adjustTrove: the trove changes by what the pool gets, the rewards included.
LEMMA AdjustTrovePools ==
    ASSUME IInv, IInv', PInv, NEW b \in Borrowers, NEW collChange \in Int, NEW LUSDChange \in Int,
           adjustTroveBy(b, collChange, LUSDChange)
    PROVE  PInv' /\ (DInv /\ SnapshotsTogether => DInv')
<1>1. PICK rate \in IF LUSDChange > 0 THEN borrowingRates ELSE {baseRate} :
         adjustTroveAtRate(b, collChange, LUSDChange, rate)
  BY DEF adjustTroveBy
<1>2. idle /\ isActive(b) /\ UNCHANGED <<liquidation, redemption>> /\ (LUSDChange > 0 => rate \in Nat)
  BY <1>1, BorrowingRate DEF adjustTroveAtRate, adjustTroveAllowed, IInv
<1>3. PICK fee \in Nat : fee = IF LUSDChange > 0 THEN borrowingFee(rate, LUSDChange) ELSE 0
  BY <1>2, FeeType
<1>4. PICK rewards \in Amounts : rewards = appliedRewards(b)
  BY RewardsWithinShare
<1>5. PICK newColl, newDebt, stake :
         /\ newColl = Troves[b].coll + rewards.ETH + collChange
         /\ newDebt = Troves[b].debt + rewards.LUSDDebt + (LUSDChange + fee)
         /\ stake = computeNewStake(newColl)
  OBVIOUS
<1>6. /\ Troves' = [Troves EXCEPT ![b].coll = newColl, ![b].debt = newDebt, ![b].stake = stake]
      /\ TroveOwners' = TroveOwners
      /\ rewardSnapshots' = appliedSnapshots(b)
      /\ totalStakes' = totalStakes - Troves[b].stake + stake
      /\ activePool' = plus(plus(activePool, rewards),
                            [ETH |-> collChange, LUSDDebt |-> LUSDChange + fee])
      /\ defaultPool' = minus(defaultPool, rewards)
      /\ lusd'.gasPool = lusd.gasPool
      /\ UNCHANGED <<L, lastError, collSurplusPool>>
  BY <1>1, <1>3, <1>4, <1>5 DEF adjustTroveAtRate, IInv, PoolType, LUSDBalances
<1>7. /\ Troves'[b].coll = newColl /\ Troves'[b].debt = newDebt /\ Troves'[b].stake = stake
      /\ Troves'[b].status = Troves[b].status
  BY <1>6, Numbers DEF Trove
<1>8. OthersKept(b)
  BY <1>6, Numbers DEF OthersKept, appliedSnapshots
<1>9. /\ collInTransit = 0 /\ debtInTransit = 0 /\ collInTransit' = 0 /\ debtInTransit' = 0
      /\ liquidation'.totals.collSurplus = 0 /\ liquidation'.totals.LUSDGasCompensation = 0
      /\ liquidation.totals.collSurplus = 0 /\ liquidation.totals.LUSDGasCompensation = 0
      /\ Transit' /\ SavedHeld'
  BY <1>2, NothingInTransit, StillNothingInTransit
<1>10. Held(Troves', totalStakes', activePool', 0, 0)
  <2>1. /\ activePool'.ETH = activePool.ETH + rewards.ETH + collChange
        /\ activePool'.LUSDDebt = activePool.LUSDDebt + rewards.LUSDDebt + (LUSDChange + fee)
        /\ rewards.ETH \in Nat /\ rewards.LUSDDebt \in Nat
    BY <1>6 DEF plus, Amounts
  <2>. /\ activePool.ETH \in Nat /\ activePool.LUSDDebt \in Nat
       /\ Troves[b].coll \in Nat /\ Troves[b].debt \in Nat
    BY Numbers
  <2>2. activePool'.ETH = activePool.ETH - Troves[b].coll + Troves'[b].coll + 0 - collInTransit
    BY <1>5, <1>7, <1>9, <2>1
  <2>3. activePool'.LUSDDebt = activePool.LUSDDebt - Troves[b].debt + Troves'[b].debt
                                 + 0 - debtInTransit
    BY <1>5, <1>7, <1>9, <2>1
  <2>4. totalStakes' = totalStakes - Troves[b].stake + Troves'[b].stake
    BY <1>6, <1>7
  <2>5. Held(Troves, totalStakes, activePool, collInTransit, debtInTransit)
        /\ collInTransit \in Int /\ debtInTransit \in Int
    BY <1>9 DEF PInv
  <2>. QED
    BY <1>8, <2>2, <2>3, <2>4, <2>5, OneTroveHeld
<1>11. Cleared(Troves')
  BY <1>2, <1>7, <1>8 DEF PInv, Cleared, OthersKept, isActive
<1>12. /\ ETHCovered(Troves', rewardSnapshots', defaultPool', L', lastError')
       /\ DInv /\ SnapshotsTogether => DInv'
  <2>1. ETHCovered(Troves, rewardSnapshots, defaultPool, L, lastError)
    BY DEF PInv
  <2>2. idle'
    BY <1>2 DEF idle
  <2>. QED
    BY <1>2, <1>4, <1>6, <1>8, <2>1, <2>2, AppliedCovered DEF DInv
<1>13. /\ SurplusHeld(collSurplusPool', liquidation'.totals.collSurplus)
       /\ GasHeld(TroveOwners', lusd', liquidation'.totals.LUSDGasCompensation)
  BY <1>6, <1>9 DEF PInv, GasHeld
<1>. QED
  BY <1>9, <1>10, <1>11, <1>12, <1>13 DEF PInv

\* _closeTrove: the trove is cleared, the others are not touched.
LEMMA ClosedTrove ==
    ASSUME IInv, NEW b \in Borrowers, NEW status \in Status, internalCloseTrove(b, status)
    PROVE  /\ OthersKept(b)
           /\ Troves'[b].coll = 0 /\ Troves'[b].debt = 0 /\ Troves'[b].stake = 0
           /\ Troves'[b].status = status
           /\ totalStakes' = totalStakes - Troves[b].stake + Troves'[b].stake
<1>1. PICK closed : closed = [Troves EXCEPT ![b] =
         [debt |-> 0, coll |-> 0, stake |-> 0, status |-> status, arrayIndex |-> Troves[b].arrayIndex]]
  OBVIOUS
<1>2. /\ Troves' = [closed EXCEPT ![Last(TroveOwners)].arrayIndex = Troves[b].arrayIndex]
      /\ totalStakes' = totalStakes - Troves[b].stake
      /\ rewardSnapshots' = [rewardSnapshots EXCEPT ![b] = NoAmounts]
  BY <1>1 DEF internalCloseTrove, reindexed
<1>3. closed \in [Borrowers -> Trove]
  BY <1>1, Numbers DEF Trove, IInv, TroveType
<1>4. \A y \in Borrowers : /\ Troves'[y].coll = closed[y].coll /\ Troves'[y].debt = closed[y].debt
                          /\ Troves'[y].stake = closed[y].stake /\ Troves'[y].status = closed[y].status
  BY <1>2, <1>3 DEF Trove
<1>5. /\ closed[b].coll = 0 /\ closed[b].debt = 0 /\ closed[b].stake = 0 /\ closed[b].status = status
      /\ \A y \in Borrowers : y # b => closed[y] = Troves[y]
  BY <1>1, Numbers
<1>6. \A y \in Borrowers : y # b => rewardSnapshots'[y] = rewardSnapshots[y]
  BY <1>2, Numbers
<1>7. OthersKept(b)
  BY <1>4, <1>5, <1>6 DEF OthersKept
<1>. QED
  BY <1>2, <1>4, <1>5, <1>7, Numbers

\* closeTrove: the pool gives up what the trove had, the GasPool one compensation.
LEMMA CloseTrovePools ==
    ASSUME IInv, IInv', PInv, NEW b \in Borrowers, closeTrove(b)
    PROVE  PInv' /\ (DInv => DInv')
<1>1. PICK rewards \in Amounts : rewards = appliedRewards(b)
  BY RewardsWithinShare
<1>2. /\ idle /\ UNCHANGED <<liquidation, redemption, L, lastError, collSurplusPool>>
      /\ internalCloseTrove(b, "closedByOwner")
      /\ activePool' = minus(plus(activePool, rewards),
                             [ETH |-> Troves[b].coll + rewards.ETH,
                              LUSDDebt |-> Troves[b].debt + rewards.LUSDDebt])
      /\ defaultPool' = minus(defaultPool, rewards)
      /\ lusd'.gasPool = lusd.gasPool - LUSD_GAS_COMPENSATION
  BY <1>1 DEF closeTrove, burnGasCompensation, IInv, PoolType, LUSDBalances
<1>3. /\ OthersKept(b)
      /\ Troves'[b].coll = 0 /\ Troves'[b].debt = 0 /\ Troves'[b].stake = 0
      /\ Troves'[b].status = "closedByOwner"
      /\ totalStakes' = totalStakes - Troves[b].stake + Troves'[b].stake
      /\ Len(TroveOwners') = Len(TroveOwners) - 1
  BY <1>2, ClosedTrove, CloseTroveType DEF Status, IInv
<1>4. /\ collInTransit = 0 /\ debtInTransit = 0 /\ collInTransit' = 0 /\ debtInTransit' = 0
      /\ liquidation'.totals.collSurplus = 0 /\ liquidation'.totals.LUSDGasCompensation = 0
      /\ liquidation.totals.collSurplus = 0 /\ liquidation.totals.LUSDGasCompensation = 0
      /\ Transit' /\ SavedHeld'
  BY <1>2, NothingInTransit, StillNothingInTransit
<1>5. Held(Troves', totalStakes', activePool', 0, 0)
  <2>. /\ rewards.ETH \in Nat /\ rewards.LUSDDebt \in Nat
       /\ activePool.ETH \in Nat /\ activePool.LUSDDebt \in Nat
       /\ Troves[b].coll \in Nat /\ Troves[b].debt \in Nat
    BY Numbers DEF Amounts
  <2>1. /\ activePool'.ETH = activePool.ETH + rewards.ETH - (Troves[b].coll + rewards.ETH)
        /\ activePool'.LUSDDebt = activePool.LUSDDebt + rewards.LUSDDebt
                                    - (Troves[b].debt + rewards.LUSDDebt)
    BY <1>2 DEF plus, minus
  <2>2. activePool'.ETH = activePool.ETH - Troves[b].coll + Troves'[b].coll + 0 - collInTransit
    BY <1>3, <1>4, <2>1, Numbers, SMTT(30)
  <2>3. activePool'.LUSDDebt = activePool.LUSDDebt - Troves[b].debt + Troves'[b].debt
                                 + 0 - debtInTransit
    BY <1>3, <1>4, <2>1, Numbers, SMTT(30)
  <2>4. Held(Troves, totalStakes, activePool, collInTransit, debtInTransit)
        /\ collInTransit \in Int /\ debtInTransit \in Int
    BY <1>4 DEF PInv
  <2>5. 0 \in Int
    OBVIOUS
  <2>. QED
    BY <1>3, <2>2, <2>3, <2>4, <2>5, OneTroveHeld, ZenonT(60)
<1>6. Cleared(Troves')
  BY <1>3 DEF PInv, Cleared, OthersKept
<1>7. ETHCovered(Troves', rewardSnapshots', defaultPool', L', lastError') /\ (DInv => DInv')
  <2>1. ETHCovered(Troves, rewardSnapshots, defaultPool, L, lastError)
    BY DEF PInv
  <2>2. idle'
    BY <1>2 DEF idle
  <2>. QED
    BY <1>1, <1>2, <1>3, <2>1, <2>2, NoShareCovered DEF DInv
<1>8. SurplusHeld(collSurplusPool', liquidation'.totals.collSurplus)
  BY <1>2, <1>4 DEF PInv
<1>9. GasHeld(TroveOwners', lusd', liquidation'.totals.LUSDGasCompensation)
  <2>1. PICK n \in Nat : n = Len(TroveOwners) /\ Len(TroveOwners') = n - 1
    BY <1>3, Numbers
  <2>2. PICK m \in Nat : m = LUSD_GAS_COMPENSATION * n
    BY GasProduct
  <2>3. LUSD_GAS_COMPENSATION * (n - 1) = m - LUSD_GAS_COMPENSATION /\ LUSD_GAS_COMPENSATION \in Nat
    BY <2>2, GasProduct
  <2>4. lusd.gasPool >= m + 0
    BY <1>4, <2>1, <2>2 DEF PInv, GasHeld
  <2>. QED
    BY <1>2, <1>4, <2>1, <2>3, <2>4, Numbers DEF GasHeld
<1>. QED
  BY <1>4, <1>5, <1>6, <1>7, <1>8, <1>9 DEF PInv

\* Surpluses, one of them replaced.
LEMMA SurplusReplaced ==
    ASSUME NEW f \in [Borrowers -> Nat], NEW g \in [Borrowers -> Nat], NEW b \in Borrowers,
           \A y \in Borrowers : y # b => g[y] = f[y]
    PROVE  total(g) = total(f) - f[b] + g[b] /\ total(f) \in Nat /\ f[b] <= total(f)
<1>1. IsFiniteSet(Borrowers) /\ Summand(f, Borrowers) /\ g[b] \in Int
  BY LiquityAssumption DEF Summand
<1>2. \A y \in Borrowers : f[y] \in Nat
  OBVIOUS
<1>. QED
  BY <1>1, <1>2, SumChange, SumNat DEF total

\* claimCollateral pays one surplus out of the pool that holds them.
LEMMA ClaimCollateralPools ==
    ASSUME IInv, PInv, NEW b \in Borrowers, claimCollateral(b)
    PROVE  PInv' /\ (DInv => DInv')
<1>1. PICK old \in [Borrowers -> Nat], new \in [Borrowers -> Nat] :
         /\ old = collSurplusPool.balances /\ new = [old EXCEPT ![b] = 0]
  BY DEF IInv, PoolType
<1>2. /\ idle /\ UNCHANGED <<Troves, TroveOwners, rewardSnapshots, totalStakes, L, lastError>>
      /\ UNCHANGED <<activePool, defaultPool, lusd, liquidation, redemption, saved>>
      /\ collSurplusPool'.ETH = collSurplusPool.ETH - old[b] /\ collSurplusPool'.balances = new
      /\ collSurplusPool.ETH \in Nat
  BY <1>1 DEF claimCollateral, IInv, PoolType
<1>3. liquidation.totals.collSurplus = 0 /\ liquidation'.totals.collSurplus = 0
  BY <1>2, NothingInTransit
<1>4. SurplusHeld(collSurplusPool', liquidation'.totals.collSurplus)
  <2>1. total(new) = total(old) - old[b] + new[b] /\ total(old) \in Nat
    BY <1>1, SurplusReplaced
  <2>2. collSurplusPool.ETH + 0 = total(old)
    BY <1>1, <1>3 DEF PInv, SurplusHeld
  <2>3. new[b] = 0 /\ old[b] \in Nat
    BY <1>1
  <2>. QED
    BY <1>2, <1>3, <2>1, <2>2, <2>3 DEF SurplusHeld
<1>5. Transit' /\ SavedHeld' /\ idle'
  BY <1>2, StillNothingInTransit DEF idle
<1>. QED
  BY <1>2, <1>4, <1>5 DEF PInv, DInv, collInTransit, debtInTransit

\* Nothing but the StabilityPool, the price and LUSD outside the GasPool changes,
\* and LUSD that is added there.
LEMMA PoolsNotTouched ==
    ASSUME IInv, IInv', PInv, idle, lusd'.gasPool >= lusd.gasPool,
           UNCHANGED <<Troves, TroveOwners, rewardSnapshots, totalStakes, L, lastError>>,
           UNCHANGED <<activePool, defaultPool, collSurplusPool, liquidation, redemption>>
    PROVE  PInv' /\ (DInv => DInv')
<1>1. Transit' /\ SavedHeld' /\ idle'
  BY StillNothingInTransit DEF idle
<1>2. PICK g \in Nat, h \in Nat : g = lusd.gasPool /\ h = lusd'.gasPool /\ h >= g
  BY DEF IInv, PoolType, LUSDBalances
<1>3. GasHeld(TroveOwners', lusd', liquidation'.totals.LUSDGasCompensation)
  <2>1. PICK n \in Nat : n = Len(TroveOwners)
    BY DEF IInv, TroveType
  <2>2. PICK m \in Nat : m = LUSD_GAS_COMPENSATION * n
    BY GasProduct
  <2>3. liquidation.totals.LUSDGasCompensation = 0
    BY NothingInTransit
  <2>4. g >= m + 0
    BY <1>2, <2>1, <2>2, <2>3 DEF PInv, GasHeld
  <2>5. h >= m + 0
    BY <1>2, <2>4
  <2>. QED
    BY <1>2, <2>1, <2>2, <2>3, <2>5 DEF GasHeld
<1>. QED
  BY <1>1, <1>3 DEF PInv, DInv, collInTransit, debtInTransit

\* Depositors, transfers and the price.
LEMMA DepositorPools ==
    ASSUME IInv, IInv', PInv, NEW amount \in Deposits, NEW gain \in ETHGains,
           provideToSP(amount, gain) \/ withdrawFromSP(amount, gain)
    PROVE  PInv' /\ (DInv => DInv')
<1>1. lusd'.gasPool = lusd.gasPool /\ lusd.gasPool \in Nat
  BY DEF provideToSP, withdrawFromSP, IInv, PoolType, LUSDBalances
<1>. QED
  BY <1>1, PoolsNotTouched DEF provideToSP, withdrawFromSP

\* Of the transfers, none takes from the GasPool.
LEMMA TransferPools ==
    ASSUME IInv, IInv', PInv, TransferAction
    PROVE  PInv' /\ (DInv => DInv')
<1>1. lusd \in LUSDBalances
  BY DEF IInv, PoolType
<1>2. ASSUME NEW amount \in Gifts, moveLUSD("users", "gasPool", amount)
      PROVE  lusd'.gasPool >= lusd.gasPool
  <2>1. amount \in Nat
    BY LiquityAssumption
  <2>2. lusd' = [lusd EXCEPT !.users = @ - amount, !.gasPool = @ + amount]
    BY <1>2 DEF moveLUSD
  <2>. QED
    BY <1>1, <2>1, <2>2 DEF LUSDBalances
<1>3. ASSUME moveLUSD("lqtyStaking", "users", lusd.lqtyStaking)
      PROVE  lusd'.gasPool >= lusd.gasPool
  BY <1>1, <1>3 DEF moveLUSD, LUSDBalances
<1>4. lusd'.gasPool >= lusd.gasPool
  BY <1>2, <1>3 DEF TransferAction
<1>. QED
  BY <1>4, PoolsNotTouched DEF TransferAction, moveLUSD

\* A new price moves nothing.
LEMMA ChangePricePools ==
    ASSUME IInv, IInv', PInv, NEW newPrice \in Prices, changePrice(newPrice)
    PROVE  PInv' /\ (DInv => DInv')
<1>1. lusd' = lusd /\ lusd.gasPool \in Nat
  BY DEF changePrice, storage, IInv, PoolType, LUSDBalances
<1>. QED
  BY <1>1, PoolsNotTouched DEF changePrice, storage

--------------------------------------------------------------------------------
(***************************************************************************)
(* Liquidations and redemptions: their start, and their end if they fail.  *)
(***************************************************************************)

\* What is saved satisfies the invariant, as the storage does.
LEMMA SavesPools ==
    ASSUME PInv, idle, saved' = <<storageRecord>>, UNCHANGED storage
    PROVE  SavedHeld' /\ (DInv => DebtCovered(saved'[1].Troves, saved'[1].rewardSnapshots,
                                              saved'[1].defaultPool, L', lastError'))
<1>1. saved'[1] = storageRecord
  OBVIOUS
<1>2. /\ saved'[1].Troves = Troves /\ saved'[1].TroveOwners = TroveOwners
      /\ saved'[1].rewardSnapshots = rewardSnapshots /\ saved'[1].totalStakes = totalStakes
      /\ saved'[1].activePool = activePool /\ saved'[1].defaultPool = defaultPool
      /\ saved'[1].collSurplusPool = collSurplusPool /\ saved'[1].lusd = lusd
  BY <1>1 DEF storageRecord
<1>3. UNCHANGED <<L, lastError>>
  BY DEF storage
<1>. QED
  BY <1>2, <1>3, NothingInTransit DEF PInv, SavedHeld, DInv

\* A liquidation starts with nothing in transit.
LEMMA StartLiquidationPools ==
    ASSUME IInv, PInv, NEW phase \in {"sequence", "batch"}, NEW todo, NEW user, NEW first, NEW n,
           startLiquidation(liquidationFrom(phase, todo, user, first, n))
    PROVE  PInv' /\ (DInv => DInv')
<1>1. /\ idle /\ saved' = <<storageRecord>> /\ UNCHANGED storage /\ redemption' = redemption
      /\ liquidation'.phase = phase /\ liquidation'.totals = NoValues
      /\ liquidation'.remainingLUSD = stabilityPool.totalLUSDDeposits
  BY DEF startLiquidation, liquidationFrom
<1>2. liquidation.totals = NoValues
  BY <1>1 DEF PInv, Transit, idle
<1>3. collInTransit' = collInTransit /\ debtInTransit' = debtInTransit
  BY <1>1, <1>2 DEF collInTransit, debtInTransit
<1>4. Transit'
  <2>1. stabilityPool' = stabilityPool /\ stabilityPool.totalLUSDDeposits \in Nat
    BY <1>1 DEF storage, IInv, PoolType
  <2>2. liquidation'.totals.debtToOffset = 0 /\ liquidation'.totals.collToSendToSP = 0
        /\ liquidation'.totals.debtToRedistribute = 0 /\ liquidation'.totals.collToRedistribute = 0
    BY <1>1 DEF NoValues
  <2>. QED
    BY <1>1, <2>1, <2>2 DEF PInv, Transit
<1>5. SavedHeld' /\ (DInv => DebtCovered(saved'[1].Troves, saved'[1].rewardSnapshots,
                                          saved'[1].defaultPool, L', lastError'))
  BY <1>1, SavesPools
<1>6. liquidation'.totals = liquidation.totals
  BY <1>1, <1>2
<1>. QED
  BY <1>1, <1>3, <1>4, <1>5, <1>6 DEF PInv, DInv, storage

\* So does a redemption.
LEMMA RedeemCollateralPools ==
    ASSUME IInv, PInv, NEW amount, NEW n, redeemCollateral(amount, n)
    PROVE  PInv' /\ (DInv => DInv')
<1>1. /\ idle /\ saved' = <<storageRecord>> /\ UNCHANGED storage /\ liquidation' = liquidation
      /\ redemption'.phase = "loop" /\ redemption'.totalLUSDToRedeem = 0
      /\ redemption'.totalETHDrawn = 0
  BY DEF redeemCollateral
<1>2. redemption.totalLUSDToRedeem = 0 /\ redemption.totalETHDrawn = 0
  BY <1>1 DEF PInv, Transit, idle
<1>3. collInTransit' = collInTransit /\ debtInTransit' = debtInTransit
  BY <1>1, <1>2 DEF collInTransit, debtInTransit
<1>4. Transit'
  BY <1>1 DEF PInv, Transit, storage, idle
<1>5. SavedHeld' /\ (DInv => DebtCovered(saved'[1].Troves, saved'[1].rewardSnapshots,
                                          saved'[1].defaultPool, L', lastError'))
  BY <1>1, SavesPools
<1>. QED
  BY <1>1, <1>3, <1>4, <1>5 DEF PInv, DInv, storage

\* A transaction that fails returns to what was saved.
LEMMA RevertPools ==
    ASSUME IInv, PInv, ~idle, Revert
    PROVE  PInv' /\ (DInv => DInv')
<1>1. /\ liquidation'.phase = "idle" /\ redemption'.phase = "idle"
      /\ liquidation'.totals = NoValues
      /\ redemption'.totalETHDrawn = 0 /\ redemption'.totalLUSDToRedeem = 0
  BY DEF Revert, NoLiquidation, NoRedemption
<1>2. /\ collInTransit' = 0 /\ debtInTransit' = 0 /\ idle' /\ Transit' /\ SavedHeld'
      /\ liquidation'.totals.collSurplus = 0 /\ liquidation'.totals.LUSDGasCompensation = 0
  BY <1>1 DEF collInTransit, debtInTransit, idle, Transit, SavedHeld, NoValues
<1>. QED
  BY <1>2 DEF PInv, SavedHeld, DInv, Revert

--------------------------------------------------------------------------------
(***************************************************************************)
(* The liquidation of one trove.                                           *)
(***************************************************************************)

\* The values of a trove's liquidation divide up what the trove has, and no
\* collateral goes where no debt goes.
SplitUp(b, values) ==
    /\ values.collGasCompensation + values.collToSendToSP + values.collToRedistribute
         + values.collSurplus = entireColl(b)
    /\ values.debtToOffset + values.debtToRedistribute = entireDebt(b)
    /\ values.debtToOffset = 0 => values.collToSendToSP = 0
    /\ values.debtToRedistribute = 0 => values.collToRedistribute = 0
    /\ values.LUSDGasCompensation = LUSD_GAS_COMPENSATION

\* All of the debt offset takes all of the collateral, none of it nothing.
LEMMA OffsetSplitUp ==
    ASSUME IInv, NEW b \in Borrowers, entireDebt(b) > 0,
           NEW offset \in Nat, offset <= entireDebt(b)
    PROVE  SplitUp(b, offsetAndRedistribute(b, offset))
<1>1. PICK whole \in Nat, debt \in Nat \ {0} : whole = entireColl(b) /\ debt = entireDebt(b)
  BY EntireTypes
<1>2. PICK gas \in Nat : gas = getCollGasCompensation(whole) /\ gas <= whole
  BY <1>1 DEF getCollGasCompensation, PERCENT_DIVISOR
<1>3. PICK coll \in Nat : coll = whole - gas
  BY <1>2
<1>4. PICK toSP \in Nat : toSP = (coll * offset) \div debt /\ toSP <= coll
  BY <1>1, Fraction
<1>5. offset = 0 => toSP = 0
  <2>1. (coll * 0) \div debt = 0
    BY SMT
  <2>. QED
    BY <1>4, <2>1
<1>6. offset = debt => toSP = coll
  <2>1. (coll * debt) \div debt = coll
    BY SMT
  <2>. QED
    BY <1>4, <2>1
<1>7. offsetAndRedistribute(b, offset) =
        [entireDebt |-> debt, collGasCompensation |-> gas,
         LUSDGasCompensation |-> LUSD_GAS_COMPENSATION,
         debtToOffset |-> offset, collToSendToSP |-> toSP,
         debtToRedistribute |-> debt - offset, collToRedistribute |-> coll - toSP,
         collSurplus |-> 0]
  BY <1>1, <1>2, <1>3, <1>4 DEF offsetAndRedistribute
<1>8. debt - offset = 0 => coll - toSP = 0
  BY <1>1, <1>4, <1>6
<1>9. gas + toSP + (coll - toSP) + 0 = whole /\ offset + (debt - offset) = debt
  BY <1>3
<1>. QED
  BY <1>1, <1>5, <1>7, <1>8, <1>9 DEF SplitUp

\* A capped offset leaves the rest as surplus; a debt of zero caps at zero.
LEMMA CappedSplitUp ==
    ASSUME IInv, NEW b \in Borrowers, getCurrentICR(b) >= MCR
    PROVE  SplitUp(b, getCappedOffsetVals(b))
<1>1. PICK whole \in Nat, debt \in Nat : whole = entireColl(b) /\ debt = entireDebt(b)
  BY EntireTypes
<1>2. MCR \in Nat /\ price \in Nat \ {0}
  BY ConstantTypes, EntireTypes
<1>3. PICK capped \in Nat : capped = (debt * MCR) \div price
  BY <1>2, MulNat, DivNat
<1>4. debt = 0 => capped = 0
  <2>1. (0 * MCR) \div price = 0
    BY <1>2, SMT
  <2>. QED
    BY <1>3, <2>1
<1>5. PICK gas \in Nat : gas = getCollGasCompensation(capped) /\ gas <= capped
  BY DEF getCollGasCompensation, PERCENT_DIVISOR
<1>6. getCappedOffsetVals(b) =
        [entireDebt |-> debt, collGasCompensation |-> gas,
         LUSDGasCompensation |-> LUSD_GAS_COMPENSATION,
         debtToOffset |-> debt, collToSendToSP |-> capped - gas,
         debtToRedistribute |-> 0, collToRedistribute |-> 0,
         collSurplus |-> whole - capped]
  BY <1>1, <1>3, <1>5 DEF getCappedOffsetVals
<1>7. gas + (capped - gas) + 0 + (whole - capped) = whole /\ debt + 0 = debt
  OBVIOUS
<1>8. debt = 0 => capped - gas = 0
  BY <1>4, <1>5
<1>. QED
  BY <1>1, <1>6, <1>7, <1>8 DEF SplitUp

\* Both modes.
LEMMA NormalSplitUp ==
    ASSUME IInv, NEW b \in Borrowers, NEW remaining \in Nat, getCurrentICR(b) < MCR
    PROVE  SplitUp(b, normalModeValues(b, remaining))
<1>1. entireDebt(b) \in Nat /\ entireDebt(b) > 0
  BY EntireTypes
<1>2. PICK offset \in Nat : offset = min(entireDebt(b), remaining) /\ offset <= entireDebt(b)
  BY <1>1 DEF min
<1>. QED
  BY <1>1, <1>2, OffsetSplitUp DEF normalModeValues

\* _liquidateRecoveryMode splits the whole of a trove, in each of its cases.
LEMMA RecoverySplitUp ==
    ASSUME IInv, NEW b \in Borrowers, NEW remaining \in Nat
    PROVE  SplitUp(b, recoveryModeValues(b, remaining))
<1>1. entireDebt(b) \in Nat /\ entireColl(b) \in Nat /\ price \in Nat \ {0}
  BY EntireTypes
<1>2. getCurrentICR(b) \in Nat
  <2>1. entireColl(b) * price \in Nat
    BY <1>1, MulNat
  <2>. QED
    BY <1>1, <2>1, DivNat, LiquityBaseAssumption DEF getCurrentICR, computeCR
<1>3. MCR \in Nat /\ DECIMAL_PRECISION \in Nat /\ DECIMAL_PRECISION < MCR
  BY LiquityBaseAssumption DEF MCR
<1>4. CASE getCurrentICR(b) <= DECIMAL_PRECISION
  <2>1. getCurrentICR(b) < MCR
    BY <1>2, <1>3, <1>4
  <2>2. entireDebt(b) > 0 /\ 0 <= entireDebt(b) /\ 0 \in Nat
    BY <1>1, <2>1, EntireTypes
  <2>3. SplitUp(b, offsetAndRedistribute(b, 0))
    BY <2>2, OffsetSplitUp
  <2>. QED
    BY <1>4, <2>3 DEF recoveryModeValues
<1>5. CASE ~(getCurrentICR(b) <= DECIMAL_PRECISION) /\ getCurrentICR(b) < MCR
  BY <1>5, NormalSplitUp DEF recoveryModeValues
<1>6. CASE ~(getCurrentICR(b) <= DECIMAL_PRECISION) /\ ~(getCurrentICR(b) < MCR)
  <2>1. getCurrentICR(b) >= MCR
    BY <1>2, <1>3, <1>6
  <2>. QED
    BY <1>6, <2>1, CappedSplitUp DEF recoveryModeValues
<1>. QED
  BY <1>4, <1>5, <1>6

\* Closing one trove: what it had is in transit until the end of the loop.
LEMMA LiquidateOnePools ==
    ASSUME IInv, IInv', PInv, liquidation.phase # "idle", NEW b \in Borrowers,
           NEW values \in LiquidationValues, SplitUp(b, values),
           NEW step, step.phase # "idle", liquidateOne(b, values, step)
    PROVE  PInv' /\ (DInv => DInv')
<1>1. PICK rewards \in Amounts : rewards = pendingRewards(b)
  BY RewardsWithinShare
<1>2. /\ internalCloseTrove(b, "closedByLiquidation")
      /\ activePool' = plus(activePool, rewards)
      /\ defaultPool' = minus(defaultPool, rewards)
      /\ collSurplusPool' = [collSurplusPool EXCEPT !.balances[b] = @ + values.collSurplus]
      /\ UNCHANGED <<L, lastError, stabilityPool, lusd, redemption, saved>>
      /\ liquidation'.phase = step.phase
      /\ liquidation'.remainingLUSD = liquidation.remainingLUSD - values.debtToOffset
      /\ liquidation'.totals = addLiquidationValuesToTotals(liquidation.totals, values)
  BY <1>1 DEF liquidateOne, tracked
<1>3. /\ OthersKept(b)
      /\ Troves'[b].coll = 0 /\ Troves'[b].debt = 0 /\ Troves'[b].stake = 0
      /\ Troves'[b].status = "closedByLiquidation"
      /\ totalStakes' = totalStakes - Troves[b].stake + Troves'[b].stake
      /\ Len(TroveOwners') = Len(TroveOwners) - 1
  BY <1>2, ClosedTrove, CloseTroveType DEF Status, IInv
<1>4. /\ liquidation.totals \in LiquidationValues /\ liquidation.remainingLUSD \in Nat
      /\ redemption.totalETHDrawn \in Nat /\ redemption.totalLUSDToRedeem \in Nat
  BY DEF IInv, LoopType, Liquidation, Redemption
<1>5. /\ liquidation'.totals.collSurplus = liquidation.totals.collSurplus + values.collSurplus
      /\ liquidation'.totals.LUSDGasCompensation
           = liquidation.totals.LUSDGasCompensation + LUSD_GAS_COMPENSATION
      /\ liquidation'.totals.debtToOffset = liquidation.totals.debtToOffset + values.debtToOffset
      /\ liquidation'.totals.collToSendToSP = liquidation.totals.collToSendToSP + values.collToSendToSP
      /\ liquidation'.totals.debtToRedistribute
           = liquidation.totals.debtToRedistribute + values.debtToRedistribute
      /\ liquidation'.totals.collToRedistribute
           = liquidation.totals.collToRedistribute + values.collToRedistribute
      /\ liquidation'.totals.collGasCompensation
           = liquidation.totals.collGasCompensation + values.collGasCompensation
  BY <1>2 DEF addLiquidationValuesToTotals, SplitUp
<1>6. /\ collInTransit' = collInTransit + entireColl(b) /\ collInTransit \in Int
      /\ debtInTransit' = debtInTransit + entireDebt(b) /\ debtInTransit \in Int
  BY <1>2, <1>4, <1>5 DEF collInTransit, debtInTransit, SplitUp, LiquidationValues
<1>7. Held(Troves', totalStakes', activePool', collInTransit', debtInTransit')
  <2>. /\ rewards.ETH \in Nat /\ rewards.LUSDDebt \in Nat
       /\ activePool.ETH \in Nat /\ activePool.LUSDDebt \in Nat
       /\ Troves[b].coll \in Nat /\ Troves[b].debt \in Nat
    BY Numbers DEF Amounts
  <2>1. /\ activePool'.ETH = activePool.ETH + rewards.ETH
        /\ activePool'.LUSDDebt = activePool.LUSDDebt + rewards.LUSDDebt
    BY <1>2 DEF plus
  <2>2. /\ collInTransit' = collInTransit + (Troves[b].coll + rewards.ETH)
        /\ debtInTransit' = debtInTransit + (Troves[b].debt + rewards.LUSDDebt)
    BY <1>1, <1>6 DEF entireColl, entireDebt
  <2>3. /\ activePool'.ETH = activePool.ETH - Troves[b].coll + Troves'[b].coll
                               + collInTransit' - collInTransit
        /\ activePool'.LUSDDebt = activePool.LUSDDebt - Troves[b].debt + Troves'[b].debt
                                    + debtInTransit' - debtInTransit
        /\ collInTransit' \in Int /\ debtInTransit' \in Int
    <3>. PICK c \in Int, d \in Int : c = collInTransit /\ d = debtInTransit
      BY <1>6
    <3>. Troves'[b].coll = 0 /\ Troves'[b].debt = 0
      BY <1>3
    <3>. QED
      BY <2>1, <2>2
  <2>4. Held(Troves, totalStakes, activePool, collInTransit, debtInTransit)
    BY DEF PInv
  <2>. QED
    BY <1>3, <1>6, <2>3, <2>4, OneTroveHeld
<1>8. Cleared(Troves')
  BY <1>3 DEF PInv, Cleared, OthersKept
<1>9. ~idle /\ ~idle'
  BY <1>2 DEF idle
<1>10. ETHCovered(Troves', rewardSnapshots', defaultPool', L', lastError') /\ (DInv => DInv')
  <2>1. ETHCovered(Troves, rewardSnapshots, defaultPool, L, lastError)
    BY DEF PInv
  <2>. QED
    BY <1>1, <1>2, <1>3, <1>9, <2>1, NoShareCovered DEF DInv
<1>11. SurplusHeld(collSurplusPool', liquidation'.totals.collSurplus)
  <2>. PICK old \in [Borrowers -> Nat] : old = collSurplusPool.balances
    BY DEF IInv, PoolType
  <2>1. PICK new \in [Borrowers -> Nat] : new = [old EXCEPT ![b] = @ + values.collSurplus]
    <3>1. old[b] + values.collSurplus \in Nat
      BY DEF LiquidationValues
    <3>. QED
      BY <3>1
  <2>2. collSurplusPool'.balances = new /\ collSurplusPool'.ETH = collSurplusPool.ETH
    BY <1>2, <2>1 DEF IInv, PoolType
  <2>3. total(new) = total(old) - old[b] + new[b] /\ total(old) \in Nat
    BY <2>1, SurplusReplaced
  <2>4. collSurplusPool.ETH + liquidation.totals.collSurplus = total(old)
    BY <2>1 DEF PInv, SurplusHeld
  <2>5. /\ new[b] = old[b] + values.collSurplus /\ old[b] \in Nat /\ values.collSurplus \in Nat
        /\ collSurplusPool.ETH \in Nat /\ liquidation.totals.collSurplus \in Nat
    BY <1>4, <2>1 DEF LiquidationValues, IInv, PoolType
  <2>. QED
    BY <1>5, <2>2, <2>3, <2>4, <2>5 DEF SurplusHeld
<1>12. GasHeld(TroveOwners', lusd', liquidation'.totals.LUSDGasCompensation)
  <2>1. PICK n \in Nat : n = Len(TroveOwners) /\ Len(TroveOwners') = n - 1
    BY <1>3, Numbers
  <2>2. PICK m \in Nat : m = LUSD_GAS_COMPENSATION * n
    BY GasProduct
  <2>3. LUSD_GAS_COMPENSATION * (n - 1) = m - LUSD_GAS_COMPENSATION /\ LUSD_GAS_COMPENSATION \in Nat
    BY <2>2, GasProduct
  <2>4. PICK gas \in Nat : gas = liquidation.totals.LUSDGasCompensation
    BY <1>4 DEF LiquidationValues
  <2>5. lusd.gasPool >= m + gas
    BY <2>1, <2>2, <2>4 DEF PInv, GasHeld
  <2>. QED
    BY <1>2, <1>5, <2>1, <2>3, <2>4, <2>5, Numbers DEF GasHeld
<1>13. Transit'
  <2>1. /\ values.debtToOffset \in Nat /\ values.collToSendToSP \in Nat
        /\ values.debtToRedistribute \in Nat /\ values.collToRedistribute \in Nat
        /\ liquidation.totals.debtToOffset \in Nat /\ liquidation.totals.collToSendToSP \in Nat
        /\ liquidation.totals.debtToRedistribute \in Nat
        /\ liquidation.totals.collToRedistribute \in Nat
    BY <1>4 DEF LiquidationValues
  <2>2. liquidation'.remainingLUSD + liquidation'.totals.debtToOffset
          = stabilityPool'.totalLUSDDeposits
    BY <1>2, <1>4, <1>5, <2>1 DEF PInv, Transit
  <2>3. liquidation'.totals.debtToOffset = 0 => liquidation'.totals.collToSendToSP = 0
    BY <1>5, <2>1 DEF PInv, Transit, SplitUp
  <2>4. liquidation'.totals.debtToRedistribute = 0 => liquidation'.totals.collToRedistribute = 0
    BY <1>5, <2>1 DEF PInv, Transit, SplitUp
  <2>5. redemption'.phase = "idle" =>
          redemption'.totalETHDrawn = 0 /\ redemption'.totalLUSDToRedeem = 0
    BY <1>2 DEF PInv, Transit
  <2>. QED
    BY <1>2, <2>2, <2>3, <2>4, <2>5 DEF Transit
<1>14. SavedHeld'
  BY <1>2, <1>9 DEF PInv, SavedHeld
<1>. QED
  BY <1>7, <1>8, <1>10, <1>11, <1>12, <1>13, <1>14 DEF PInv

\* An iteration that closes no trove.
LEMMA LoopGoesOnPools ==
    ASSUME PInv, liquidation.phase # "idle", liquidation'.phase # "idle",
           liquidation'.totals = liquidation.totals,
           liquidation'.remainingLUSD = liquidation.remainingLUSD,
           UNCHANGED <<storage, redemption, saved>>
    PROVE  PInv' /\ (DInv => DInv')
<1>1. ~idle /\ ~idle'
  BY DEF idle
<1>2. Transit'
  BY DEF PInv, Transit, storage
<1>3. SavedHeld'
  BY <1>1 DEF PInv, SavedHeld, storage
<1>4. collInTransit' = collInTransit /\ debtInTransit' = debtInTransit
  BY DEF collInTransit, debtInTransit
<1>. QED
  BY <1>1, <1>2, <1>3, <1>4 DEF PInv, DInv, storage

\* An iteration of either loop, whatever it decides about the trove.
LEMMA LiquidationIterationPools ==
    ASSUME IInv, IInv', PInv, liquidation.phase # "idle", NEW b \in Borrowers \union {Null},
           NEW step, step.phase # "idle", step.totals = liquidation.totals,
           step.remainingLUSD = liquidation.remainingLUSD,
           NEW stopped, stopped.phase # "idle", stopped.totals = liquidation.totals,
           stopped.remainingLUSD = liquidation.remainingLUSD,
           liquidationIteration(b, step, stopped)
    PROVE  PInv' /\ (DInv => DInv')
<1>1. liquidation.remainingLUSD \in Nat
  BY DEF IInv, LoopType, Liquidation
<1>2. ASSUME NEW values, liquidateOne(b, values, step) PROVE b \in Borrowers
  BY <1>2, ListMember DEF liquidateOne, closable, IInv
<1>3. CASE /\ verdict(b) = "normal"
           /\ liquidateOne(b, normalModeValues(b, liquidation.remainingLUSD), step)
  <2>1. getCurrentICR(b) < MCR /\ b \in Borrowers
    BY <1>2, <1>3 DEF verdict
  <2>2. PICK values \in LiquidationValues : /\ values = normalModeValues(b, liquidation.remainingLUSD)
                                           /\ SplitUp(b, values)
    BY <1>1, <2>1, NormalValuesType, NormalSplitUp
  <2>. QED
    BY <1>3, <2>1, <2>2, LiquidateOnePools
<1>4. CASE /\ verdict(b) = "recovery"
           /\ liquidateOne(b, recoveryModeValues(b, liquidation.remainingLUSD), step)
  <2>1. recoveryModeLiquidates(b, liquidation.remainingLUSD,
          computeCR(liquidation.systemColl, liquidation.systemDebt, price)) /\ b \in Borrowers
    BY <1>2, <1>4 DEF verdict
  <2>2. PICK values \in LiquidationValues : /\ values = recoveryModeValues(b, liquidation.remainingLUSD)
                                           /\ SplitUp(b, values)
    BY <1>1, <2>1, RecoveryValuesType, RecoverySplitUp
  <2>. QED
    BY <1>4, <2>1, <2>2, LiquidateOnePools
<1>5. CASE /\ liquidation' = step \/ liquidation' = stopped
           /\ UNCHANGED <<storage, price, redemption, saved>>
  BY <1>5, LoopGoesOnPools
<1>. QED
  BY <1>3, <1>4, <1>5 DEF liquidationIteration

\* The two loops.
LEMMA LiquidateTrovesStepPools ==
    ASSUME IInv, IInv', PInv, LiquidateTrovesStep
    PROVE  PInv' /\ (DInv => DInv')
<1>1. PICK step, stopped :
         /\ step = [liquidation EXCEPT !.user = getPrev(liquidation.user), !.left = @ - 1]
         /\ stopped = [liquidation EXCEPT !.phase = "finish"]
  OBVIOUS
<1>2. /\ liquidation.phase = "sequence" /\ liquidation \in Liquidation
      /\ liquidationIteration(liquidation.user, step, stopped)
  BY <1>1 DEF LiquidateTrovesStep, IInv, LoopType
<1>3. liquidation.user \in Borrowers \union {Null}
  BY <1>2 DEF Liquidation
<1>4. /\ step.phase = "sequence" /\ step.totals = liquidation.totals
      /\ step.remainingLUSD = liquidation.remainingLUSD
      /\ stopped.phase = "finish" /\ stopped.totals = liquidation.totals
      /\ stopped.remainingLUSD = liquidation.remainingLUSD
  BY <1>1, <1>2 DEF Liquidation
<1>. QED
  BY <1>2, <1>3, <1>4, LiquidationIterationPools

\* The same for one trove of batchLiquidateTroves, skipped or liquidated.
LEMMA BatchLiquidateStepPools ==
    ASSUME IInv, IInv', PInv, BatchLiquidateStep
    PROVE  PInv' /\ (DInv => DInv')
<1>1. PICK step, b : step = [liquidation EXCEPT !.todo = Tail(@)] /\ b = Head(liquidation.todo)
  OBVIOUS
<1>2. /\ liquidation.phase = "batch" /\ liquidation \in Liquidation /\ liquidation.todo # <<>>
      /\ \/ liquidationIteration(b, step, step)
         \/ liquidation' = step /\ UNCHANGED <<storage, redemption, saved>>
  BY <1>1 DEF BatchLiquidateStep, IInv, LoopType
<1>3. b \in Borrowers
  BY <1>1, <1>2 DEF Liquidation
<1>4. /\ step.phase = "batch" /\ step.totals = liquidation.totals
      /\ step.remainingLUSD = liquidation.remainingLUSD
  BY <1>1, <1>2 DEF Liquidation
<1>5. CASE liquidationIteration(b, step, step)
  BY <1>2, <1>3, <1>4, <1>5, LiquidationIterationPools
<1>6. CASE liquidation' = step /\ UNCHANGED <<storage, redemption, saved>>
  BY <1>2, <1>4, <1>6, LoopGoesOnPools
<1>. QED
  BY <1>2, <1>5, <1>6

--------------------------------------------------------------------------------
(***************************************************************************)
(* The end of a liquidation.                                               *)
(***************************************************************************)

\* A higher reward per unit staked raises the shares by it times the stakes.
LEMMA SharesRaised ==
    ASSUME NEW T \in [Borrowers -> Trove], NEW R \in [Borrowers -> Amounts],
           NEW l \in Amounts, NEW m \in Amounts, NEW u \in Nat, NEW v \in Nat,
           m.ETH = l.ETH + u, m.LUSDDebt = l.LUSDDebt + v
    PROVE  /\ total(ETHShares(T, R, m)) = total(ETHShares(T, R, l)) + u * total(Stakes(T))
           /\ total(DebtShares(T, R, m)) = total(DebtShares(T, R, l)) + v * total(Stakes(T))
<1>1. ASSUME NEW stake \in Nat, NEW x \in Nat, NEW y \in Nat, NEW w \in Nat
      PROVE  stake * ((x + w) - y) = stake * (x - y) + w * stake
  BY SMT
<1>2. \A b \in Borrowers : /\ ETHShares(T, R, m)[b] = ETHShares(T, R, l)[b] + u * Stakes(T)[b]
                           /\ DebtShares(T, R, m)[b] = DebtShares(T, R, l)[b] + v * Stakes(T)[b]
  <2>. SUFFICES ASSUME NEW b \in Borrowers
                PROVE  /\ ETHShares(T, R, m)[b] = ETHShares(T, R, l)[b] + u * Stakes(T)[b]
                       /\ DebtShares(T, R, m)[b] = DebtShares(T, R, l)[b] + v * Stakes(T)[b]
    OBVIOUS
  <2>1. /\ T[b].stake \in Nat /\ R[b].ETH \in Nat /\ R[b].LUSDDebt \in Nat
        /\ l.ETH \in Nat /\ l.LUSDDebt \in Nat
    BY DEF Trove, Amounts
  <2>2. /\ T[b].stake * ((l.ETH + u) - R[b].ETH)
             = T[b].stake * (l.ETH - R[b].ETH) + u * T[b].stake
        /\ T[b].stake * ((l.LUSDDebt + v) - R[b].LUSDDebt)
             = T[b].stake * (l.LUSDDebt - R[b].LUSDDebt) + v * T[b].stake
    BY <1>1, <2>1
  <2>. QED
    BY <2>2 DEF ETHShares, DebtShares, Stakes
<1>3. /\ IsFiniteSet(Borrowers) /\ Summand(Stakes(T), Borrowers)
      /\ Summand(ETHShares(T, R, l), Borrowers) /\ Summand(DebtShares(T, R, l), Borrowers)
  BY Summands
<1>. QED
  BY <1>2, <1>3, SumLinear DEF total

\* Quotient and remainder.
LEMMA Quotient ==
    ASSUME NEW x \in Nat, NEW y \in Nat \ {0}
    PROVE  x = (x \div y) * y + (x % y) /\ x \div y \in Nat /\ x % y \in Nat
<1>1. x = (x \div y) * y + (x % y)
  BY DivisionIdentity
<1>2. x \div y \in Nat
  BY DivNat
<1>3. x % y \in Nat
  BY ModNat
<1>. QED
  BY <1>1, <1>2, <1>3

\* What is redistributed, with the last error, is what the shares grow by and
\* the new error.
LEMMA RedistributePools ==
    ASSUME IInv, IInv', PInv, NEW amounts \in Amounts,
           amounts.LUSDDebt > 0 => totalStakes > 0,
           redistributeDebtAndColl(amounts), amounts.LUSDDebt = 0 => amounts.ETH = 0,
           defaultPool' = plus(defaultPool, amounts),
           UNCHANGED <<Troves, rewardSnapshots, totalStakes>>
    PROVE  /\ ETHCovered(Troves', rewardSnapshots', defaultPool', L', lastError')
           /\ DebtCovered(Troves, rewardSnapshots, defaultPool, L, lastError)
                => DebtCovered(Troves', rewardSnapshots', defaultPool', L', lastError')
<1>. /\ amounts.ETH \in Nat /\ amounts.LUSDDebt \in Nat /\ DECIMAL_PRECISION \in Nat
     /\ defaultPool \in Amounts /\ defaultPool.ETH \in Nat /\ defaultPool.LUSDDebt \in Nat
     /\ lastError.ETH \in Nat /\ lastError.LUSDDebt \in Nat /\ L \in Amounts /\ L' \in Amounts
     /\ Troves \in [Borrowers -> Trove] /\ rewardSnapshots \in [Borrowers -> Amounts]
     /\ totalStakes \in Nat
  BY ConstantTypes DEF IInv, TroveType, SystemType, PoolType, Amounts
<1>1. ETHCovered(Troves, rewardSnapshots, defaultPool, L, lastError)
  BY DEF PInv
<1>2. CASE amounts.LUSDDebt = 0
  <2>1. UNCHANGED <<L, lastError>>
    BY <1>2 DEF redistributeDebtAndColl
  <2>2. defaultPool' = defaultPool
    BY <1>2 DEF plus, Amounts
  <2>. QED
    BY <1>1, <2>1, <2>2
<1>3. CASE amounts.LUSDDebt > 0
  <2>1. totalStakes \in Nat \ {0} /\ totalStakes = total(Stakes(Troves))
    BY <1>3 DEF PInv, Held
  <2>2. /\ amounts.ETH * DECIMAL_PRECISION \in Nat
        /\ amounts.LUSDDebt * DECIMAL_PRECISION \in Nat
    BY MulNat
  <2>3. PICK coll \in Nat : coll = amounts.ETH * DECIMAL_PRECISION + lastError.ETH
    BY <2>2
  <2>4. PICK debt \in Nat : debt = amounts.LUSDDebt * DECIMAL_PRECISION + lastError.LUSDDebt
    BY <2>2
  <2>5. PICK u \in Nat, v \in Nat : u = coll \div totalStakes /\ v = debt \div totalStakes
    BY <2>1, Quotient
  <2>6. PICK r \in Nat, q \in Nat : r = coll % totalStakes /\ q = debt % totalStakes
    BY <2>1, Quotient
  <2>7. coll = u * totalStakes + r /\ debt = v * totalStakes + q
    BY <2>1, <2>5, <2>6, Quotient
  <2>8. /\ L' = [ETH |-> L.ETH + u, LUSDDebt |-> L.LUSDDebt + v]
        /\ lastError' = [ETH |-> r, LUSDDebt |-> q]
    BY <1>3, <2>3, <2>4, <2>5, <2>6 DEF redistributeDebtAndColl
  <2>9. PICK x \in Nat, y \in Nat : x = u * totalStakes /\ y = v * totalStakes
    BY <2>1, MulNat
  <2>10. /\ total(ETHShares(Troves, rewardSnapshots, L')) = total(ETHShares(Troves, rewardSnapshots, L)) + x
         /\ total(DebtShares(Troves, rewardSnapshots, L'))
              = total(DebtShares(Troves, rewardSnapshots, L)) + y
    <3>1. L'.ETH = L.ETH + u /\ L'.LUSDDebt = L.LUSDDebt + v
      BY <2>8
    <3>2. /\ total(ETHShares(Troves, rewardSnapshots, L'))
               = total(ETHShares(Troves, rewardSnapshots, L)) + u * total(Stakes(Troves))
          /\ total(DebtShares(Troves, rewardSnapshots, L'))
               = total(DebtShares(Troves, rewardSnapshots, L)) + v * total(Stakes(Troves))
      BY <3>1, SharesRaised
    <3>. QED
      BY <2>1, <2>9, <3>2
  <2>11. /\ total(ETHShares(Troves, rewardSnapshots, L)) \in Int
         /\ total(DebtShares(Troves, rewardSnapshots, L)) \in Int
    BY TotalTypes
  <2>12. /\ DECIMAL_PRECISION * (defaultPool.ETH + amounts.ETH)
              = DECIMAL_PRECISION * defaultPool.ETH + amounts.ETH * DECIMAL_PRECISION
         /\ DECIMAL_PRECISION * (defaultPool.LUSDDebt + amounts.LUSDDebt)
              = DECIMAL_PRECISION * defaultPool.LUSDDebt + amounts.LUSDDebt * DECIMAL_PRECISION
    BY SMT
  <2>13. PICK p \in Nat, pd \in Nat, e \in Nat, ed \in Nat :
            /\ p = DECIMAL_PRECISION * defaultPool.ETH
            /\ pd = DECIMAL_PRECISION * defaultPool.LUSDDebt
            /\ e = amounts.ETH * DECIMAL_PRECISION
            /\ ed = amounts.LUSDDebt * DECIMAL_PRECISION
    BY <2>2, MulNat
  <2>14. e + lastError.ETH = x + r /\ ed + lastError.LUSDDebt = y + q
    BY <2>3, <2>4, <2>7, <2>9, <2>13
  <2>15. /\ defaultPool'.ETH = defaultPool.ETH + amounts.ETH
         /\ defaultPool'.LUSDDebt = defaultPool.LUSDDebt + amounts.LUSDDebt
         /\ lastError'.ETH = r /\ lastError'.LUSDDebt = q
    BY <2>8 DEF plus
  <2>16. ETHCovered(Troves', rewardSnapshots', defaultPool', L', lastError')
    <3>1. p >= total(ETHShares(Troves, rewardSnapshots, L)) + lastError.ETH
      BY <1>1, <2>13 DEF ETHCovered
    <3>2. p + e >= total(ETHShares(Troves, rewardSnapshots, L)) + x + r
      BY <2>11, <2>14, <3>1
    <3>3. DECIMAL_PRECISION * defaultPool'.ETH = p + e
      BY <2>12, <2>13, <2>15
    <3>. QED
      BY <2>10, <2>15, <3>2, <3>3 DEF ETHCovered
  <2>17. ASSUME DebtCovered(Troves, rewardSnapshots, defaultPool, L, lastError)
         PROVE  DebtCovered(Troves', rewardSnapshots', defaultPool', L', lastError')
    <3>1. pd >= total(DebtShares(Troves, rewardSnapshots, L)) + lastError.LUSDDebt
      BY <2>13, <2>17 DEF DebtCovered
    <3>2. pd + ed >= total(DebtShares(Troves, rewardSnapshots, L)) + y + q
      BY <2>11, <2>14, <3>1
    <3>3. DECIMAL_PRECISION * defaultPool'.LUSDDebt = pd + ed
      BY <2>12, <2>13, <2>15
    <3>. QED
      BY <2>10, <2>15, <3>2, <3>3 DEF DebtCovered
  <2>. QED
    BY <2>16, <2>17
<1>. QED
  BY <1>2, <1>3

\* All that is in transit is moved: nothing to offset has no collateral to send.
LEMMA AllMoved ==
    ASSUME IInv, PInv, liquidation.phase # "idle"
    PROVE  /\ offsetOf(liquidation.totals).ETH = liquidation.totals.collToSendToSP
           /\ offsetOf(liquidation.totals).LUSDDebt = liquidation.totals.debtToOffset
           /\ redistributionOf(liquidation.totals).ETH = liquidation.totals.collToRedistribute
           /\ redistributionOf(liquidation.totals).LUSDDebt = liquidation.totals.debtToRedistribute
<1>1. /\ liquidation.totals.debtToOffset \in Nat /\ liquidation.remainingLUSD \in Nat
      /\ stabilityPool.totalLUSDDeposits \in Nat
  BY DEF IInv, LoopType, Liquidation, LiquidationValues, PoolType
<1>2. stabilityPool.totalLUSDDeposits = 0 => liquidation.totals.debtToOffset = 0
  BY <1>1 DEF PInv, Transit
<1>. QED
  BY <1>2 DEF PInv, Transit, offsetOf, redistributionOf, NoAmounts

\* The end of a liquidation.
LEMMA FinishLiquidationPools ==
    ASSUME IInv, IInv', PInv, FinishLiquidation
    PROVE  PInv' /\ (DInv => DInv')
<1>1. liquidation.phase # "idle" /\ redemption.phase = "idle" /\ redemption' = redemption
  BY LiquidationInProgress DEF FinishLiquidation, IInv, InProgress
<1>2. PICK totals \in LiquidationValues : totals = liquidation.totals
  BY DEF IInv, LoopType, Liquidation
<1>3. PICK toSP, toTroves : /\ toSP = offsetOf(totals) /\ toTroves = redistributionOf(totals)
  OBVIOUS
<1>4. /\ toSP.ETH = totals.collToSendToSP /\ toSP.LUSDDebt = totals.debtToOffset
      /\ toTroves.ETH = totals.collToRedistribute /\ toTroves.LUSDDebt = totals.debtToRedistribute
      /\ toTroves \in Amounts
  BY <1>1, <1>2, <1>3, AllMoved, MovedAmounts
<1>5. /\ activePool' = [ETH |-> activePool.ETH - toSP.ETH - toTroves.ETH - totals.collSurplus
                                  - totals.collGasCompensation,
                        LUSDDebt |-> activePool.LUSDDebt - toSP.LUSDDebt - toTroves.LUSDDebt]
      /\ defaultPool' = plus(defaultPool, toTroves)
      /\ collSurplusPool' = [collSurplusPool EXCEPT !.ETH = @ + totals.collSurplus]
      /\ lusd'.gasPool = lusd.gasPool - totals.LUSDGasCompensation
      /\ redistributeDebtAndColl(toTroves)
      /\ totals.debtToRedistribute > 0 => totalStakes > 0
      /\ liquidation' = NoLiquidation
      /\ UNCHANGED <<Troves, TroveOwners, rewardSnapshots, totalStakes>>
  BY <1>2, <1>3 DEF FinishLiquidation, liquidationSucceeds, IInv, PoolType, LUSDBalances
<1>6. /\ totals.collToSendToSP \in Nat /\ totals.collToRedistribute \in Nat
      /\ totals.debtToOffset \in Nat /\ totals.debtToRedistribute \in Nat
      /\ totals.collSurplus \in Nat /\ totals.collGasCompensation \in Nat
      /\ totals.LUSDGasCompensation \in Nat
      /\ activePool.ETH \in Nat /\ activePool.LUSDDebt \in Nat /\ lusd.gasPool \in Nat
      /\ Troves \in [Borrowers -> Trove] /\ TroveOwners \in Seq(Borrowers)
      /\ collSurplusPool \in [ETH : Nat, balances : [Borrowers -> Nat]]
  BY DEF LiquidationValues, IInv, PoolType, TroveType, Amounts, LUSDBalances
<1>7. /\ liquidation'.phase = "idle" /\ liquidation'.totals = NoValues /\ idle'
      /\ liquidation'.totals.collSurplus = 0 /\ liquidation'.totals.LUSDGasCompensation = 0
      /\ collInTransit' = 0 /\ debtInTransit' = 0 /\ Transit' /\ SavedHeld'
  <2>1. redemption.totalETHDrawn = 0 /\ redemption.totalLUSDToRedeem = 0
    BY <1>1 DEF PInv, Transit
  <2>2. liquidation'.phase = "idle" /\ liquidation'.totals = NoValues
    BY <1>5 DEF NoLiquidation
  <2>. QED
    BY <1>1, <2>1, <2>2 DEF idle, NoValues, collInTransit, debtInTransit, Transit, SavedHeld
<1>8. Held(Troves', totalStakes', activePool', 0, 0)
  <2>1. /\ redemption.totalETHDrawn = 0 /\ redemption.totalLUSDToRedeem = 0
    BY <1>1 DEF PInv, Transit
  <2>2. PICK colls \in Nat, debts \in Nat : colls = total(Colls(Troves)) /\ debts = total(Debts(Troves))
    <3>1. NoAmounts \in Amounts /\ [y \in Borrowers |-> NoAmounts] \in [Borrowers -> Amounts]
      BY DEF Amounts, NoAmounts
    <3>. QED
      BY <1>6, <3>1, TotalTypes
  <2>3. /\ activePool.ETH = colls + (totals.collToSendToSP + totals.collToRedistribute
                                       + totals.collSurplus + totals.collGasCompensation + 0)
        /\ activePool.LUSDDebt = debts + (totals.debtToOffset + totals.debtToRedistribute + 0)
        /\ totalStakes = total(Stakes(Troves))
    BY <1>2, <2>1, <2>2 DEF PInv, Held, collInTransit, debtInTransit
  <2>4. activePool'.ETH = colls + 0 /\ activePool'.LUSDDebt = debts + 0
    <3>1. /\ activePool'.ETH = activePool.ETH - totals.collToSendToSP - totals.collToRedistribute
                                - totals.collSurplus - totals.collGasCompensation
          /\ activePool'.LUSDDebt
               = activePool.LUSDDebt - totals.debtToOffset - totals.debtToRedistribute
      BY <1>4, <1>5
    <3>2. PICK w \in Nat, x \in Nat, y \in Nat, z \in Nat :
             /\ w = totals.collToSendToSP /\ x = totals.collToRedistribute
             /\ y = totals.collSurplus /\ z = totals.collGasCompensation
      BY <1>6
    <3>3. activePool'.ETH = colls + 0
      BY <2>3, <3>1, <3>2
    <3>4. activePool'.LUSDDebt = debts + 0
      BY <1>6, <2>3, <3>1
    <3>. QED
      BY <3>3, <3>4
  <2>. QED
    BY <1>5, <2>2, <2>3, <2>4 DEF Held
<1>9. Cleared(Troves')
  BY <1>5 DEF PInv
<1>10. ETHCovered(Troves', rewardSnapshots', defaultPool', L', lastError') /\ (DInv => DInv')
  <2>1. toTroves.LUSDDebt = 0 => toTroves.ETH = 0
    BY <1>2, <1>4 DEF PInv, Transit
  <2>2. /\ ETHCovered(Troves', rewardSnapshots', defaultPool', L', lastError')
        /\ DebtCovered(Troves, rewardSnapshots, defaultPool, L, lastError)
             => DebtCovered(Troves', rewardSnapshots', defaultPool', L', lastError')
    BY <1>4, <1>5, <2>1, RedistributePools
  <2>. QED
    BY <1>7, <2>2 DEF DInv
<1>11. SurplusHeld(collSurplusPool', liquidation'.totals.collSurplus)
  <2>1. /\ collSurplusPool'.balances = collSurplusPool.balances
        /\ collSurplusPool'.ETH = collSurplusPool.ETH + totals.collSurplus
        /\ collSurplusPool.ETH \in Nat
    BY <1>5, <1>6
  <2>. QED
    BY <1>2, <1>6, <1>7, <2>1 DEF PInv, SurplusHeld
<1>12. GasHeld(TroveOwners', lusd', liquidation'.totals.LUSDGasCompensation)
  <2>1. PICK n \in Nat : n = Len(TroveOwners) /\ Len(TroveOwners') = n
    BY <1>5, <1>6, SMTT(30)
  <2>2. PICK m \in Nat : m = LUSD_GAS_COMPENSATION * n
    BY GasProduct
  <2>3. lusd.gasPool >= m + totals.LUSDGasCompensation
    BY <1>2, <2>1, <2>2 DEF PInv, GasHeld
  <2>. QED
    BY <1>5, <1>6, <1>7, <2>1, <2>2, <2>3 DEF GasHeld
<1>. QED
  BY <1>7, <1>8, <1>9, <1>10, <1>11, <1>12 DEF PInv

--------------------------------------------------------------------------------
(***************************************************************************)
(* Redemptions.                                                            *)
(***************************************************************************)

\* The loop of a redemption leaves what was saved, and no liquidation starts.
LEMMA RedemptionGoesOn ==
    ASSUME IInv, PInv, redemption.phase = "loop", redemption'.phase # "idle",
           UNCHANGED <<L, lastError, stabilityPool, liquidation, saved>>
    PROVE  Transit' /\ SavedHeld' /\ ~idle /\ ~idle'
           /\ liquidation.totals = NoValues /\ liquidation'.totals = NoValues
<1>1. ~idle /\ ~idle' /\ liquidation.phase = "idle"
  BY DEF idle, IInv, InProgress
<1>2. liquidation.totals = NoValues
  BY <1>1 DEF PInv, Transit
<1>. QED
  BY <1>1, <1>2 DEF PInv, Transit, SavedHeld

\* What the redemption has taken so far, with one more lot.
LEMMA LotInTransit ==
    ASSUME IInv, PInv, redemption.phase = "loop", NEW b \in Borrowers, redeemable(b),
           redemption' = lotTaken(b), liquidation' = liquidation
    PROVE  /\ collInTransit \in Int /\ collInTransit' = collInTransit + ETHLot(b)
           /\ debtInTransit \in Int /\ debtInTransit' = debtInTransit + LUSDLot(b)
           /\ redemption'.phase = "loop"
<1>1. /\ redemption'.totalETHDrawn = redemption.totalETHDrawn + ETHLot(b)
      /\ redemption'.totalLUSDToRedeem = redemption.totalLUSDToRedeem + LUSDLot(b)
      /\ redemption'.phase = "loop"
      /\ redemption.totalETHDrawn \in Nat /\ redemption.totalLUSDToRedeem \in Nat
  BY DEF lotTaken, IInv, LoopType, Redemption
<1>2. liquidation.totals = NoValues
  BY DEF PInv, Transit, IInv, InProgress
<1>3. /\ liquidation.totals.collToSendToSP = 0 /\ liquidation.totals.collToRedistribute = 0
      /\ liquidation.totals.collSurplus = 0 /\ liquidation.totals.collGasCompensation = 0
      /\ liquidation.totals.debtToOffset = 0 /\ liquidation.totals.debtToRedistribute = 0
  BY <1>2 DEF NoValues
<1>4. ETHLot(b) \in Nat /\ LUSDLot(b) \in Nat
  BY LotType
<1>. QED
  BY <1>1, <1>3, <1>4 DEF collInTransit, debtInTransit

\* Only an active trove has a debt to redeem.
LEMMA RedeemedIsActive ==
    ASSUME IInv, PInv, NEW b \in Borrowers, redeemable(b)
    PROVE  isActive(b)
<1>. SUFFICES ASSUME ~isActive(b) PROVE FALSE
  OBVIOUS
<1>1. Troves[b].debt = 0
  BY DEF PInv, Cleared, isActive
<1>2. appliedRewards(b).LUSDDebt = 0
  BY DEF appliedRewards, hasPendingRewards, NoAmounts
<1>3. redeemedDebt(b) = 0
  BY <1>1, <1>2 DEF redeemedDebt
<1>. QED
  BY <1>3, LiquityBaseAssumption DEF redeemable

\* A trove that is redeemed and closed: the lot is in transit, the rest surplus.
LEMMA RedeemClosePools ==
    ASSUME IInv, IInv', PInv, NEW b \in Borrowers, redemption.phase = "loop", RedeemClose(b),
           UNCHANGED <<L, lastError, stabilityPool, liquidation, saved>>
    PROVE  PInv' /\ (DInv => DInv')
<1>1. redeemable(b) /\ internalCloseTrove(b, "closedByRedemption") /\ redemption' = lotTaken(b)
  BY DEF RedeemClose
<1>2. PICK rewards \in Amounts : rewards = appliedRewards(b)
  BY RewardsWithinShare
<1>3. PICK lot \in Nat, drawn \in Nat : lot = LUSDLot(b) /\ drawn = ETHLot(b)
  BY <1>1, LotType
<1>. /\ rewards.ETH \in Nat /\ rewards.LUSDDebt \in Nat /\ LUSD_GAS_COMPENSATION \in Nat
     /\ activePool.ETH \in Nat /\ activePool.LUSDDebt \in Nat
     /\ Troves[b].coll \in Nat /\ Troves[b].debt \in Nat /\ lusd.gasPool \in Nat
  BY Numbers, ConstantTypes DEF Amounts
<1>4. PICK surplus \in Nat : surplus = Troves[b].coll + rewards.ETH - drawn
                            /\ surplus = redeemedColl(b) - ETHLot(b)
  BY <1>1, <1>2, <1>3, LotType DEF redeemedColl
<1>5. Troves[b].debt + rewards.LUSDDebt - lot = LUSD_GAS_COMPENSATION
  BY <1>2, <1>3 DEF RedeemClose, redeemsAll, redeemedDebt
<1>6. /\ activePool'.ETH = activePool.ETH + rewards.ETH - surplus
      /\ activePool'.LUSDDebt = activePool.LUSDDebt + rewards.LUSDDebt - LUSD_GAS_COMPENSATION
      /\ defaultPool' = minus(defaultPool, rewards)
      /\ collSurplusPool' = [ETH |-> collSurplusPool.ETH + surplus,
                             balances |-> [collSurplusPool.balances EXCEPT ![b] = @ + surplus]]
      /\ lusd'.gasPool = lusd.gasPool - LUSD_GAS_COMPENSATION
  <2>1. activePool' = minus(plus(activePool, rewards),
                            [ETH |-> surplus, LUSDDebt |-> LUSD_GAS_COMPENSATION])
    BY <1>2, <1>4 DEF RedeemClose
  <2>2. lusd'.gasPool = lusd.gasPool - LUSD_GAS_COMPENSATION
    BY DEF RedeemClose, burnGasCompensation, IInv, PoolType, LUSDBalances
  <2>3. /\ defaultPool' = minus(defaultPool, rewards)
        /\ collSurplusPool' = [ETH |-> collSurplusPool.ETH + surplus,
                               balances |-> [collSurplusPool.balances EXCEPT ![b] = @ + surplus]]
    BY <1>2, <1>4 DEF RedeemClose
  <2>4. /\ activePool'.ETH = activePool.ETH + rewards.ETH - surplus
        /\ activePool'.LUSDDebt = activePool.LUSDDebt + rewards.LUSDDebt - LUSD_GAS_COMPENSATION
    BY <2>1 DEF plus, minus
  <2>. QED
    BY <2>2, <2>3, <2>4
<1>7. /\ OthersKept(b)
      /\ Troves'[b].coll = 0 /\ Troves'[b].debt = 0 /\ Troves'[b].stake = 0
      /\ Troves'[b].status = "closedByRedemption"
      /\ totalStakes' = totalStakes - Troves[b].stake + Troves'[b].stake
      /\ Len(TroveOwners') = Len(TroveOwners) - 1
  BY <1>1, ClosedTrove, CloseTroveType DEF Status, IInv
<1>8. PICK c \in Int, d \in Int : /\ c = collInTransit /\ collInTransit' = c + drawn
                                  /\ d = debtInTransit /\ debtInTransit' = d + lot
                                  /\ redemption'.phase = "loop"
  BY <1>1, <1>3, LotInTransit
<1>9. Transit' /\ SavedHeld' /\ ~idle /\ ~idle'
      /\ liquidation.totals = NoValues /\ liquidation'.totals = NoValues
  BY <1>8, RedemptionGoesOn
<1>10. Held(Troves', totalStakes', activePool', collInTransit', debtInTransit')
  <2>1. /\ activePool'.ETH = activePool.ETH - Troves[b].coll + 0 + (c + drawn) - c
        /\ activePool'.LUSDDebt = activePool.LUSDDebt - Troves[b].debt + 0 + (d + lot) - d
    BY <1>4, <1>5, <1>6
  <2>2. Held(Troves, totalStakes, activePool, collInTransit, debtInTransit)
    BY DEF PInv
  <2>3. /\ activePool'.ETH = activePool.ETH - Troves[b].coll + Troves'[b].coll
                               + collInTransit' - collInTransit
        /\ activePool'.LUSDDebt = activePool.LUSDDebt - Troves[b].debt + Troves'[b].debt
                                    + debtInTransit' - debtInTransit
        /\ collInTransit \in Int /\ debtInTransit \in Int
        /\ collInTransit' \in Int /\ debtInTransit' \in Int
    BY <1>7, <1>8, <2>1
  <2>. QED
    BY <1>7, <2>2, <2>3, OneTroveHeld
<1>11. Cleared(Troves')
  BY <1>7 DEF PInv, Cleared, OthersKept
<1>12. ETHCovered(Troves', rewardSnapshots', defaultPool', L', lastError') /\ (DInv => DInv')
  <2>1. ETHCovered(Troves, rewardSnapshots, defaultPool, L, lastError)
    BY DEF PInv
  <2>. QED
    BY <1>2, <1>6, <1>7, <1>9, <2>1, NoShareCovered DEF DInv
<1>13. SurplusHeld(collSurplusPool', liquidation'.totals.collSurplus)
  <2>. PICK old \in [Borrowers -> Nat] : old = collSurplusPool.balances
    BY DEF IInv, PoolType
  <2>1. PICK new \in [Borrowers -> Nat] : new = [old EXCEPT ![b] = @ + surplus]
    <3>1. old[b] + surplus \in Nat
      OBVIOUS
    <3>. QED
      BY <3>1
  <2>2. collSurplusPool'.balances = new /\ collSurplusPool'.ETH = collSurplusPool.ETH + surplus
    BY <1>6, <2>1
  <2>3. total(new) = total(old) - old[b] + new[b] /\ total(old) \in Nat
    BY <2>1, SurplusReplaced
  <2>4. collSurplusPool.ETH + 0 = total(old)
    BY <1>9 DEF PInv, SurplusHeld, NoValues
  <2>5. new[b] = old[b] + surplus /\ old[b] \in Nat /\ collSurplusPool.ETH \in Nat
    BY <2>1 DEF IInv, PoolType
  <2>6. collSurplusPool'.ETH + 0 = total(new)
    BY <2>2, <2>3, <2>4, <2>5
  <2>. QED
    BY <1>9, <2>2, <2>6 DEF SurplusHeld, NoValues
<1>14. GasHeld(TroveOwners', lusd', liquidation'.totals.LUSDGasCompensation)
  <2>1. PICK n \in Nat : n = Len(TroveOwners) /\ Len(TroveOwners') = n - 1
    BY <1>7, Numbers
  <2>2. PICK m \in Nat : m = LUSD_GAS_COMPENSATION * n
    BY GasProduct
  <2>3. LUSD_GAS_COMPENSATION * (n - 1) = m - LUSD_GAS_COMPENSATION
    BY <2>2, GasProduct
  <2>4. lusd.gasPool >= m + 0
    BY <1>9, <2>1, <2>2 DEF PInv, GasHeld, NoValues
  <2>5. lusd'.gasPool >= LUSD_GAS_COMPENSATION * (n - 1) + 0
    BY <1>6, <2>3, <2>4
  <2>. QED
    BY <1>9, <2>1, <2>5 DEF GasHeld, NoValues
<1>. QED
  BY <1>9, <1>10, <1>11, <1>12, <1>13, <1>14 DEF PInv

\* A trove that stays: its rewards are applied and a lot, or nothing, is taken.
LEMMA RedeemedTrovePools ==
    ASSUME IInv, IInv', PInv, NEW b \in Borrowers, redemption.phase = "loop", redeemable(b),
           redemption'.phase # "idle",
           NEW lot \in Nat, NEW drawn \in Nat, NEW stake,
           Troves' = [Troves EXCEPT ![b].debt = redeemedDebt(b) - lot,
                                    ![b].coll = redeemedColl(b) - drawn, ![b].stake = stake],
           totalStakes' = totalStakes - Troves[b].stake + stake,
           collInTransit' = collInTransit + drawn, debtInTransit' = debtInTransit + lot,
           collInTransit \in Int, debtInTransit \in Int,
           rewardSnapshots' = appliedSnapshots(b),
           activePool' = plus(activePool, appliedRewards(b)),
           defaultPool' = minus(defaultPool, appliedRewards(b)),
           UNCHANGED <<L, lastError, stabilityPool, liquidation, saved>>,
           UNCHANGED <<TroveOwners, collSurplusPool, lusd>>
    PROVE  PInv' /\ (DInv /\ SnapshotsTogether => DInv')
<1>1. PICK rewards \in Amounts : rewards = appliedRewards(b)
  BY RewardsWithinShare
<1>. /\ rewards.ETH \in Nat /\ rewards.LUSDDebt \in Nat
     /\ activePool.ETH \in Nat /\ activePool.LUSDDebt \in Nat
     /\ Troves[b].coll \in Nat /\ Troves[b].debt \in Nat
  BY Numbers DEF Amounts
<1>2. /\ Troves'[b].debt = Troves[b].debt + rewards.LUSDDebt - lot
      /\ Troves'[b].coll = Troves[b].coll + rewards.ETH - drawn
      /\ Troves'[b].stake = stake /\ Troves'[b].status = Troves[b].status
  <2>1. PICK debt, coll : debt = redeemedDebt(b) - lot /\ coll = redeemedColl(b) - drawn
    OBVIOUS
  <2>2. /\ Troves'[b].debt = debt /\ Troves'[b].coll = coll
        /\ Troves'[b].stake = stake /\ Troves'[b].status = Troves[b].status
    BY <2>1, Numbers DEF Trove
  <2>. QED
    BY <1>1, <2>1, <2>2 DEF redeemedDebt, redeemedColl
<1>3. OthersKept(b)
  BY Numbers DEF OthersKept, appliedSnapshots
<1>4. Transit' /\ SavedHeld' /\ ~idle /\ ~idle'
      /\ liquidation.totals = NoValues /\ liquidation'.totals = NoValues
  BY RedemptionGoesOn
<1>5. Held(Troves', totalStakes', activePool', collInTransit', debtInTransit')
  <2>1. /\ activePool'.ETH = activePool.ETH + rewards.ETH
        /\ activePool'.LUSDDebt = activePool.LUSDDebt + rewards.LUSDDebt
    BY <1>1 DEF plus
  <2>2. /\ activePool'.ETH = activePool.ETH - Troves[b].coll + Troves'[b].coll
                               + collInTransit' - collInTransit
        /\ activePool'.LUSDDebt = activePool.LUSDDebt - Troves[b].debt + Troves'[b].debt
                                    + debtInTransit' - debtInTransit
    BY <1>2, <2>1
  <2>3. Held(Troves, totalStakes, activePool, collInTransit, debtInTransit)
        /\ totalStakes' = totalStakes - Troves[b].stake + Troves'[b].stake
        /\ collInTransit' \in Int /\ debtInTransit' \in Int
    BY <1>2 DEF PInv
  <2>. QED
    BY <1>3, <2>2, <2>3, OneTroveHeld
<1>6. isActive(b)
  BY RedeemedIsActive
<1>7. Cleared(Troves')
  BY <1>2, <1>3, <1>6, ZenonT(60) DEF PInv, Cleared, OthersKept, isActive
<1>8. ETHCovered(Troves', rewardSnapshots', defaultPool', L', lastError')
      /\ (DInv /\ SnapshotsTogether => DInv')
  <2>1. ETHCovered(Troves, rewardSnapshots, defaultPool, L, lastError)
    BY DEF PInv
  <2>. QED
    BY <1>3, <1>4, <1>6, <2>1, AppliedCovered DEF DInv
<1>. QED
  BY <1>4, <1>5, <1>7, <1>8 DEF PInv

\* A partial redemption, and one that is cancelled after the rewards were applied.
LEMMA RedeemPartlyPools ==
    ASSUME IInv, IInv', PInv, NEW b \in Borrowers, redemption.phase = "loop", RedeemPartly(b),
           UNCHANGED <<L, lastError, stabilityPool, liquidation, saved>>
    PROVE  PInv' /\ (DInv /\ SnapshotsTogether => DInv')
<1>1. redeemable(b) /\ redemption' = lotTaken(b)
  BY DEF RedeemPartly
<1>2. PICK lot \in Nat, drawn \in Nat : lot = LUSDLot(b) /\ drawn = ETHLot(b)
  BY <1>1, LotType
<1>3. PICK stake : stake = computeNewStake(redeemedColl(b) - drawn)
  OBVIOUS
<1>4. /\ collInTransit \in Int /\ collInTransit' = collInTransit + drawn
      /\ debtInTransit \in Int /\ debtInTransit' = debtInTransit + lot
      /\ redemption'.phase = "loop"
  BY <1>1, <1>2, LotInTransit
<1>5. /\ Troves' = [Troves EXCEPT ![b].debt = redeemedDebt(b) - lot,
                                  ![b].coll = redeemedColl(b) - drawn, ![b].stake = stake]
      /\ totalStakes' = totalStakes - Troves[b].stake + stake
      /\ rewardSnapshots' = appliedSnapshots(b)
      /\ activePool' = plus(activePool, appliedRewards(b))
      /\ defaultPool' = minus(defaultPool, appliedRewards(b))
      /\ UNCHANGED <<TroveOwners, collSurplusPool, lusd>>
  BY <1>2, <1>3 DEF RedeemPartly
<1>. QED
  BY <1>1, <1>4, <1>5, RedeemedTrovePools

\* A partial redemption that is cancelled has only applied the rewards.
LEMMA CancelPartialPools ==
    ASSUME IInv, IInv', PInv, NEW b \in Borrowers, redemption.phase = "loop", CancelPartial(b),
           UNCHANGED <<L, lastError, stabilityPool, liquidation, saved>>
    PROVE  PInv' /\ (DInv /\ SnapshotsTogether => DInv')
<1>1. redeemable(b) /\ redemption' = [redemption EXCEPT !.phase = "finish"]
  BY DEF CancelPartial
<1>2. /\ redemption'.phase = "finish" /\ redemption'.totalETHDrawn = redemption.totalETHDrawn
      /\ redemption'.totalLUSDToRedeem = redemption.totalLUSDToRedeem
  BY <1>1 DEF IInv, LoopType, Redemption
<1>3. collInTransit' = collInTransit + 0 /\ collInTransit \in Int
      /\ debtInTransit' = debtInTransit + 0 /\ debtInTransit \in Int
  <2>1. /\ redemption.totalETHDrawn \in Nat /\ redemption.totalLUSDToRedeem \in Nat
        /\ liquidation.totals \in LiquidationValues
    BY DEF IInv, LoopType, Redemption, Liquidation
  <2>. QED
    BY <1>2, <2>1 DEF collInTransit, debtInTransit, LiquidationValues
<1>4. redeemedDebt(b) - 0 = redeemedDebt(b) /\ redeemedColl(b) - 0 = redeemedColl(b)
  BY <1>1, LotType
<1>5. Troves' = [Troves EXCEPT ![b].debt = redeemedDebt(b) - 0, ![b].coll = redeemedColl(b) - 0,
                               ![b].stake = Troves[b].stake]
  <2>1. Troves' = [Troves EXCEPT ![b].debt = redeemedDebt(b) - 0, ![b].coll = redeemedColl(b) - 0]
    BY <1>4 DEF CancelPartial
  <2>2. PICK debt, coll : debt = redeemedDebt(b) - 0 /\ coll = redeemedColl(b) - 0
    OBVIOUS
  <2>3. Troves[b] \in Trove
    BY Numbers
  <2>4. [Troves[b] EXCEPT !.debt = debt, !.coll = coll]
          = [Troves[b] EXCEPT !.debt = debt, !.coll = coll, !.stake = Troves[b].stake]
    BY <2>3 DEF Trove
  <2>. QED
    BY <2>1, <2>2, <2>4
<1>6. totalStakes' = totalStakes - Troves[b].stake + Troves[b].stake
  BY Numbers DEF CancelPartial
<1>7. /\ rewardSnapshots' = appliedSnapshots(b)
      /\ activePool' = plus(activePool, appliedRewards(b))
      /\ defaultPool' = minus(defaultPool, appliedRewards(b))
      /\ UNCHANGED <<TroveOwners, collSurplusPool, lusd>>
  BY DEF CancelPartial
<1>. QED
  BY <1>1, <1>2, <1>3, <1>5, <1>6, <1>7, RedeemedTrovePools

\* The end of a redemption moves what is in transit out of the pool.
LEMMA FinishRedemptionPools ==
    ASSUME IInv, IInv', PInv, FinishRedemption
    PROVE  PInv' /\ (DInv => DInv')
<1>1. redemption.phase # "idle" /\ ~idle /\ liquidation.phase = "idle"
  BY RedemptionInProgress DEF FinishRedemption, IInv, InProgress
<1>2. PICK redeemed \in Nat, drawn \in Nat :
         redeemed = redemption.totalLUSDToRedeem /\ drawn = redemption.totalETHDrawn
  BY DEF IInv, LoopType, Redemption
<1>3. /\ activePool'.ETH = activePool.ETH - drawn /\ activePool'.LUSDDebt = activePool.LUSDDebt - redeemed
      /\ lusd'.gasPool = lusd.gasPool
      /\ redemption' = NoRedemption
      /\ UNCHANGED <<Troves, TroveOwners, rewardSnapshots, totalStakes, L, lastError, defaultPool>>
      /\ UNCHANGED <<collSurplusPool, liquidation>>
  BY <1>2 DEF FinishRedemption, minus, IInv, PoolType, LUSDBalances
<1>4. liquidation.totals = NoValues
  BY <1>1 DEF PInv, Transit
<1>5. /\ liquidation.totals.collToSendToSP = 0 /\ liquidation.totals.collToRedistribute = 0
      /\ liquidation.totals.collSurplus = 0 /\ liquidation.totals.collGasCompensation = 0
      /\ liquidation.totals.debtToOffset = 0 /\ liquidation.totals.debtToRedistribute = 0
  BY <1>4 DEF NoValues
<1>6. /\ redemption'.phase = "idle" /\ redemption'.totalETHDrawn = 0
      /\ redemption'.totalLUSDToRedeem = 0 /\ idle'
  BY <1>1, <1>3 DEF NoRedemption, idle
<1>7. collInTransit = drawn /\ debtInTransit = redeemed /\ collInTransit' = 0 /\ debtInTransit' = 0
  BY <1>2, <1>3, <1>5, <1>6 DEF collInTransit, debtInTransit
<1>8. Held(Troves', totalStakes', activePool', 0, 0)
  <2>1. PICK colls \in Nat, debts \in Nat : colls = total(Colls(Troves)) /\ debts = total(Debts(Troves))
    <3>1. NoAmounts \in Amounts /\ [y \in Borrowers |-> NoAmounts] \in [Borrowers -> Amounts]
          /\ Troves \in [Borrowers -> Trove]
      BY DEF Amounts, NoAmounts, IInv, TroveType
    <3>. QED
      BY <3>1, TotalTypes
  <2>2. /\ activePool.ETH = colls + drawn /\ activePool.LUSDDebt = debts + redeemed
        /\ totalStakes = total(Stakes(Troves))
    BY <1>7, <2>1 DEF PInv, Held
  <2>3. activePool'.ETH = colls + 0 /\ activePool'.LUSDDebt = debts + 0
    BY <1>3, <2>2
  <2>. QED
    BY <1>3, <2>1, <2>2, <2>3 DEF Held
<1>9. Transit' /\ SavedHeld'
  BY <1>1, <1>3, <1>4, <1>5, <1>6 DEF Transit, SavedHeld
<1>. QED
  BY <1>3, <1>6, <1>7, <1>8, <1>9 DEF PInv, DInv, GasHeld

\* An iteration of a redemption.
LEMMA RedeemStepPools ==
    ASSUME IInv, IInv', PInv, RedeemStep
    PROVE  PInv' /\ (DInv /\ SnapshotsTogether => DInv')
<1>1. redemption.phase = "loop" /\ UNCHANGED <<L, lastError, stabilityPool, liquidation, saved>>
  BY DEF RedeemStep
<1>2. redemption.user \in Borrowers
  BY DEF IInv, LoopType, Redemption, redemptionLoopEnded, RedeemStep
<1>. QED
  BY <1>1, <1>2, RedeemClosePools, RedeemPartlyPools, CancelPartialPools DEF RedeemStep

--------------------------------------------------------------------------------
(***************************************************************************)
(* The theorems.                                                           *)
(***************************************************************************)

\* There is nothing at the start.
LEMMA PoolsInit == Init => PInv /\ DInv
<1>. SUFFICES ASSUME Init PROVE PInv /\ DInv
  OBVIOUS
<1>1. IInv
  BY InvInit
<1>2. Troves \in [Borrowers -> Trove] /\ rewardSnapshots \in [Borrowers -> Amounts] /\ L \in Amounts
  BY <1>1 DEF IInv, TroveType, SystemType
<1>3. \A b \in Borrowers : /\ Troves[b].coll = 0 /\ Troves[b].debt = 0 /\ Troves[b].stake = 0
                           /\ rewardSnapshots[b].ETH = 0 /\ rewardSnapshots[b].LUSDDebt = 0
  BY DEF Init, NoAmounts
<1>4. L.ETH = 0 /\ L.LUSDDebt = 0 /\ lastError.ETH = 0 /\ lastError.LUSDDebt = 0
  BY DEF Init, NoAmounts
<1>5. ASSUME NEW f, \A b \in Borrowers : f[b] = 0 PROVE total(f) = 0
  <2>1. IsFiniteSet(Borrowers)
    BY LiquityAssumption
  <2>2. \A b \in Borrowers : f[b] \in Nat
    BY <1>5
  <2>3. Summand(f, Borrowers)
    BY <1>5 DEF Summand
  <2>4. \A b \in Borrowers : f[b] = f[b] + 1 * f[b]
    BY <1>5
  <2>5. SumOver(f, Borrowers) = SumOver(f, Borrowers) + 1 * SumOver(f, Borrowers)
    BY <2>1, <2>3, <2>4, SumLinear
  <2>6. SumOver(f, Borrowers) \in Nat
    BY <2>1, <2>2, SumNat
  <2>. QED
    BY <2>5, <2>6, SMTT(30) DEF total
<1>6. /\ total(Colls(Troves)) = 0 /\ total(Debts(Troves)) = 0 /\ total(Stakes(Troves)) = 0
      /\ total(ETHShares(Troves, rewardSnapshots, L)) = 0
      /\ total(DebtShares(Troves, rewardSnapshots, L)) = 0
  <2>1. \A b \in Borrowers : Colls(Troves)[b] = 0 /\ Debts(Troves)[b] = 0 /\ Stakes(Troves)[b] = 0
    BY <1>3 DEF Colls, Debts, Stakes
  <2>2. \A b \in Borrowers : /\ ETHShares(Troves, rewardSnapshots, L)[b] = 0
                             /\ DebtShares(Troves, rewardSnapshots, L)[b] = 0
    BY <1>3, <1>4 DEF ETHShares, DebtShares
  <2>. QED
    BY <1>5, <2>1, <2>2
<1>7. total(collSurplusPool.balances) = 0 /\ collSurplusPool.ETH = 0
  BY <1>5 DEF Init
<1>8. /\ liquidation.phase = "idle" /\ redemption.phase = "idle" /\ liquidation.totals = NoValues
      /\ redemption.totalETHDrawn = 0 /\ redemption.totalLUSDToRedeem = 0
  BY DEF Init, NoLiquidation, NoRedemption
<1>9. idle /\ Transit /\ SavedHeld /\ collInTransit = 0 /\ debtInTransit = 0
  BY <1>8 DEF idle, Transit, SavedHeld, collInTransit, debtInTransit, NoValues
<1>10. activePool.ETH = 0 /\ activePool.LUSDDebt = 0 /\ defaultPool.ETH = 0
       /\ defaultPool.LUSDDebt = 0 /\ totalStakes = 0 /\ lusd.gasPool = 0 /\ Len(TroveOwners) = 0
  BY DEF Init, NoAmounts
<1>11. Held(Troves, totalStakes, activePool, collInTransit, debtInTransit) /\ Cleared(Troves)
  BY <1>3, <1>6, <1>9, <1>10 DEF Held, Cleared
<1>12. /\ ETHCovered(Troves, rewardSnapshots, defaultPool, L, lastError)
       /\ DebtCovered(Troves, rewardSnapshots, defaultPool, L, lastError)
  BY <1>4, <1>6, <1>10, ConstantTypes DEF ETHCovered, DebtCovered
<1>13. /\ SurplusHeld(collSurplusPool, liquidation.totals.collSurplus)
       /\ GasHeld(TroveOwners, lusd, liquidation.totals.LUSDGasCompensation)
  BY <1>7, <1>8, <1>10, ConstantTypes DEF SurplusHeld, GasHeld, NoValues
<1>. QED
  BY <1>9, <1>11, <1>12, <1>13 DEF PInv, DInv

\* Every step of every actor keeps the pools.
LEMMA PoolsNext ==
    ASSUME IInv, IInv', PInv, [Next]_vars PROVE PInv' /\ (DInv /\ SnapshotsTogether => DInv')
<1>1. CASE BorrowerAction
  <2>1. PICK b \in Borrowers :
          \/ \E value \in Collaterals, loan \in Loans : openTrove(b, value, loan)
          \/ \E collChange \in CollChanges, debtChange \in DebtChanges :
                adjustTrove(b, collChange, debtChange)
          \/ \E gain \in ETHGains : withdrawETHGainToTrove(b, gain)
          \/ closeTrove(b)
          \/ claimCollateral(b)
    BY <1>1 DEF BorrowerAction
  <2>2. CASE \E value \in Collaterals, loan \in Loans : openTrove(b, value, loan)
    BY <2>2, OpenTrovePools
  <2>3. CASE \/ \E collChange \in CollChanges, debtChange \in DebtChanges :
                   adjustTrove(b, collChange, debtChange)
             \/ \E gain \in ETHGains : withdrawETHGainToTrove(b, gain)
    <3>1. \A gain \in ETHGains : gain \in Int
      BY DEF ETHGains, IInv, PoolType
    <3>2. PICK collChange \in Int, debtChange \in Int : adjustTroveBy(b, collChange, debtChange)
      BY <2>3, <3>1, LiquityAssumption DEF adjustTrove, withdrawETHGainToTrove
    <3>. QED
      BY <3>2, AdjustTrovePools
  <2>4. CASE closeTrove(b)
    BY <2>4, CloseTrovePools
  <2>5. CASE claimCollateral(b)
    BY <2>5, ClaimCollateralPools
  <2>. QED
    BY <2>1, <2>2, <2>3, <2>4, <2>5
<1>2. CASE DepositorAction
  BY <1>2, DepositorPools DEF DepositorAction
<1>3. CASE TransferAction
  BY <1>3, TransferPools
<1>4. CASE LiquidatorAction
  BY <1>4, StartLiquidationPools
  DEF LiquidatorAction, liquidate, batchLiquidateTroves, liquidateTroves
<1>5. CASE RedeemerAction
  BY <1>5, RedeemCollateralPools DEF RedeemerAction
<1>6. CASE PriceAction
  BY <1>6, ChangePricePools DEF PriceAction
<1>7. CASE LiquidationStep
  <2>1. CASE LiquidationFails
    BY <2>1, LiquidationInProgress, RevertPools DEF LiquidationFails
  <2>. QED
    BY <1>7, <2>1, LiquidateTrovesStepPools, BatchLiquidateStepPools, FinishLiquidationPools
    DEF LiquidationStep
<1>8. CASE RedemptionStep
  <2>1. CASE RedeemStepFails \/ RedemptionFails
    BY <2>1, RedemptionInProgress, RevertPools DEF RedeemStepFails, RedemptionFails
  <2>. QED
    BY <1>8, <2>1, RedeemStepPools, FinishRedemptionPools DEF RedemptionStep
<1>9. CASE UNCHANGED vars
  <2>1. UNCHANGED <<storage, liquidation, redemption, saved>>
    BY <1>9 DEF vars
  <2>2. PInv'
    BY <2>1 DEF PInv, Transit, SavedHeld, idle, collInTransit, debtInTransit, storage
  <2>3. DInv => DInv'
    BY <2>1 DEF DInv, idle, storage
  <2>. QED
    BY <2>2, <2>3
<1>. QED
  BY <1>1, <1>2, <1>3, <1>4, <1>5, <1>6, <1>7, <1>8, <1>9 DEF Next

--------------------------------------------------------------------------------
(***************************************************************************)
(* The theorems about the pools.                                           *)
(***************************************************************************)

\* The pools, what is in transit and what a failure returns to agree, always.
THEOREM PoolsInvariance == Spec => []PInv
BY Invariance, PoolsInit, PoolsNext, PTL DEF Spec

\* What of PoolsCover holds whatever is rounded: the ActivePool holds what the
\* troves record, every surplus can be claimed, every gas compensation is there,
\* and the DefaultPool has the ETH of all pending rewards.
PoolsCoverETH ==
    PoolMatchesTroves /\ SurplusClaimable /\ GasPoolCoversTroves /\ DefaultPoolCoversETH

\* Totals as the properties write them.
LEMMA OverBorrowers == ASSUME NEW f PROVE overBorrowers(f) = total(f)
BY DEF overBorrowers, total, SumOver

\* What the unrounded shares leave covers the rounded rewards.
LEMMA RewardsCovered ==
    ASSUME IInv
    PROVE  /\ ETHCovered(Troves, rewardSnapshots, defaultPool, L, lastError) => DefaultPoolCoversETH
           /\ DebtCovered(Troves, rewardSnapshots, defaultPool, L, lastError)
                => DefaultPoolCoversDebt
<1>1. PICK e, d, se, sd :
         /\ e = [b \in Borrowers |-> pendingRewards(b).ETH]
         /\ d = [b \in Borrowers |-> pendingRewards(b).LUSDDebt]
         /\ se = ETHShares(Troves, rewardSnapshots, L)
         /\ sd = DebtShares(Troves, rewardSnapshots, L)
  OBVIOUS
<1>2. ASSUME NEW b \in Borrowers
      PROVE  /\ e[b] \in Nat /\ d[b] \in Nat /\ se[b] \in Nat /\ sd[b] \in Nat
             /\ DECIMAL_PRECISION * e[b] <= se[b] /\ DECIMAL_PRECISION * d[b] <= sd[b]
  BY <1>1, RewardsWithinShare DEF Amounts
<1>3. IsFiniteSet(Borrowers) /\ DECIMAL_PRECISION \in Nat \ {0}
  BY LiquityAssumption, ConstantTypes
<1>4. DECIMAL_PRECISION * total(e) <= total(se) /\ DECIMAL_PRECISION * total(d) <= total(sd)
  BY <1>2, <1>3, SumBound DEF Summand, total
<1>5. total(e) \in Nat /\ total(d) \in Nat /\ total(se) \in Nat /\ total(sd) \in Nat
  BY <1>2, <1>3, SumNat DEF total
<1>6. /\ defaultPool.ETH \in Nat /\ defaultPool.LUSDDebt \in Nat
      /\ lastError.ETH \in Nat /\ lastError.LUSDDebt \in Nat
  BY DEF IInv, PoolType, SystemType, Amounts
<1>7. ASSUME NEW c \in Nat \ {0}, NEW x \in Nat, NEW y \in Nat, c * x <= c * y PROVE x <= y
  BY <1>7, SMT
<1>8. ASSUME NEW c \in Nat \ {0}, NEW x \in Nat, NEW y \in Nat, NEW s \in Nat, NEW r \in Nat,
             c * x <= s, c * y >= s + r
      PROVE  y >= x
  <2>1. c * x \in Nat /\ c * y \in Nat
    BY MulNat
  <2>. QED
    BY <1>7, <1>8, <2>1
<1>. QED
  BY <1>1, <1>3, <1>4, <1>5, <1>6, <1>8, OverBorrowers
  DEF ETHCovered, DebtCovered, DefaultPoolCoversETH, DefaultPoolCoversDebt

\* The invariant says what the properties do.
LEMMA PoolsCovered == ASSUME IInv, PInv PROVE PoolsCoverETH /\ (DInv => PoolsCover)
<1>1. idle => /\ activePool.ETH = total(Colls(Troves)) /\ activePool.LUSDDebt = total(Debts(Troves))
              /\ totalStakes = total(Stakes(Troves))
              /\ collSurplusPool.ETH = total(collSurplusPool.balances)
              /\ lusd.gasPool >= LUSD_GAS_COMPENSATION * Len(TroveOwners)
  <2>. SUFFICES ASSUME idle PROVE <1>1!2
    OBVIOUS
  <2>1. /\ collInTransit = 0 /\ debtInTransit = 0 /\ liquidation.totals.collSurplus = 0
        /\ liquidation.totals.LUSDGasCompensation = 0
    BY NothingInTransit
  <2>2. Troves \in [Borrowers -> Trove] /\ rewardSnapshots \in [Borrowers -> Amounts] /\ L \in Amounts
        /\ collSurplusPool.ETH \in Nat /\ Len(TroveOwners) \in Nat
    BY DEF IInv, TroveType, SystemType, PoolType
  <2>3. total(Colls(Troves)) \in Nat /\ total(Debts(Troves)) \in Nat
        /\ LUSD_GAS_COMPENSATION * Len(TroveOwners) \in Nat
    BY <2>2, TotalTypes, MulNat, ConstantTypes
  <2>. QED
    BY <2>1, <2>2, <2>3 DEF PInv, Held, SurplusHeld, GasHeld
<1>2. PoolMatchesTroves /\ SurplusClaimable /\ GasPoolCoversTroves
  BY <1>1, OverBorrowers
  DEF PoolMatchesTroves, SurplusClaimable, GasPoolCoversTroves, Colls, Debts, Stakes
<1>3. DefaultPoolCoversETH /\ (DInv => DefaultPoolCoversDebt)
  BY RewardsCovered DEF PInv, DInv
<1>. QED
  BY <1>2, <1>3 DEF PoolsCoverETH, PoolsCover

\* Whatever the amounts, prices and transactions, the pools hold what the troves
\* record, and surpluses, gas compensations and the ETH of pending rewards can
\* be paid (ActivePool, DefaultPool, CollSurplusPool, GasPool).
THEOREM PoolsCoveredInETH == Spec => []PoolsCoverETH
BY Invariance, PoolsInvariance, PoolsCovered, PTL

--------------------------------------------------------------------------------
(***************************************************************************)
(* The debt of pending rewards.  It is covered too as long as no           *)
(* redistribution raises L_LUSDDebt and, by rounding, leaves L_ETH as it   *)
(* is: then _applyPendingRewards misses no debt.                           *)
(***************************************************************************)
RedistributionMovesBoth == [][L'.LUSDDebt > L.LUSDDebt => L'.ETH > L.ETH]_vars

SInv ==
    /\ SnapshotsTogether
    /\ ~idle => \A b \in Borrowers :
          /\ saved[1].Troves[b].status = "active"
          /\ saved[1].rewardSnapshots[b].ETH = L.ETH
          => saved[1].rewardSnapshots[b].LUSDDebt = L.LUSDDebt

\* A trove that is opened, or whose rewards are applied, has both snapshots at L.
LEMMA OneSnapshot ==
    ASSUME SnapshotsTogether, NEW b \in Borrowers, OthersKept(b), L' = L,
           \/ Troves'[b].status # "active"
           \/ rewardSnapshots'[b] = L
           \/ isActive(b) /\ rewardSnapshots'[b] = rewardSnapshots[b]
    PROVE  SnapshotsTogether'
<1>. SUFFICES ASSUME NEW y \in Borrowers, Troves'[y].status = "active",
                     rewardSnapshots'[y].ETH = L.ETH
              PROVE  rewardSnapshots'[y].LUSDDebt = L.LUSDDebt
  BY DEF SnapshotsTogether, isActive
<1>1. CASE y = b
  BY <1>1 DEF SnapshotsTogether, isActive
<1>2. CASE y # b
  BY <1>2 DEF SnapshotsTogether, OthersKept, isActive
<1>. QED
  BY <1>1, <1>2

\* Applying the rewards of a trove changes no other trove's snapshot.
LEMMA AppliedSnapshots ==
    ASSUME IInv, IInv', NEW b \in Borrowers, isActive(b), rewardSnapshots' = appliedSnapshots(b)
    PROVE  /\ \A y \in Borrowers : y # b => rewardSnapshots'[y] = rewardSnapshots[y]
           /\ rewardSnapshots'[b] = L \/ rewardSnapshots'[b] = rewardSnapshots[b]
<1>1. rewardSnapshots \in [Borrowers -> Amounts]
  BY DEF IInv, TroveType
<1>2. CASE hasPendingRewards(b)
  <2>1. rewardSnapshots' = [rewardSnapshots EXCEPT ![b] = L]
    BY <1>2 DEF appliedSnapshots
  <2>. QED
    BY <1>1, <2>1
<1>3. CASE ~hasPendingRewards(b)
  BY <1>3 DEF appliedSnapshots
<1>. QED
  BY <1>2, <1>3

\* Transactions of one step, and those that leave the snapshots alone.
LEMMA SnapshotsSame ==
    ASSUME SInv, UNCHANGED <<Troves, rewardSnapshots, L, saved>>, idle' \/ ~idle
    PROVE  SInv'
BY DEF SInv, SnapshotsTogether, isActive

\* What is changed while a transaction is in progress does not touch saved.
LEMMA SnapshotsProgress ==
    ASSUME SInv, SnapshotsTogether', L' = L, saved' = saved, idle' \/ ~idle
    PROVE  SInv'
BY DEF SInv

\* A borrower's operation takes both snapshots of a trove, or neither.
LEMMA BorrowerSnapshots ==
    ASSUME IInv, IInv', SInv, BorrowerAction
    PROVE  SInv'
<1>1. PICK b \in Borrowers :
        \/ \E value \in Collaterals, loan \in Loans : openTrove(b, value, loan)
        \/ \E collChange \in CollChanges, debtChange \in DebtChanges :
              adjustTrove(b, collChange, debtChange)
        \/ \E gain \in ETHGains : withdrawETHGainToTrove(b, gain)
        \/ closeTrove(b)
        \/ claimCollateral(b)
  BY DEF BorrowerAction
<1>2. Troves \in [Borrowers -> Trove] /\ rewardSnapshots \in [Borrowers -> Amounts]
  BY DEF IInv, TroveType
<1>3. SnapshotsTogether
  BY DEF SInv
<1>4. CASE \E value \in Collaterals, loan \in Loans : openTrove(b, value, loan)
  <2>1. /\ UNCHANGED <<L, saved, liquidation, redemption>> /\ idle
        /\ rewardSnapshots' = [rewardSnapshots EXCEPT ![b] = L]
        /\ \A y \in Borrowers : y # b => Troves'[y] = Troves[y]
    BY <1>2, <1>4 DEF openTrove, openTroveAtRate
  <2>2. OthersKept(b) /\ rewardSnapshots'[b] = L
    BY <1>2, <2>1 DEF OthersKept
  <2>. QED
    BY <1>3, <2>1, <2>2, OneSnapshot, SnapshotsProgress DEF idle
<1>5. CASE \/ \E collChange \in CollChanges, debtChange \in DebtChanges :
                 adjustTrove(b, collChange, debtChange)
           \/ \E gain \in ETHGains : withdrawETHGainToTrove(b, gain)
  <2>1. PICK collChange, debtChange, rate : adjustTroveAtRate(b, collChange, debtChange, rate)
    BY <1>5 DEF adjustTrove, withdrawETHGainToTrove, adjustTroveBy
  <2>2. /\ UNCHANGED <<L, saved, liquidation, redemption>> /\ idle /\ isActive(b)
        /\ rewardSnapshots' = appliedSnapshots(b)
        /\ \A y \in Borrowers : y # b => Troves'[y] = Troves[y]
    BY <1>2, <2>1 DEF adjustTroveAtRate, adjustTroveAllowed
  <2>3. OthersKept(b) /\ (rewardSnapshots'[b] = L \/ rewardSnapshots'[b] = rewardSnapshots[b])
    BY <2>2, AppliedSnapshots DEF OthersKept
  <2>. QED
    BY <1>3, <2>2, <2>3, OneSnapshot, SnapshotsProgress DEF idle
<1>6. CASE closeTrove(b)
  <2>1. /\ UNCHANGED <<L, saved, liquidation, redemption>> /\ idle
        /\ internalCloseTrove(b, "closedByOwner")
    BY <1>6 DEF closeTrove
  <2>2. OthersKept(b) /\ Troves'[b].status # "active"
    BY <2>1, ClosedTrove DEF Status
  <2>. QED
    BY <1>3, <2>1, <2>2, OneSnapshot, SnapshotsProgress DEF idle
<1>7. CASE claimCollateral(b)
  BY <1>7, SnapshotsSame DEF claimCollateral, idle
<1>. QED
  BY <1>1, <1>4, <1>5, <1>6, <1>7

\* What a transaction saves at its start has its snapshots together.
LEMMA SavesSnapshots ==
    ASSUME SInv, UNCHANGED storage, saved' = <<storageRecord>>
    PROVE  SInv'
<1>1. UNCHANGED <<Troves, rewardSnapshots, L>>
  BY DEF storage
<1>2. saved'[1].Troves = Troves /\ saved'[1].rewardSnapshots = rewardSnapshots
  BY DEF storageRecord
<1>. QED
  BY <1>1, <1>2 DEF SInv, SnapshotsTogether, isActive

\* A transaction that is undone leaves the snapshots that were saved.
LEMMA RevertSnapshots == ASSUME SInv, ~idle, Revert PROVE SInv'
BY DEF SInv, SnapshotsTogether, isActive, Revert, idle, NoLiquidation, NoRedemption

\* Liquidations: the closed trove has none, and a redistribution that raises the
\* debt per unit raises the ETH, so that no snapshot can agree in ETH alone.
LEMMA LiquidationSnapshots ==
    ASSUME IInv, IInv', SInv, LiquidationStep,
           [L'.LUSDDebt > L.LUSDDebt => L'.ETH > L.ETH]_vars
    PROVE  SInv'
<1>1. SnapshotsTogether
  BY DEF SInv
<1>2. CASE LiquidateTrovesStep \/ BatchLiquidateStep
  <2>1. ~idle
    BY <1>2 DEF LiquidateTrovesStep, BatchLiquidateStep, idle
  <2>2. CASE UNCHANGED storage /\ UNCHANGED saved
    BY <2>1, <2>2, SnapshotsSame DEF storage
  <2>3. CASE \E b, values, step : liquidateOne(b, values, step)
    <3>1. PICK b, values, step : liquidateOne(b, values, step)
      BY <2>3
    <3>2. internalCloseTrove(b, "closedByLiquidation") /\ L' = L /\ saved' = saved
      BY <3>1 DEF liquidateOne
    <3>3. b \in Borrowers
      BY <3>2 DEF internalCloseTrove, contains, IInv, TroveType
    <3>4. OthersKept(b) /\ Troves'[b].status # "active"
      BY <3>2, <3>3, ClosedTrove DEF Status
    <3>. QED
      BY <1>1, <2>1, <3>2, <3>3, <3>4, OneSnapshot, SnapshotsProgress
  <2>. QED
    BY <1>2, <2>2, <2>3
    DEF LiquidateTrovesStep, BatchLiquidateStep, liquidationIteration
<1>3. CASE FinishLiquidation
  <2>. liquidation.totals \in LiquidationValues
    BY DEF IInv, LoopType, Liquidation
  <2>1. PICK amounts \in Amounts :
          /\ amounts = redistributionOf(liquidation.totals)
          /\ amounts.LUSDDebt = liquidation.totals.debtToRedistribute
    BY MovedAmounts
  <2>2. /\ redistributeDebtAndColl(amounts) /\ UNCHANGED <<Troves, rewardSnapshots>>
        /\ amounts.LUSDDebt > 0 => totalStakes > 0
    BY <1>3, <2>1 DEF FinishLiquidation, liquidationSucceeds
  <2>3. L'.ETH >= L.ETH /\ L'.LUSDDebt >= L.LUSDDebt
    BY <2>1, <2>2, RedistributeInv
  <2>4. idle'
    BY <1>3, LiquidationInProgress DEF FinishLiquidation, IInv, InProgress, idle, NoLiquidation
  <2>5. ASSUME NEW b \in Borrowers, Troves'[b].status = "active",
               rewardSnapshots'[b].ETH = L'.ETH
        PROVE  rewardSnapshots'[b].LUSDDebt = L'.LUSDDebt
    <3>1. /\ rewardSnapshots[b].ETH <= L.ETH /\ rewardSnapshots[b].ETH \in Nat
          /\ L.ETH \in Nat /\ L'.ETH \in Nat /\ L.LUSDDebt \in Nat /\ L'.LUSDDebt \in Nat
      BY DEF IInv, SnapshotsBehind, TroveType, SystemType, Amounts
    <3>2. L'.ETH = L.ETH
      BY <2>2, <2>3, <2>5, <3>1
    <3>3. ~(L'.LUSDDebt > L.LUSDDebt)
      BY <3>1, <3>2 DEF vars, storage
    <3>4. L'.LUSDDebt = L.LUSDDebt
      BY <2>3, <3>1, <3>3
    <3>. QED
      BY <1>1, <2>2, <2>5, <3>2, <3>4 DEF SnapshotsTogether, isActive
  <2>. QED
    BY <2>4, <2>5 DEF SInv, SnapshotsTogether, isActive
<1>4. CASE LiquidationFails
  BY <1>4, LiquidationInProgress, RevertSnapshots DEF LiquidationFails
<1>. QED
  BY <1>2, <1>3, <1>4 DEF LiquidationStep

\* Redemptions take both snapshots of the troves they reach.
LEMMA RedemptionSnapshots ==
    ASSUME IInv, IInv', PInv, SInv, RedemptionStep
    PROVE  SInv'
<1>1. SnapshotsTogether /\ Troves \in [Borrowers -> Trove]
  BY DEF SInv, IInv, TroveType
<1>2. CASE RedeemStep
  <2>1. ~idle /\ L' = L /\ saved' = saved
    BY <1>2 DEF RedeemStep, idle
  <2>2. PICK b : b = redemption.user
    OBVIOUS
  <2>3. RedeemClose(b) \/ RedeemPartly(b) \/ CancelPartial(b)
    BY <1>2, <2>2 DEF RedeemStep
  <2>4. redeemable(b)
    BY <2>3 DEF RedeemClose, RedeemPartly, CancelPartial
  <2>5. b \in Borrowers /\ isActive(b)
    BY <2>4, RedeemedIsActive DEF redeemable, contains, IInv, TroveType
  <2>6. CASE RedeemClose(b)
    <3>1. OthersKept(b) /\ Troves'[b].status # "active"
      BY <2>5, <2>6, ClosedTrove DEF Status, RedeemClose
    <3>. QED
      BY <1>1, <2>1, <2>5, <3>1, OneSnapshot, SnapshotsProgress
  <2>7. CASE RedeemPartly(b) \/ CancelPartial(b)
    <3>1. /\ rewardSnapshots' = appliedSnapshots(b)
          /\ \A y \in Borrowers : y # b => Troves'[y] = Troves[y]
      BY <1>1, <2>7 DEF RedeemPartly, CancelPartial
    <3>2. OthersKept(b) /\ (rewardSnapshots'[b] = L \/ rewardSnapshots'[b] = rewardSnapshots[b])
      BY <2>5, <3>1, AppliedSnapshots DEF OthersKept
    <3>. QED
      BY <1>1, <2>1, <2>5, <3>2, OneSnapshot, SnapshotsProgress
  <2>. QED
    BY <2>3, <2>6, <2>7
<1>3. CASE FinishRedemption
  <2>1. idle' /\ UNCHANGED <<Troves, rewardSnapshots, L>>
    BY <1>3, RedemptionInProgress DEF FinishRedemption, IInv, InProgress, idle, NoRedemption
  <2>. QED
    BY <2>1 DEF SInv, SnapshotsTogether, isActive
<1>4. CASE RedeemStepFails \/ RedemptionFails
  BY <1>4, RedemptionInProgress, RevertSnapshots DEF RedeemStepFails, RedemptionFails
<1>. QED
  BY <1>2, <1>3, <1>4 DEF RedemptionStep

\* Every step keeps the snapshots together if redistributions move both.
LEMMA SnapshotsNext ==
    ASSUME IInv, IInv', PInv, SInv, [Next]_vars,
           [L'.LUSDDebt > L.LUSDDebt => L'.ETH > L.ETH]_vars
    PROVE  SInv'
<1>1. CASE DepositorAction \/ TransferAction
  BY <1>1, SnapshotsSame
  DEF DepositorAction, provideToSP, withdrawFromSP, TransferAction, moveLUSD, idle
<1>2. CASE PriceAction
  BY <1>2, SnapshotsSame DEF PriceAction, changePrice, storage, idle
<1>3. CASE LiquidatorAction \/ RedeemerAction
  BY <1>3, SavesSnapshots
  DEF LiquidatorAction, liquidate, batchLiquidateTroves, liquidateTroves, startLiquidation,
      RedeemerAction, redeemCollateral
<1>4. CASE UNCHANGED vars
  BY <1>4, SnapshotsSame DEF vars, storage, idle
<1>. QED
  BY <1>1, <1>2, <1>3, <1>4, BorrowerSnapshots, LiquidationSnapshots, RedemptionSnapshots DEF Next

\* Unless a redistribution is so small that its ETH per unit staked rounds to
\* nothing while its debt does not (what RewardsNoticed is about), the pools
\* cover everything: no operation on a trove fails for want of its rewards
\* (DefaultPool.sendETHToActivePool, decreaseLUSDDebt).
THEOREM PoolsCoverAll == Spec /\ RedistributionMovesBoth => []PoolsCover
<1>1. Init => SInv
  BY DEF Init, SInv, SnapshotsTogether, isActive, idle, NoLiquidation, NoRedemption
<1>2. /\ IInv /\ IInv' /\ PInv /\ SInv /\ DInv /\ [Next]_vars
      /\ [L'.LUSDDebt > L.LUSDDebt => L'.ETH > L.ETH]_vars
      => SInv' /\ DInv'
  BY SnapshotsNext, PoolsNext DEF SInv
<1>3. IInv /\ PInv /\ DInv => PoolsCover
  BY PoolsCovered
<1>4. Init => DInv
  BY PoolsInit
<1>. QED
  BY <1>1, <1>2, <1>3, <1>4, Invariance, PoolsInvariance, PTL DEF Spec, RedistributionMovesBoth

--------------------------------------------------------------------------------
(***************************************************************************)
(* The minimum debt of a trove.                                            *)
(***************************************************************************)

\* Every active trove owes at least MIN_NET_DEBT and the gas compensation,
\* whatever is borrowed, repaid, redeemed or redistributed to it: the amount
\* _requireAtLeastMinNetDebt asks for, at all times.
MinimumDebt ==
    \A b \in Borrowers : isActive(b) => Troves[b].debt >= MIN_NET_DEBT + LUSD_GAS_COMPENSATION

MInv ==
    /\ MinimumDebt
    /\ ~idle => \A b \in Borrowers :
          saved[1].Troves[b].status = "active" =>
             saved[1].Troves[b].debt >= MIN_NET_DEBT + LUSD_GAS_COMPENSATION

\* When one trove changes, only its own debt has to be looked at.
LEMMA OneMinimum ==
    ASSUME MinimumDebt, NEW b \in Borrowers,
           \A y \in Borrowers : y # b =>
              Troves'[y].debt = Troves[y].debt /\ Troves'[y].status = Troves[y].status,
           \/ Troves'[b].status # "active"
           \/ Troves'[b].debt >= MIN_NET_DEBT + LUSD_GAS_COMPENSATION
    PROVE  MinimumDebt'
BY DEF MinimumDebt, isActive

\* A step that leaves the troves alone keeps the minimum.
LEMMA MinimumSame ==
    ASSUME MInv, UNCHANGED <<Troves, saved>>, idle' \/ ~idle
    PROVE  MInv'
BY DEF MInv, MinimumDebt, isActive

\* In the middle of a transaction only the current state has to be looked at.
LEMMA MinimumProgress ==
    ASSUME MInv, MinimumDebt', saved' = saved, idle' \/ ~idle
    PROVE  MInv'
BY DEF MInv

\* A trove that gains debt keeps the minimum.
LEMMA MoreDebt ==
    ASSUME IInv, MinimumDebt, NEW b \in Borrowers, isActive(b)
    PROVE  /\ Troves[b].debt + appliedRewards(b).LUSDDebt \in Nat
           /\ Troves[b].debt + appliedRewards(b).LUSDDebt >= MIN_NET_DEBT + LUSD_GAS_COMPENSATION
<1>1. appliedRewards(b).LUSDDebt \in Nat /\ Troves[b].debt \in Nat
  BY RewardsWithinShare, Numbers DEF Amounts
<1>2. Troves[b].debt >= MIN_NET_DEBT + LUSD_GAS_COMPENSATION
  BY DEF MinimumDebt
<1>. QED
  BY <1>1, <1>2, LiquityBaseAssumption

\* openTrove and adjustTrove check the minimum (_requireAtLeastMinNetDebt).
LEMMA BorrowerMinimum ==
    ASSUME IInv, IInv', MInv, BorrowerAction
    PROVE  MInv'
<1>1. PICK b \in Borrowers :
        \/ \E value \in Collaterals, loan \in Loans : openTrove(b, value, loan)
        \/ \E collChange \in CollChanges, debtChange \in DebtChanges :
              adjustTrove(b, collChange, debtChange)
        \/ \E gain \in ETHGains : withdrawETHGainToTrove(b, gain)
        \/ closeTrove(b)
        \/ claimCollateral(b)
  BY DEF BorrowerAction
<1>2. Troves \in [Borrowers -> Trove] /\ Troves[b].debt \in Nat
  BY Numbers
<1>3. MinimumDebt /\ MIN_NET_DEBT \in Nat /\ LUSD_GAS_COMPENSATION \in Nat
  BY LiquityBaseAssumption DEF MInv
<1>4. CASE \E value \in Collaterals, loan \in Loans : openTrove(b, value, loan)
  <2>1. PICK value \in Collaterals, loan \in Loans, rate \in borrowingRates :
          openTroveAtRate(b, value, loan, rate)
    BY <1>4 DEF openTrove
  <2>2. loan \in Nat /\ rate \in Nat
    BY LiquityAssumption, BorrowingRate DEF IInv
  <2>3. PICK fee \in Nat : fee = borrowingFee(rate, loan)
    BY <2>2, FeeType
  <2>4. /\ UNCHANGED <<saved, liquidation, redemption>> /\ idle
        /\ \A y \in Borrowers : y # b => Troves'[y] = Troves[y]
        /\ Troves'[b].debt = Troves[b].debt + (loan + fee + LUSD_GAS_COMPENSATION)
        /\ loan + fee >= MIN_NET_DEBT
    BY <1>2, <2>1, <2>3 DEF openTroveAtRate, openTroveAllowed, getCompositeDebt
  <2>5. Troves'[b].debt >= MIN_NET_DEBT + LUSD_GAS_COMPENSATION
    BY <1>2, <1>3, <2>2, <2>4
  <2>. QED
    BY <1>3, <2>4, <2>5, OneMinimum, MinimumProgress DEF idle
<1>5. CASE \/ \E collChange \in CollChanges, debtChange \in DebtChanges :
                 adjustTrove(b, collChange, debtChange)
           \/ \E gain \in ETHGains : withdrawETHGainToTrove(b, gain)
  <2>. \A gain \in ETHGains : gain \in Int
    BY DEF ETHGains, IInv, PoolType
  <2>1. PICK collChange \in Int, debtChange \in Int : adjustTroveBy(b, collChange, debtChange)
    BY <1>5, LiquityAssumption DEF adjustTrove, withdrawETHGainToTrove
  <2>2. PICK rate \in IF debtChange > 0 THEN borrowingRates ELSE {baseRate} :
          adjustTroveAtRate(b, collChange, debtChange, rate)
    BY <2>1 DEF adjustTroveBy
  <2>3. debtChange > 0 => rate \in Nat
    BY <2>2, BorrowingRate DEF IInv
  <2>4. PICK fee \in Nat : fee = IF debtChange > 0 THEN borrowingFee(rate, debtChange) ELSE 0
    BY <2>3, FeeType
  <2>5. PICK debt : debt = Troves[b].debt + appliedRewards(b).LUSDDebt
    OBVIOUS
  <2>6. /\ UNCHANGED <<saved, liquidation, redemption>> /\ idle /\ isActive(b)
        /\ \A y \in Borrowers : y # b => Troves'[y] = Troves[y]
        /\ Troves'[b].debt = debt + (debtChange + fee)
        /\ debtChange < 0 => debt + (debtChange + fee) - LUSD_GAS_COMPENSATION >= MIN_NET_DEBT
    <3>1. PICK coll, stake :
            Troves' = [Troves EXCEPT ![b].coll = coll, ![b].debt = debt + (debtChange + fee),
                                     ![b].stake = stake]
      BY <2>2, <2>4, <2>5 DEF adjustTroveAtRate
    <3>2. UNCHANGED <<saved, liquidation, redemption>> /\ idle
      BY <2>2 DEF adjustTroveAtRate
    <3>3. adjustTroveAllowed(b, collChange, debtChange, rate)
      BY <2>2 DEF adjustTroveAtRate
    <3>4. isActive(b)
      BY <3>3 DEF adjustTroveAllowed
    <3>5. debtChange < 0 => debt + (debtChange + fee) - LUSD_GAS_COMPENSATION >= MIN_NET_DEBT
      <4>1. debtChange < 0 =>
              getNetDebt(Troves[b].debt + appliedRewards(b).LUSDDebt + (debtChange + 0)) >= MIN_NET_DEBT
        BY <3>3 DEF adjustTroveAllowed
      <4>2. debtChange < 0 => fee = 0
        BY <2>4
      <4>3. debt \in Nat
        BY <1>3, <2>5, <3>4, MoreDebt
      <4>4. debtChange < 0 => getNetDebt(debt + debtChange) >= MIN_NET_DEBT
        BY <2>5, <4>1, <4>3
      <4>. QED
        BY <1>3, <4>2, <4>3, <4>4 DEF getNetDebt
    <3>. QED
      BY <1>2, <3>1, <3>2, <3>4, <3>5
  <2>7. debt \in Nat /\ debt >= MIN_NET_DEBT + LUSD_GAS_COMPENSATION
    BY <1>3, <2>5, <2>6, MoreDebt
  <2>8. Troves'[b].debt >= MIN_NET_DEBT + LUSD_GAS_COMPENSATION
    <3>1. PICK change \in Int : change = debtChange + fee
      OBVIOUS
    <3>. QED
      BY <1>3, <2>6, <2>7, <3>1
  <2>. QED
    BY <1>3, <2>6, <2>8, OneMinimum, MinimumProgress DEF idle
<1>6. CASE closeTrove(b)
  <2>1. /\ UNCHANGED <<saved, liquidation, redemption>> /\ idle
        /\ internalCloseTrove(b, "closedByOwner")
    BY <1>6 DEF closeTrove
  <2>2. OthersKept(b) /\ Troves'[b].status # "active"
    BY <2>1, ClosedTrove DEF Status
  <2>. QED
    BY <1>3, <2>1, <2>2, OneMinimum, MinimumProgress DEF idle, OthersKept
<1>7. CASE claimCollateral(b)
  BY <1>7, MinimumSame DEF claimCollateral, idle
<1>. QED
  BY <1>1, <1>4, <1>5, <1>6, <1>7

\* A liquidation closes troves and gives debt to the others later.
LEMMA LiquidationMinimum ==
    ASSUME IInv, MInv, LiquidationStep
    PROVE  MInv'
<1>1. MinimumDebt
  BY DEF MInv
<1>2. CASE LiquidateTrovesStep \/ BatchLiquidateStep
  <2>1. ~idle
    BY <1>2 DEF LiquidateTrovesStep, BatchLiquidateStep, idle
  <2>2. CASE UNCHANGED storage /\ UNCHANGED saved
    BY <2>1, <2>2, MinimumSame DEF storage
  <2>3. CASE \E b, values, step : liquidateOne(b, values, step)
    <3>1. PICK b, values, step : liquidateOne(b, values, step)
      BY <2>3
    <3>2. internalCloseTrove(b, "closedByLiquidation") /\ L' = L /\ saved' = saved
      BY <3>1 DEF liquidateOne
    <3>3. b \in Borrowers
      BY <3>2 DEF internalCloseTrove, contains, IInv, TroveType
    <3>4. OthersKept(b) /\ Troves'[b].status # "active"
      BY <3>2, <3>3, ClosedTrove DEF Status
    <3>. QED
      BY <1>1, <2>1, <3>2, <3>3, <3>4, OneMinimum, MinimumProgress DEF OthersKept
  <2>. QED
    BY <1>2, <2>2, <2>3
    DEF LiquidateTrovesStep, BatchLiquidateStep, liquidationIteration
<1>3. CASE FinishLiquidation
  <2>1. idle' /\ Troves' = Troves
    BY <1>3, LiquidationInProgress DEF FinishLiquidation, IInv, InProgress, idle, NoLiquidation
  <2>. QED
    BY <1>1, <2>1 DEF MInv, MinimumDebt, isActive
<1>4. CASE LiquidationFails
  <2>1. ~idle /\ Revert
    BY <1>4, LiquidationInProgress DEF LiquidationFails
  <2>. QED
    BY <2>1 DEF MInv, MinimumDebt, isActive, Revert, idle, NoLiquidation, NoRedemption
<1>. QED
  BY <1>2, <1>3, <1>4 DEF LiquidationStep

\* A partial redemption that would leave less than the minimum is cancelled.
LEMMA RedemptionMinimum ==
    ASSUME IInv, PInv, MInv, RedemptionStep
    PROVE  MInv'
<1>1. MinimumDebt /\ Troves \in [Borrowers -> Trove]
  BY DEF MInv, IInv, TroveType
<1>2. CASE RedeemStep
  <2>1. ~idle /\ saved' = saved
    BY <1>2 DEF RedeemStep, idle
  <2>2. PICK b : b = redemption.user
    OBVIOUS
  <2>3. RedeemClose(b) \/ RedeemPartly(b) \/ CancelPartial(b)
    BY <1>2, <2>2 DEF RedeemStep
  <2>4. redeemable(b)
    BY <2>3 DEF RedeemClose, RedeemPartly, CancelPartial
  <2>5. b \in Borrowers /\ isActive(b)
    BY <2>4, RedeemedIsActive DEF redeemable, contains, IInv, TroveType
  <2>6. CASE RedeemClose(b)
    <3>1. OthersKept(b) /\ Troves'[b].status # "active"
      BY <2>5, <2>6, ClosedTrove DEF Status, RedeemClose
    <3>. QED
      BY <1>1, <2>1, <2>5, <3>1, OneMinimum, MinimumProgress DEF OthersKept
  <2>7. CASE RedeemPartly(b)
    <3>1. PICK debt : debt = redeemedDebt(b) - LUSDLot(b)
      OBVIOUS
    <3>2. /\ Troves'[b].debt = debt /\ debt - LUSD_GAS_COMPENSATION >= MIN_NET_DEBT
          /\ \A y \in Borrowers : y # b => Troves'[y] = Troves[y]
      BY <1>1, <2>5, <2>7, <3>1 DEF RedeemPartly, getNetDebt
    <3>3. debt \in Int
      <4>1. redeemedDebt(b) \in Nat
        BY <1>1, <2>5, MoreDebt DEF redeemedDebt
      <4>2. redemption.remainingLUSD \in Nat
        BY DEF IInv, LoopType, Redemption
      <4>. QED
        BY <3>1, <4>1, <4>2, ConstantTypes DEF LUSDLot, min
    <3>4. debt >= MIN_NET_DEBT + LUSD_GAS_COMPENSATION
      BY <3>2, <3>3, LiquityBaseAssumption
    <3>. QED
      BY <1>1, <2>1, <2>5, <3>2, <3>4, OneMinimum, MinimumProgress
  <2>8. CASE CancelPartial(b)
    <3>1. /\ Troves'[b].debt = redeemedDebt(b)
          /\ \A y \in Borrowers : y # b => Troves'[y] = Troves[y]
      BY <1>1, <2>5, <2>8 DEF CancelPartial
    <3>2. redeemedDebt(b) >= MIN_NET_DEBT + LUSD_GAS_COMPENSATION
      BY <1>1, <2>5, MoreDebt DEF redeemedDebt
    <3>. QED
      BY <1>1, <2>1, <2>5, <3>1, <3>2, OneMinimum, MinimumProgress
  <2>. QED
    BY <2>3, <2>6, <2>7, <2>8
<1>3. CASE FinishRedemption
  <2>1. idle' /\ Troves' = Troves
    BY <1>3, RedemptionInProgress DEF FinishRedemption, IInv, InProgress, idle, NoRedemption
  <2>. QED
    BY <1>1, <2>1 DEF MInv, MinimumDebt, isActive
<1>4. CASE RedeemStepFails \/ RedemptionFails
  <2>1. ~idle /\ Revert
    BY <1>4, RedemptionInProgress DEF RedeemStepFails, RedemptionFails
  <2>. QED
    BY <2>1 DEF MInv, MinimumDebt, isActive, Revert, idle, NoLiquidation, NoRedemption
<1>. QED
  BY <1>2, <1>3, <1>4 DEF RedemptionStep

\* The minimum holds, and in what a failure returns to as well.
THEOREM MinimumInvariance == Spec => []MInv
<1>1. Init => MInv
  BY DEF Init, MInv, MinimumDebt, isActive, idle, NoLiquidation, NoRedemption
<1>2. ASSUME IInv, IInv', PInv, MInv, [Next]_vars PROVE MInv'
  <2>1. CASE DepositorAction \/ TransferAction
    BY <1>2, <2>1, MinimumSame
    DEF DepositorAction, provideToSP, withdrawFromSP, TransferAction, moveLUSD, idle
  <2>2. CASE PriceAction
    BY <1>2, <2>2, MinimumSame DEF PriceAction, changePrice, storage, idle
  <2>3. CASE LiquidatorAction \/ RedeemerAction
    <3>1. UNCHANGED Troves /\ saved' = <<storageRecord>>
      BY <2>3
      DEF LiquidatorAction, liquidate, batchLiquidateTroves, liquidateTroves, startLiquidation,
          RedeemerAction, redeemCollateral, storage
    <3>2. saved'[1].Troves = Troves
      BY <3>1 DEF storageRecord
    <3>. QED
      BY <1>2, <3>1, <3>2 DEF MInv, MinimumDebt, isActive
  <2>4. CASE UNCHANGED vars
    BY <1>2, <2>4, MinimumSame DEF vars, storage, idle
  <2>. QED
    BY <1>2, <2>1, <2>2, <2>3, <2>4, BorrowerMinimum, LiquidationMinimum, RedemptionMinimum DEF Next
<1>. QED
  BY <1>1, <1>2, Invariance, PoolsInvariance, PTL DEF Spec

\* No trove is ever left with less than the minimum debt.
THEOREM MinimumDebtKept == Spec => []MinimumDebt
<1>1. MInv => MinimumDebt
  BY DEF MInv
<1>. QED
  BY <1>1, MinimumInvariance, PTL

--------------------------------------------------------------------------------
(***************************************************************************)
(* Recovery mode: the TCR does not fall.                                   *)
(***************************************************************************)

\* A dividend of at least z divisors has a quotient of at least z.
LEMMA DivAbove ==
    ASSUME NEW x \in Nat, NEW y \in Nat \ {0}, NEW z \in Int, z * y <= x PROVE x \div y >= z
BY SMT

\* A dividend is less than one more than its quotient of divisors.
LEMMA DivStrict ==
    ASSUME NEW x \in Nat, NEW y \in Nat \ {0}, NEW z \in Nat, x \div y <= z PROVE x < (z + 1) * y
BY SMT

\* Multiplication distributes over sums of integers.
LEMMA Products ==
    ASSUME NEW x \in Int, NEW y \in Int, NEW z \in Int
    PROVE  x * (y + z) = x * y + x * z /\ (x + y) * z = x * z + y * z /\ x * y \in Int
BY SMT

\* A trove above the ratio t of the system does not lower it by joining.
LEMMA JoiningAbove ==
    ASSUME NEW C \in Nat, NEW D \in Nat, NEW v \in Nat, NEW d \in Nat, NEW p \in Nat, NEW t \in Nat,
           t * D <= C * p, t * d <= v * p
    PROVE  t * (D + d) <= (C + v) * p
<1>1. t * (D + d) = t * D + t * d /\ (C + v) * p = C * p + v * p
  BY Products
<1>2. t * D \in Int /\ t * d \in Int /\ C * p \in Int /\ v * p \in Int
  BY Products
<1>. QED
  BY <1>1, <1>2

\* A trove whose ratio, rounded down, does not fall to below n, and n is at
\* least the ratio t of the system, lowers that by the last digit at most.
LEMMA BorrowingAbove ==
    ASSUME NEW C \in Nat, NEW D \in Nat, NEW c \in Nat, NEW d \in Nat, NEW x \in Nat, NEW y \in Nat,
           NEW p \in Nat, NEW t \in Nat, NEW n \in Nat,
           d <= D, t <= n, t * D <= C * p, n * (d + y) <= (c + x) * p, c * p < (n + 1) * d
    PROVE  (t - 1) * (D + y) <= (C + x) * p
<1>1. /\ n * (d + y) = n * d + n * y /\ (c + x) * p = c * p + x * p
      /\ (C + x) * p = C * p + x * p
  BY Products
<1>2. (n + 1) * d = n * d + 1 * d
  BY Products
<1>3. /\ (t - 1) * (D + y) = (t - 1) * D + (t - 1) * y
      /\ (t + (-1)) * D = t * D + (-1) * D /\ (t + (-1)) * y = t * y + (-1) * y
  BY Products
<1>4. t * y <= n * y
  BY MulMono
<1>5. PICK nd \in Int, ny \in Int, cp \in Int, xp \in Int, Cp \in Int, tD \in Int, ty \in Int :
        /\ nd = n * d /\ ny = n * y /\ cp = c * p /\ xp = x * p /\ Cp = C * p /\ tD = t * D
        /\ ty = t * y
  BY Products
<1>6. /\ tD <= Cp /\ nd + ny <= cp + xp /\ cp < nd + d /\ ty <= ny
  BY <1>1, <1>2, <1>4, <1>5
<1>7. (t - 1) * (D + y) = tD - D + ty - y
  BY <1>3, <1>5
<1>. QED
  BY <1>1, <1>5, <1>6, <1>7

\* In recovery mode there is debt, and the TCR is what the pools say.
LEMMA RecoveryNumbers ==
    ASSUME IInv, checkRecoveryMode
    PROVE  /\ getEntireSystemColl \in Nat /\ getEntireSystemDebt \in Nat \ {0} /\ price \in Nat \ {0}
           /\ getTCR \in Nat /\ getTCR < CCR /\ CCR \in Nat /\ CCR < UintMax /\ UintMax \in Nat
           /\ getTCR * getEntireSystemDebt <= getEntireSystemColl * price
<1>1. getEntireSystemColl \in Nat /\ getEntireSystemDebt \in Nat /\ price \in Nat \ {0}
  <2>1. getEntireSystemColl \in Nat /\ getEntireSystemDebt \in Nat
    BY DEF IInv, PoolType, Amounts, getEntireSystemColl, getEntireSystemDebt
  <2>2. price \in Nat \ {0}
    BY LiquityAssumption DEF IInv, SystemType
  <2>. QED
    BY <2>1, <2>2
<1>2. CCR \in Nat /\ CCR < UintMax /\ UintMax \in Nat
  BY LiquityBaseAssumption DEF CCR
<1>3. getTCR < CCR
  BY DEF checkRecoveryMode
<1>4. getEntireSystemDebt > 0
  BY <1>1, <1>2, <1>3 DEF getTCR, computeCR
<1>5. getEntireSystemColl * price \in Nat
  BY <1>1, MulNat
<1>6. getTCR = (getEntireSystemColl * price) \div getEntireSystemDebt
  BY <1>4 DEF getTCR, computeCR
<1>7. getTCR \in Nat
  BY <1>1, <1>4, <1>5, <1>6, DivNat
<1>8. getTCR * getEntireSystemDebt <= getEntireSystemColl * price
  BY <1>1, <1>4, <1>5, <1>6, <1>7, DivLower
<1>. QED
  BY <1>1, <1>2, <1>3, <1>4, <1>7, <1>8

\* The TCR after a step is at least what the pools are enough for.
LEMMA TCRAtLeast ==
    ASSUME IInv', NEW z \in Int, z <= UintMax,
           z * getEntireSystemDebt' <= getEntireSystemColl' * price'
    PROVE  getTCR' >= z /\ getTCR' \in Nat
<1>1. getEntireSystemColl' \in Nat /\ getEntireSystemDebt' \in Nat /\ price' \in Nat
  <2>1. getEntireSystemColl' \in Nat /\ getEntireSystemDebt' \in Nat
    BY DEF IInv, PoolType, Amounts, getEntireSystemColl, getEntireSystemDebt
  <2>2. price' \in Nat
    BY LiquityAssumption DEF IInv, SystemType
  <2>. QED
    BY <2>1, <2>2
<1>2. PICK C \in Nat, D \in Nat, p \in Nat :
        C = getEntireSystemColl' /\ D = getEntireSystemDebt' /\ p = price'
  BY <1>1
<1>3. getTCR' = IF D > 0 THEN (C * p) \div D ELSE UintMax
  BY <1>2 DEF getTCR, computeCR
<1>4. C * p \in Nat /\ z * D <= C * p
  BY <1>2, MulNat
<1>5. D > 0 => (C * p) \div D >= z /\ (C * p) \div D \in Nat
  BY <1>4, DivAbove, DivNat
<1>. QED
  BY <1>3, <1>5, LiquityBaseAssumption

\* A trove that is opened in recovery mode is above the CCR, and so the TCR.
LEMMA OpenTroveTCR ==
    ASSUME IInv, IInv', NEW b \in Borrowers, NEW value \in Nat, NEW loan \in Nat,
           openTrove(b, value, loan), checkRecoveryMode
    PROVE  getTCR' >= getTCR - 1
<1>1. PICK rate \in borrowingRates : openTroveAtRate(b, value, loan, rate)
  BY DEF openTrove
<1>2. rate \in Nat
  BY BorrowingRate DEF IInv
<1>3. PICK fee \in Nat : fee = borrowingFee(rate, loan)
  BY <1>2, FeeType
<1>4. PICK debt \in Nat \ {0} : debt = getCompositeDebt(loan + fee)
  BY LiquityBaseAssumption DEF getCompositeDebt
<1>5. /\ computeCR(value, debt, price) >= CCR /\ price' = price /\ defaultPool' = defaultPool
      /\ activePool' = plus(activePool, [ETH |-> value, LUSDDebt |-> debt])
  BY <1>1, <1>3, <1>4 DEF openTroveAtRate, openTroveAllowed
<1>6. /\ getEntireSystemColl' = getEntireSystemColl + value
      /\ getEntireSystemDebt' = getEntireSystemDebt + debt
  BY <1>5 DEF IInv, PoolType, Amounts, plus, getEntireSystemColl, getEntireSystemDebt
<1>7. PICK C \in Nat, D \in Nat, p \in Nat, t \in Nat :
        /\ C = getEntireSystemColl /\ D = getEntireSystemDebt /\ p = price /\ t = getTCR
        /\ t < CCR /\ CCR \in Nat /\ CCR < UintMax /\ UintMax \in Nat /\ t * D <= C * p
  BY RecoveryNumbers
<1>8. t * debt <= value * p
  <2>1. value * p \in Nat
    BY MulNat
  <2>2. (value * p) \div debt >= CCR
    BY <1>5, <1>7 DEF computeCR
  <2>3. (value * p) \div debt >= t
    BY <1>7, <2>1, <2>2, DivNat
  <2>. QED
    BY <2>1, <2>3, DivLower
<1>9. t * (D + debt) <= (C + value) * p
  BY <1>7, <1>8, JoiningAbove
<1>10. t \in Int /\ t <= UintMax
  BY <1>7
<1>11. getTCR' >= t /\ getTCR' \in Nat
  BY <1>5, <1>6, <1>7, <1>9, <1>10, TCRAtLeast
<1>. QED
  BY <1>7, <1>11

\* _adjustTrove in recovery mode: no collateral leaves, and who borrows raises
\* her own ratio, to at least the CCR.
LEMMA AdjustTroveTCR ==
    ASSUME IInv, IInv', PInv, MInv, NEW b \in Borrowers, NEW collChange \in Int,
           NEW LUSDChange \in Int, adjustTroveBy(b, collChange, LUSDChange), checkRecoveryMode
    PROVE  getTCR' >= getTCR - 1
<1>1. PICK rate \in IF LUSDChange > 0 THEN borrowingRates ELSE {baseRate} :
         adjustTroveAtRate(b, collChange, LUSDChange, rate)
  BY DEF adjustTroveBy
<1>2. LUSDChange > 0 => rate \in Nat
  BY <1>1, BorrowingRate DEF IInv
<1>3. PICK fee \in Nat : fee = IF LUSDChange > 0 THEN borrowingFee(rate, LUSDChange) ELSE 0
  BY <1>2, FeeType
<1>4. PICK rewards \in Amounts : rewards = appliedRewards(b)
  BY PendingRewardsType DEF IInv
<1>5. PICK change \in Int : change = LUSDChange + fee
  OBVIOUS
<1>6. /\ price' = price /\ idle /\ adjustTroveAllowed(b, collChange, LUSDChange, rate)
      /\ activePool' = plus(plus(activePool, rewards), [ETH |-> collChange, LUSDDebt |-> change])
      /\ defaultPool' = minus(defaultPool, rewards)
  BY <1>1, <1>3, <1>4, <1>5 DEF adjustTroveAtRate
<1>7. PICK c, d : c = Troves[b].coll + rewards.ETH /\ d = Troves[b].debt + rewards.LUSDDebt
  OBVIOUS
<1>8. /\ collChange >= 0 /\ isActive(b) /\ covered(rewards)
      /\ change > 0 => /\ computeCR(c + collChange, d + change, price) >= CCR
                       /\ computeCR(c + collChange, d + change, price) >= computeCR(c, d, price)
  <2>1. isActive(b) /\ covered(rewards)
    BY <1>4, <1>6 DEF adjustTroveAllowed
  <2>2. validAdjustmentInCurrentMode(collChange, change, computeCR(c, d, price),
                                     computeCR(c + collChange, d + change, price))
    BY <1>3, <1>4, <1>5, <1>6, <1>7 DEF adjustTroveAllowed
  <2>. QED
    BY <2>1, <2>2 DEF validAdjustmentInCurrentMode
<1>9. /\ activePool.ETH \in Nat /\ activePool.LUSDDebt \in Nat
      /\ defaultPool.ETH \in Nat /\ defaultPool.LUSDDebt \in Nat
      /\ rewards.ETH \in Nat /\ rewards.LUSDDebt \in Nat
      /\ Troves[b].coll \in Nat /\ Troves[b].debt \in Nat
  BY Numbers DEF Amounts
<1>10. /\ getEntireSystemColl' = getEntireSystemColl + collChange
       /\ getEntireSystemDebt' = getEntireSystemDebt + change
  BY <1>6, <1>9 DEF plus, minus, getEntireSystemColl, getEntireSystemDebt
<1>11. PICK C \in Nat, D \in Nat, p \in Nat, t \in Nat :
        /\ C = getEntireSystemColl /\ D = getEntireSystemDebt /\ p = price /\ t = getTCR
        /\ t < CCR /\ CCR \in Nat /\ CCR < UintMax /\ UintMax \in Nat /\ t * D <= C * p
  BY RecoveryNumbers
<1>12. c \in Nat /\ d \in Nat /\ d > 0 /\ d <= D
  <2>1. Troves[b].debt >= MIN_NET_DEBT + LUSD_GAS_COMPENSATION
    BY <1>8 DEF MInv, MinimumDebt
  <2>2. Troves[b].debt <= activePool.LUSDDebt
    <3>1. debtInTransit = 0
      BY <1>6, NothingInTransit
    <3>2. activePool.LUSDDebt = total(Debts(Troves)) + 0
      BY <3>1 DEF PInv, Held
    <3>3. Troves[b].debt <= total(Debts(Troves)) /\ total(Debts(Troves)) \in Nat
      BY TotalTypes, Numbers
    <3>. QED
      BY <3>2, <3>3
  <2>3. rewards.LUSDDebt <= defaultPool.LUSDDebt
    BY <1>8 DEF covered
  <2>4. D = activePool.LUSDDebt + defaultPool.LUSDDebt
    BY <1>11 DEF getEntireSystemDebt
  <2>. QED
    BY <1>7, <1>9, <2>1, <2>2, <2>3, <2>4, LiquityBaseAssumption
<1>13. CASE change > 0
  <2>. change \in Nat /\ collChange \in Nat
    BY <1>8, <1>13
  <2>1. PICK n \in Nat : n = ((c + collChange) * p) \div (d + change)
    BY <1>12, MulNat, DivNat
  <2>. d + change \in Nat \ {0}
    BY <1>12
  <2>2. (c * p) \div d <= n /\ CCR <= n
    BY <1>8, <1>11, <1>12, <1>13, <2>1 DEF computeCR
  <2>3. c * p \in Nat /\ (c + collChange) * p \in Nat
    BY <1>12, MulNat
  <2>4. n * (d + change) <= (c + collChange) * p
    <3>1. PICK num \in Nat, den \in Nat \ {0} : num = (c + collChange) * p /\ den = d + change
      BY <2>3
    <3>2. num \div den >= n
      BY <2>1, <3>1
    <3>3. n * den <= num
      BY <3>2, DivLower
    <3>. QED
      BY <3>1, <3>3
  <2>5. c * p < (n + 1) * d
    BY <1>12, <2>2, <2>3, DivStrict
  <2>6. t <= n
    BY <1>11, <2>2
  <2>7. (t - 1) * (D + change) <= (C + collChange) * p
    BY <1>11, <1>12, <2>4, <2>5, <2>6, BorrowingAbove
  <2>8. t - 1 \in Int /\ t - 1 <= UintMax
    BY <1>11
  <2>. QED
    BY <1>6, <1>10, <1>11, <2>7, <2>8, TCRAtLeast
<1>14. CASE change <= 0
  <2>. collChange \in Nat
    BY <1>8
  <2>1. PICK e \in Nat : e = D + change
    <3>1. getEntireSystemDebt' \in Nat
      BY DEF IInv, PoolType, Amounts, getEntireSystemDebt
    <3>. QED
      BY <1>10, <1>11, <3>1
  <2>2. e <= D
    BY <1>14, <2>1
  <2>3. e * t <= D * t
    BY <2>2, MulMono
  <2>4. t * e <= t * D
    BY <2>3, SMT
  <2>5. (C + collChange) * p = C * p + collChange * p /\ collChange * p \in Nat /\ C * p \in Nat
    BY Products, MulNat
  <2>6. t * e \in Int /\ t * D \in Int
    BY Products
  <2>7. t * e <= (C + collChange) * p
    BY <1>11, <2>4, <2>5, <2>6
  <2>8. getTCR' >= t /\ getTCR' \in Nat
    BY <1>6, <1>10, <1>11, <2>1, <2>7, TCRAtLeast
  <2>. QED
    BY <1>11, <2>8
<1>. QED
  BY <1>13, <1>14

\* The pools of the troves are not touched.
LEMMA SamePoolsSameTCR ==
    ASSUME IInv, checkRecoveryMode, UNCHANGED <<activePool, defaultPool, price>>
    PROVE  getTCR' >= getTCR - 1
<1>1. getTCR' = getTCR
  BY DEF getTCR, getEntireSystemColl, getEntireSystemDebt
<1>. QED
  BY <1>1, RecoveryNumbers

\* In recovery mode no transaction of a borrower or a depositor lowers the TCR
\* by more than the last digit: not withdrawing collateral, opening above the
\* CCR and raising one's own ratio are enough (_requireValidAdjustmentInCurrentMode).
THEOREM RecoveryTCR == Spec => RecoveryTCRKept
<1>1. IInv /\ IInv' /\ PInv /\ MInv /\ [Next]_vars =>
        [idle /\ idle' /\ price' = price /\ checkRecoveryMode => getTCR' >= getTCR - 1]_vars
  <2>. SUFFICES ASSUME IInv, IInv', PInv, MInv, Next, idle, idle', price' = price, checkRecoveryMode
                PROVE  getTCR' >= getTCR - 1
    OBVIOUS
  <2>1. CASE BorrowerAction
    <3>1. PICK b \in Borrowers :
            \/ \E value \in Collaterals, loan \in Loans : openTrove(b, value, loan)
            \/ \E collChange \in CollChanges, debtChange \in DebtChanges :
                  adjustTrove(b, collChange, debtChange)
            \/ \E gain \in ETHGains : withdrawETHGainToTrove(b, gain)
            \/ closeTrove(b)
            \/ claimCollateral(b)
      BY <2>1 DEF BorrowerAction
    <3>2. CASE \E value \in Collaterals, loan \in Loans : openTrove(b, value, loan)
      BY <3>2, OpenTroveTCR, LiquityAssumption
    <3>3. CASE \E collChange \in CollChanges, debtChange \in DebtChanges :
                  adjustTrove(b, collChange, debtChange)
      BY <3>3, AdjustTroveTCR, LiquityAssumption DEF adjustTrove
    <3>4. CASE \E gain \in ETHGains : withdrawETHGainToTrove(b, gain)
      BY <3>4, AdjustTroveTCR DEF withdrawETHGainToTrove, ETHGains, IInv, PoolType
    <3>5. CASE closeTrove(b)
      BY <3>5 DEF closeTrove
    <3>6. CASE claimCollateral(b)
      BY <3>6, SamePoolsSameTCR DEF claimCollateral
    <3>. QED
      BY <3>1, <3>2, <3>3, <3>4, <3>5, <3>6
  <2>2. CASE DepositorAction
    BY <2>2, SamePoolsSameTCR DEF DepositorAction, provideToSP, withdrawFromSP
  <2>3. CASE TransferAction
    BY <2>3, SamePoolsSameTCR DEF TransferAction, moveLUSD
  <2>4. CASE LiquidatorAction
    BY <2>4, SamePoolsSameTCR
    DEF LiquidatorAction, liquidate, batchLiquidateTroves, liquidateTroves, startLiquidation, storage
  <2>5. CASE RedeemerAction
    BY <2>5, SamePoolsSameTCR DEF RedeemerAction, redeemCollateral, storage
  <2>6. CASE PriceAction
    BY <2>6 DEF PriceAction, changePrice
  <2>7. CASE LiquidationStep
    BY <2>7
    DEF LiquidationStep, LiquidateTrovesStep, BatchLiquidateStep, FinishLiquidation,
        LiquidationFails, liquidationLoopEnded, idle
  <2>8. CASE RedemptionStep
    BY <2>8
    DEF RedemptionStep, RedeemStep, RedeemStepFails, FinishRedemption, RedemptionFails,
        redemptionLoopEnded, idle
  <2>. QED
    BY <2>1, <2>2, <2>3, <2>4, <2>5, <2>6, <2>7, <2>8 DEF Next
<1>. QED
  BY <1>1, Invariance, PoolsInvariance, MinimumInvariance, PTL DEF Spec, RecoveryTCRKept
================================================================================
