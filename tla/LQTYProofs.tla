------------------------------- MODULE LQTYProofs -------------------------------
(***************************************************************************)
(* What is proved of the contracts that pay in LQTY or for it, for any     *)
(* users, amounts, fees, rewards and times.  LQTYStaking and the Unipool   *)
(* can pay what they owe, and the subgraph knows the stakes; divisions     *)
(* round down, so the invariants count in units of 1 / DECIMAL_PRECISION,  *)
(* before the rounding.  In the StabilityPool nobody takes from the gains  *)
(* of another depositor, and the deposits are not worth more than the pool *)
(* but for a correction of rounding.  Of both tokens nothing moves that    *)
(* its owner did not give.                                                 *)
(***************************************************************************)
EXTENDS StabilityPool, LQTY, Tokens, Sums

Assets == {"ETH", "LUSD"}

\* What a staker is owed, times DECIMAL_PRECISION.
due(asset) == [u \in Users |-> stakes[u] * (F[asset] - stakerSnapshots[u][asset])]

StakingType ==
    /\ stakes \in [Users -> Nat] /\ totalLQTYStaked \in Nat
    /\ F \in [Assets -> Nat] /\ feesHeld \in [Assets -> Nat]
    /\ stakerSnapshots \in [Users -> [Assets -> Nat]]
    /\ lqty.staking \in Nat

StakingInv ==
    /\ StakingType
    /\ overUsers(stakes) = totalLQTYStaked
    /\ \A u \in Users, asset \in Assets : stakerSnapshots[u][asset] <= F[asset]
    /\ \A asset \in Assets : overUsers(due(asset)) <= DECIMAL_PRECISION * feesHeld[asset]

\* The sums of this module are the sums of module Sums.
LEMMA OverUsers == ASSUME NEW f PROVE overUsers(f) = SumOver(f, Users) /\ overProviders(f) = SumOver(f, Providers)
BY DEF overUsers, overProviders, SumOver

\* Products of naturals.
LEMMA Products ==
    ASSUME NEW x \in Nat, NEW y \in Nat, NEW z \in Nat, x <= y
    PROVE  x * z \in Nat /\ y * z \in Nat /\ x * z <= y * z /\ z * (y - x) \in Nat
<1>1. \A a \in Nat : a * z \in Nat /\ z * a \in Nat
  BY SMT
<1>2. y - x \in Nat /\ y * z = x * z + (y - x) * z
  BY SMT
<1>. QED BY <1>1, <1>2

\* A quotient times its divisor is at most the dividend.
LEMMA QuotientBelow ==
    ASSUME NEW x \in Nat, NEW d \in Nat, d > 0
    PROVE  x \div d \in Nat /\ d * (x \div d) <= x
<1>1. x = (x \div d) * d + (x % d) /\ x % d \in Nat
  BY DivisionIdentity
<1>2. x \div d \in Nat
  BY SMT
<1>. QED BY <1>1, <1>2

\* What d times as much as q covers is covered by q.
LEMMA QuotientCovered ==
    ASSUME NEW x \in Int, NEW y \in Int, NEW d \in Nat, d > 0, d * x <= d * y
    PROVE  x <= y
<1>. SUFFICES ASSUME x > y PROVE FALSE
  OBVIOUS
<1>1. d * x = d * y + d * (x - y) /\ x - y \in Nat /\ x - y > 0
  BY Distributes
<1>2. d * (x - y) > 0
  BY <1>1, SMT
<1>. QED BY <1>1, <1>2


\* A sum of zeros.
LEMMA SumZeros ==
    ASSUME NEW f, NEW S, IsFiniteSet(S), \A x \in S : f[x] = 0
    PROVE  SumOver(f, S) = 0
<1>1. Summand(f, S) /\ \A x \in S : f[x] = f[x] + 1 * f[x]
  BY DEF Summand
<1>2. SumOver(f, S) = SumOver(f, S) + 1 * SumOver(f, S)
  BY <1>1, SumLinear
<1>3. SumOver(f, S) \in Int
  BY <1>1, SumType
<1>. QED BY <1>2, <1>3, SMTT(30)

--------------------------------------------------------------------------------
(***************************************************************************)
(* LQTYStaking                                                             *)
(***************************************************************************)

\* What is owed is never negative: F only grows.
LEMMA DueType ==
    ASSUME StakingInv, NEW asset \in Assets
    PROVE  /\ due(asset) \in [Users -> Nat] /\ Summand(due(asset), Users)
           /\ overUsers(due(asset)) \in Nat
           /\ \A u \in Users : due(asset)[u] <= overUsers(due(asset))
<1>1. ASSUME NEW u \in Users PROVE stakes[u] * (F[asset] - stakerSnapshots[u][asset]) \in Nat
  <2>1. /\ stakes[u] \in Nat /\ F[asset] \in Nat /\ stakerSnapshots[u][asset] \in Nat
        /\ stakerSnapshots[u][asset] <= F[asset]
    BY DEF StakingInv, StakingType
  <2>. QED BY <2>1, Products
<1>2. due(asset) \in [Users -> Nat]
  BY <1>1 DEF due
<1>3. Summand(due(asset), Users)
  BY <1>2 DEF Summand
<1>. QED BY <1>2, <1>3, SumNat, OverUsers, LQTYAssumption

\* A gain is a natural, and DECIMAL_PRECISION times the gain is owed.
LEMMA GainType ==
    ASSUME StakingInv, NEW asset \in Assets, NEW u \in Users
    PROVE  /\ getPendingGain(u, asset) \in Nat
           /\ DECIMAL_PRECISION * getPendingGain(u, asset) <= due(asset)[u]
<1>1. due(asset)[u] \in Nat
  BY DueType
<1>2. getPendingGain(u, asset) = due(asset)[u] \div DECIMAL_PRECISION
  BY DEF getPendingGain, due
<1>. QED BY <1>1, <1>2, QuotientBelow, LiquityBaseAssumption

\* A change of a stake pays what the rounding leaves of the debt to the staker,
\* and the debt is gone.
LEMMA ChangeStakeSafe ==
    ASSUME StakingInv, NEW u \in Users, NEW change \in Int, stakes[u] + change \in Nat,
           ChangeStake(u, change), lqty'.staking \in Nat
    PROVE  StakingInv'
<1>. DEFINE DP == DECIMAL_PRECISION
<1>1. /\ stakes' = [stakes EXCEPT ![u] = @ + change] /\ totalLQTYStaked' = totalLQTYStaked + change
      /\ stakerSnapshots' = [stakerSnapshots EXCEPT ![u] = F] /\ F' = F
      /\ feesHeld' = [asset \in Assets |-> feesHeld[asset] - getPendingGain(u, asset)]
      /\ \A asset \in Assets : feesHeld[asset] >= getPendingGain(u, asset)
  BY DEF ChangeStake, StakingInv, StakingType
<1>2. Summand(stakes, Users) /\ IsFiniteSet(Users) /\ stakes' \in [Users -> Nat]
  BY <1>1, LQTYAssumption DEF StakingInv, StakingType, Summand
<1>3. overUsers(stakes') = totalLQTYStaked'
  <2>1. SumOver(stakes', Users) = SumOver(stakes, Users) - stakes[u] + stakes'[u]
    <3>. DEFINE h == stakes'
    <3>1. h[u] \in Int /\ \A v \in Users : v # u => h[v] = stakes[v]
      BY <1>1, <1>2 DEF StakingInv, StakingType
    <3>. HIDE DEF h
    <3>2. SumOver(h, Users) = SumOver(stakes, Users) - stakes[u] + h[u]
      BY <1>2, <3>1, SumChange
    <3>. QED BY <3>2 DEF h
  <2>2. SumOver(stakes, Users) = totalLQTYStaked /\ stakes'[u] = stakes[u] + change
    BY <1>1, OverUsers DEF StakingInv, StakingType
  <2>. QED BY <1>1, <2>1, <2>2, OverUsers DEF StakingInv, StakingType
<1>4. totalLQTYStaked' \in Nat
  BY <1>2, <1>3, SumNat, OverUsers
<1>5. ASSUME NEW asset \in Assets
      PROVE  /\ feesHeld'[asset] \in Nat
             /\ overUsers(due(asset)') <= DP * feesHeld'[asset]
  <2>1. /\ getPendingGain(u, asset) \in Nat /\ DP * getPendingGain(u, asset) <= due(asset)[u]
    BY <1>5, GainType
  <2>2. feesHeld[asset] \in Nat /\ feesHeld'[asset] = feesHeld[asset] - getPendingGain(u, asset)
    BY <1>1 DEF StakingInv, StakingType
  <2>3. /\ due(asset)'[u] = 0 /\ \A v \in Users : v # u => due(asset)'[v] = due(asset)[v]
    <3>1. due(asset)' = [v \in Users |-> stakes'[v] * (F[asset] - stakerSnapshots'[v][asset])]
      BY <1>1 DEF due
    <3>2. F[asset] - F[asset] = 0 /\ stakes'[u] * 0 = 0 /\ stakerSnapshots'[u] = F
      BY <1>1, <1>2 DEF StakingInv, StakingType
    <3>. QED BY <1>1, <3>1, <3>2 DEF due, StakingInv, StakingType
  <2>4. SumOver(due(asset)', Users) = SumOver(due(asset), Users) - due(asset)[u] + due(asset)'[u]
    <3>. DEFINE h == due(asset)'
    <3>1. h[u] \in Int /\ \A v \in Users : v # u => h[v] = due(asset)[v]
      BY <2>3
    <3>. HIDE DEF h
    <3>2. SumOver(h, Users) = SumOver(due(asset), Users) - due(asset)[u] + h[u]
      BY <1>2, <3>1, DueType, SumChange
    <3>. QED BY <3>2 DEF h
  <2>5. PICK g \in Nat, d \in Nat, total \in Nat, held \in Nat :
           /\ g = getPendingGain(u, asset) /\ d = due(asset)[u] /\ total = overUsers(due(asset))
           /\ held = feesHeld[asset]
    BY <2>1, <2>2, DueType
  <2>6. overUsers(due(asset)') = total - d
    BY <2>3, <2>4, <2>5, OverUsers
  <2>7. DP * held = DP * (held - g) + DP * g /\ DP * g \in Int /\ DP * (held - g) \in Int
    <3>1. held - g \in Int /\ held = (held - g) + g /\ DP \in Int
      BY <2>5, LiquityBaseAssumption
    <3>. QED BY <3>1, Distributes
  <2>8. total <= DP * held /\ DP * g <= d
    BY <2>1, <2>5 DEF StakingInv
  <2>9. total - d <= DP * (held - g)
    BY <2>5, <2>7, <2>8
  <2>. QED BY <1>1, <2>2, <2>5, <2>6, <2>9
<1>6. StakingType'
  <2>1. feesHeld' \in [Assets -> Nat]
    BY <1>1, <1>5
  <2>. QED BY <1>1, <1>2, <1>4, <2>1 DEF StakingInv, StakingType
<1>7. \A v \in Users, asset \in Assets : stakerSnapshots'[v][asset] <= F'[asset]
  BY <1>1 DEF StakingInv, StakingType
<1>. QED BY <1>3, <1>5, <1>6, <1>7 DEF StakingInv


\* A fee is shared in proportion to the stakes: what is added to the debts is at
\* most the fee, and nothing where nobody stakes.
LEMMA IncreaseFSafe ==
    ASSUME StakingInv, NEW asset \in Assets, NEW fee \in Nat, increaseF(asset, fee),
           lqty'.staking \in Nat
    PROVE  StakingInv'
<1>. DEFINE DP == DECIMAL_PRECISION
            inc == IF totalLQTYStaked > 0 THEN (fee * DP) \div totalLQTYStaked ELSE 0
<1>1. /\ stakes' = stakes /\ totalLQTYStaked' = totalLQTYStaked /\ stakerSnapshots' = stakerSnapshots
      /\ F' = [F EXCEPT ![asset] = @ + inc] /\ feesHeld' = [feesHeld EXCEPT ![asset] = @ + fee]
  BY DEF increaseF
<1>2. DP \in Nat /\ totalLQTYStaked \in Nat /\ fee * DP \in Nat
  <2>1. DP \in Nat /\ totalLQTYStaked \in Nat
    BY LiquityBaseAssumption DEF StakingInv, StakingType
  <2>. QED BY <2>1, Products
<1>3. inc \in Nat /\ totalLQTYStaked * inc <= fee * DP
  <2>1. CASE totalLQTYStaked > 0
    BY <1>2, <2>1, QuotientBelow
  <2>2. CASE totalLQTYStaked = 0
    BY <1>2, <2>2
  <2>. QED BY <1>2, <2>1, <2>2
<1>. HIDE DEF inc
<1>4. /\ F' \in [Assets -> Nat] /\ feesHeld' \in [Assets -> Nat]
      /\ F'[asset] = F[asset] + inc /\ feesHeld'[asset] = feesHeld[asset] + fee
      /\ \A a \in Assets : a # asset => F'[a] = F[a] /\ feesHeld'[a] = feesHeld[a]
      /\ \A a \in Assets : F[a] \in Nat /\ feesHeld[a] \in Nat /\ F'[a] >= F[a]
  BY <1>1, <1>3 DEF StakingInv, StakingType
<1>5. StakingType'
  BY <1>1, <1>4 DEF StakingInv, StakingType
<1>6. \A v \in Users, a \in Assets : stakerSnapshots'[v][a] <= F'[a]
  <2>. SUFFICES ASSUME NEW v \in Users, NEW a \in Assets PROVE stakerSnapshots[v][a] <= F'[a]
    BY <1>1
  <2>1. stakerSnapshots[v][a] \in Nat /\ stakerSnapshots[v][a] <= F[a] /\ F[a] \in Nat /\ F'[a] \in Nat
    BY <1>4 DEF StakingInv, StakingType
  <2>. QED BY <1>4, <2>1
<1>7. ASSUME NEW a \in Assets PROVE overUsers(due(a)') <= DP * feesHeld'[a]
  <2>1. due(a)' = [v \in Users |-> stakes[v] * (F'[a] - stakerSnapshots[v][a])]
    BY <1>1 DEF due
  <2>2. CASE a # asset
    <3>1. due(a)' = due(a)
      BY <2>1, <2>2, <1>4 DEF due
    <3>. QED BY <2>2, <3>1, <1>4 DEF StakingInv
  <2>3. CASE a = asset
    <3>1. \A v \in Users : due(a)'[v] = due(a)[v] + inc * stakes[v]
      <4>. TAKE v \in Users
      <4>1. PICK s \in Nat, before \in Nat, snap \in Nat :
               s = stakes[v] /\ before = F[a] /\ snap = stakerSnapshots[v][a] /\ F'[a] = before + inc
        BY <1>4, <2>3 DEF StakingInv, StakingType
      <4>2. /\ before - snap \in Int /\ (before + inc) - snap = (before - snap) + inc
        BY <1>3, <4>1
      <4>3. s * ((before - snap) + inc) = s * (before - snap) + s * inc
        BY <1>3, <4>1, <4>2, Distributes
      <4>4. s * inc = inc * s
        BY <1>3, <4>1
      <4>. QED BY <2>1, <4>1, <4>2, <4>3, <4>4 DEF due
    <3>. DEFINE h == due(a)'
    <3>2. /\ IsFiniteSet(Users) /\ Summand(due(a), Users) /\ Summand(stakes, Users) /\ inc \in Int
          /\ \A v \in Users : h[v] = due(a)[v] + inc * stakes[v]
      BY <1>3, <3>1, DueType, LQTYAssumption DEF Summand, StakingInv, StakingType
    <3>. HIDE DEF h
    <3>3. SumOver(h, Users) = SumOver(due(a), Users) + inc * SumOver(stakes, Users)
      BY <3>2, SumLinear
    <3>4. overUsers(h) = overUsers(due(a)) + inc * totalLQTYStaked
      BY <3>3, OverUsers DEF StakingInv
    <3>5. inc * totalLQTYStaked = totalLQTYStaked * inc /\ inc * totalLQTYStaked \in Int
      BY <1>2, <1>3
    <3>6. PICK held \in Nat, total \in Nat : held = feesHeld[a] /\ total = overUsers(due(a)) /\ total <= DP * held
      BY <1>4, DueType DEF StakingInv
    <3>7. DP * (held + fee) = DP * held + DP * fee /\ DP * held \in Int /\ DP * fee = fee * DP
      BY <1>2, <3>6, Distributes
    <3>8. feesHeld'[a] = held + fee
      BY <1>4, <2>3, <3>6
    <3>9. total + inc * totalLQTYStaked <= DP * (held + fee)
      BY <1>2, <1>3, <3>5, <3>6, <3>7
    <3>10. overUsers(h) <= DP * feesHeld'[a]
      BY <3>4, <3>6, <3>8, <3>9
    <3>. QED BY <3>10 DEF h
  <2>. QED BY <2>2, <2>3
<1>. QED BY <1>1, <1>5, <1>6, <1>7 DEF StakingInv

\* Where nothing of LQTYStaking changes, nothing is owed that was not.
LEMMA StakingUnchanged ==
    ASSUME StakingInv, UNCHANGED stakingVars, lqty'.staking = lqty.staking
    PROVE  StakingInv'
BY DEF StakingInv, StakingType, stakingVars, due

\* With the invariant, every gain can be paid at once.
LEMMA StakersPaid ==
    ASSUME StakingInv, NEW asset \in Assets
    PROVE  overUsers([u \in Users |-> getPendingGain(u, asset)]) <= feesHeld[asset]
<1>. DEFINE gains == [u \in Users |-> getPendingGain(u, asset)]
            DP == DECIMAL_PRECISION
<1>1. /\ gains \in [Users -> Nat] /\ \A u \in Users : DP * gains[u] <= due(asset)[u]
  BY GainType
<1>. HIDE DEF gains
<1>2. Summand(gains, Users) /\ IsFiniteSet(Users) /\ DP \in Nat /\ DP > 0 /\ feesHeld[asset] \in Nat
  BY <1>1, LQTYAssumption, LiquityBaseAssumption DEF Summand, StakingInv, StakingType
<1>3. DP * SumOver(gains, Users) <= SumOver(due(asset), Users)
  BY <1>1, <1>2, DueType, SumBound
<1>4. PICK paid \in Nat, total \in Nat, held \in Nat :
         /\ paid = SumOver(gains, Users) /\ total = SumOver(due(asset), Users) /\ held = feesHeld[asset]
         /\ total <= DP * held
  BY <1>1, <1>2, SumNat, DueType, OverUsers DEF StakingInv
<1>5. DP * paid <= DP * held
  <2>1. DP * paid \in Int /\ DP * held \in Int
    BY <1>2, <1>4
  <2>. QED BY <1>3, <1>4, <2>1
<1>6. paid <= held
  BY <1>2, <1>4, <1>5, QuotientCovered
<1>7. overUsers(gains) <= feesHeld[asset]
  BY <1>4, <1>6, OverUsers
<1>. QED BY <1>7 DEF gains


--------------------------------------------------------------------------------
(***************************************************************************)
(* The stakes in the subgraph                                              *)
(***************************************************************************)
staking(st) == {u \in Users : st[u] > 0}
known(entity) == {u \in Users : entity[u] # NoStake}

LQTYType ==
    /\ lqty \in [users : [Users -> Nat], staking : Nat, unipool : Nat]
    /\ index \in [stake : [Users -> Nat \cup {NoStake}], totalStaked : Int, total : Int, active : Int]

StakesInv == StakingInv /\ LQTYType /\ lqty.staking = totalLQTYStaked /\ StakesIndexed

\* The number of stakers after the stake of one user changed.
LEMMA StakersCounted ==
    ASSUME NEW u \in Users, NEW before \in [Users -> Nat], NEW after \in [Users -> Nat],
           \A v \in Users : v # u => after[v] = before[v]
    PROVE  /\ Cardinality(staking(before)) \in Nat
           /\ Cardinality(staking(after)) = Cardinality(staking(before))
                + (IF after[u] > 0 THEN 1 ELSE 0) - (IF before[u] > 0 THEN 1 ELSE 0)
<1>. DEFINE others == staking(before) \ {u}
<1>1. IsFiniteSet(staking(before)) /\ IsFiniteSet(staking(after)) /\ IsFiniteSet(others)
  BY LQTYAssumption, FS_Subset DEF staking
<1>2. others = staking(after) \ {u} /\ u \notin others
  BY DEF staking
<1>3. ASSUME NEW S, IsFiniteSet(S), others = S \ {u}
      PROVE  Cardinality(S) = Cardinality(others) + (IF u \in S THEN 1 ELSE 0) /\ Cardinality(others) \in Nat
  <2>1. Cardinality(S) \in Nat /\ Cardinality(others) \in Nat
    BY <1>1, <1>3, FS_CardinalityType
  <2>2. Cardinality(S \ {u}) = IF u \in S THEN Cardinality(S) - 1 ELSE Cardinality(S)
    BY <1>3, FS_RemoveElement
  <2>. QED BY <1>3, <2>1, <2>2
<1>4. /\ Cardinality(staking(before)) = Cardinality(others) + (IF u \in staking(before) THEN 1 ELSE 0)
      /\ Cardinality(staking(after)) = Cardinality(others) + (IF u \in staking(after) THEN 1 ELSE 0)
      /\ Cardinality(others) \in Nat
  BY <1>1, <1>2, <1>3
<1>5. (u \in staking(before) <=> before[u] > 0) /\ (u \in staking(after) <=> after[u] > 0)
  BY DEF staking
<1>. HIDE DEF others
<1>. QED BY <1>4, <1>5

\* The handler of StakeChanged keeps the entities and the counters in step.
LEMMA UpdateStakeIndexed ==
    ASSUME StakesInv, NEW u \in Users, NEW new \in Nat, new # stakes[u],
           stakes' = [stakes EXCEPT ![u] = new], totalLQTYStaked' = totalLQTYStaked + (new - stakes[u]),
           index' = updateStake(index, u, new)
    PROVE  /\ StakesIndexed' /\ index'.stake[u] # NoStake
           /\ index' \in [stake : [Users -> Nat \cup {NoStake}], totalStaked : Int, total : Int, active : Int]
<1>. DEFINE first == index.stake[u] = NoStake
            old == stakes[u]
            operation == getOperationType(old, new)
<1>1. /\ old \in Nat /\ stakes \in [Users -> Nat] /\ totalLQTYStaked \in Nat
      /\ index.stake \in [Users -> Nat \cup {NoStake}] /\ index.totalStaked \in Int
      /\ index.total \in Int /\ index.active \in Int /\ NoStake \notin Nat
      /\ index.totalStaked = totalLQTYStaked
      /\ index.active = Cardinality(staking(stakes)) /\ index.total = Cardinality(known(index.stake))
      /\ \A v \in Users : stakes[v] = IF index.stake[v] = NoStake THEN 0 ELSE index.stake[v]
  BY LQTYAssumption DEF StakesInv, StakingInv, StakingType, LQTYType, StakesIndexed, staking, known
<1>2. old = IF first THEN 0 ELSE index.stake[u]
  BY <1>1
<1>3. /\ index'.stake = [index.stake EXCEPT ![u] = new]
      /\ index'.totalStaked = index.totalStaked + new - old
      /\ index'.total = index.total + (IF operation = "stakeCreated" /\ first THEN 1 ELSE 0)
      /\ index'.active = index.active + changeOfActiveLQTYStakes(operation)
      /\ index' = [stake |-> index'.stake, totalStaked |-> index'.totalStaked, total |-> index'.total,
                   active |-> index'.active]
  BY <1>2 DEF updateStake
<1>4. /\ (operation = "stakeCreated" <=> old = 0)
      /\ changeOfActiveLQTYStakes(operation) = (IF new > 0 THEN 1 ELSE 0) - (IF old > 0 THEN 1 ELSE 0)
  <2>1. CASE old = 0
    <3>1. operation = "stakeCreated"
      BY <2>1, <1>1 DEF getOperationType
    <3>. QED BY <2>1, <3>1 DEF changeOfActiveLQTYStakes
  <2>2. CASE old > 0 /\ new > old
    <3>1. operation = "stakeIncreased"
      BY <2>2, <1>1 DEF getOperationType
    <3>2. changeOfActiveLQTYStakes(operation) = 0
      BY <3>1 DEF changeOfActiveLQTYStakes
    <3>. QED BY <2>2, <1>1, <3>1, <3>2
  <2>3. CASE old > 0 /\ new = 0
    <3>1. operation = "stakeRemoved"
      BY <2>3, <1>1 DEF getOperationType
    <3>2. changeOfActiveLQTYStakes(operation) = -1
      BY <3>1 DEF changeOfActiveLQTYStakes
    <3>. QED BY <2>3, <1>1, <3>1, <3>2
  <2>4. CASE old > 0 /\ new > 0 /\ new < old
    <3>1. operation = "stakeDecreased"
      BY <2>4, <1>1 DEF getOperationType
    <3>2. changeOfActiveLQTYStakes(operation) = 0
      BY <3>1 DEF changeOfActiveLQTYStakes
    <3>. QED BY <2>4, <1>1, <3>1, <3>2
  <2>5. old = 0 \/ (old > 0 /\ new > old) \/ (old > 0 /\ new = 0) \/ (old > 0 /\ new > 0 /\ new < old)
    BY <1>1
  <2>. QED BY <2>1, <2>2, <2>3, <2>4, <2>5
<1>5. stakes' \in [Users -> Nat] /\ stakes'[u] = new /\ \A v \in Users : v # u => stakes'[v] = stakes[v]
  BY <1>1
<1>6. index'.active = Cardinality(staking(stakes'))
  <2>. DEFINE after == stakes'
  <2>1. after \in [Users -> Nat] /\ after[u] = new /\ \A v \in Users : v # u => after[v] = stakes[v]
    BY <1>5
  <2>. HIDE DEF after
  <2>2. Cardinality(staking(stakes)) \in Nat
        /\ Cardinality(staking(after)) = Cardinality(staking(stakes))
              + (IF new > 0 THEN 1 ELSE 0) - (IF old > 0 THEN 1 ELSE 0)
    BY <2>1, <1>1, StakersCounted
  <2>3. index'.active = Cardinality(staking(after))
    BY <2>2, <1>1, <1>3, <1>4
  <2>. QED BY <2>3 DEF after
<1>7. index'.total = Cardinality(known(index'.stake))
  <2>1. known(index'.stake) = known(index.stake) \cup {u}
    BY <1>1, <1>3 DEF known
  <2>2. IsFiniteSet(known(index.stake)) /\ (u \in known(index.stake) <=> ~first)
    BY LQTYAssumption, FS_Subset DEF known
  <2>3. Cardinality(known(index.stake) \cup {u}) =
           IF u \in known(index.stake) THEN Cardinality(known(index.stake)) ELSE Cardinality(known(index.stake)) + 1
    BY <2>2, FS_AddElement
  <2>4. (operation = "stakeCreated" /\ first) <=> first
    BY <1>2, <1>4
  <2>5. index'.total = index.total + (IF first THEN 1 ELSE 0)
    BY <1>3, <2>4
  <2>. HIDE DEF first
  <2>. QED BY <1>1, <2>1, <2>2, <2>3, <2>5
<1>8. \A v \in Users : stakes'[v] = IF index'.stake[v] = NoStake THEN 0 ELSE index'.stake[v]
  BY <1>1, <1>3, <1>5
<1>9. index'.totalStaked = totalLQTYStaked'
  BY <1>1, <1>3
<1>10. StakesIndexed'
  BY <1>6, <1>7, <1>8, <1>9 DEF StakesIndexed, staking, known
<1>11. /\ index'.stake[u] = new /\ index'.stake \in [Users -> Nat \cup {NoStake}] /\ index'.totalStaked \in Int
       /\ index'.total \in Int /\ index'.active \in Int
  <2>1. changeOfActiveLQTYStakes(operation) \in Int
    BY <1>4
  <2>. QED BY <1>1, <1>3, <2>1
<1>. QED BY <1>1, <1>3, <1>10, <1>11


--------------------------------------------------------------------------------
(***************************************************************************)
(* The Unipool                                                             *)
(***************************************************************************)

\* What the providers are owed if the reward per token is r, times
\* DECIMAL_PRECISION.
owedAt(r) ==
    [p \in Providers |-> lpBalance[p] * (r - userRewardPerTokenPaid[p]) + DECIMAL_PRECISION * rewards[p]]
owed == owedAt(rewardPerTokenStored)

UnipoolType ==
    /\ now \in Nat /\ stakedTime \in Nat /\ periodFinish \in Nat /\ rewardRate \in Nat
    /\ lastUpdateTime \in Nat /\ rewardPerTokenStored \in Nat /\ lpTotalSupply \in Nat
    /\ lpBalance \in [Providers -> Nat] /\ rewards \in [Providers -> Nat]
    /\ userRewardPerTokenPaid \in [Providers -> Nat]
    /\ lqty.unipool \in Nat

\* The time that is left: stopped at the last update while nobody stakes.
TimeKept ==
    IF lpTotalSupply = 0 THEN periodFinish - lastUpdateTime = duration - stakedTime
    ELSE (IF periodFinish > now THEN periodFinish - now ELSE 0) = duration - stakedTime

UnipoolInv ==
    /\ UnipoolType
    /\ overProviders(lpBalance) = lpTotalSupply
    /\ \A p \in Providers : userRewardPerTokenPaid[p] <= rewardPerTokenStored
    /\ lastUpdateTime <= now /\ lastUpdateTime <= periodFinish
    /\ TimeKept
    /\ overProviders(owed) + DECIMAL_PRECISION * (rewardRate * (periodFinish - lastUpdateTime))
          <= DECIMAL_PRECISION * lqty.unipool

\* The providers are among the users.
LEMMA ProvidersFinite == IsFiniteSet(Providers)
BY LQTYAssumption, FS_Subset

\* What is owed at any later reward per token is a natural.
LEMMA OwedType ==
    ASSUME UnipoolInv, NEW r \in Nat, r >= rewardPerTokenStored
    PROVE  /\ owedAt(r) \in [Providers -> Nat] /\ Summand(owedAt(r), Providers)
           /\ overProviders(owedAt(r)) \in Nat
<1>1. ASSUME NEW p \in Providers
      PROVE  lpBalance[p] * (r - userRewardPerTokenPaid[p]) + DECIMAL_PRECISION * rewards[p] \in Nat
  <2>1. PICK b \in Nat, paid \in Nat, w \in Nat, d \in Nat :
           /\ b = lpBalance[p] /\ paid = userRewardPerTokenPaid[p] /\ w = rewards[p] /\ d = DECIMAL_PRECISION
           /\ paid <= rewardPerTokenStored /\ rewardPerTokenStored \in Nat
    BY LiquityBaseAssumption DEF UnipoolInv, UnipoolType
  <2>2. paid <= r
    BY <2>1
  <2>3. b * (r - paid) \in Nat /\ d * w \in Nat
    BY <2>1, <2>2, Products
  <2>. QED BY <2>1, <2>3
<1>2. owedAt(r) \in [Providers -> Nat]
  BY <1>1 DEF owedAt
<1>3. Summand(owedAt(r), Providers)
  BY <1>2 DEF Summand
<1>. QED BY <1>2, <1>3, SumNat, ProvidersFinite, OverUsers

\* Between updates the reward per token grows by what the time that passed is
\* worth, shared among the providers: all that is owed and still to be paid out
\* is covered at any time.
LEMMA Accrued ==
    ASSUME UnipoolInv,
           NEW finish, finish = updatedPeriodFinish,
           NEW r, r = rewardPerToken(finish), NEW last, last = lastTimeRewardApplicable(finish)
    PROVE  /\ finish \in Nat /\ last \in Nat /\ r \in Nat /\ r >= rewardPerTokenStored
           /\ last <= now /\ last <= finish
           /\ finish - last = duration - stakedTime
           /\ overProviders(owedAt(r)) + DECIMAL_PRECISION * (rewardRate * (finish - last))
                 <= DECIMAL_PRECISION * lqty.unipool
<1>. DEFINE stored == rewardPerTokenStored
<1>1. PICK d \in Nat, rate \in Nat, lut \in Nat, pf \in Nat, supply \in Nat, held \in Nat :
         /\ d = DECIMAL_PRECISION /\ rate = rewardRate /\ lut = lastUpdateTime /\ pf = periodFinish
         /\ supply = lpTotalSupply /\ held = lqty.unipool /\ now \in Nat /\ stored \in Nat /\ stakedTime \in Nat
  BY LiquityBaseAssumption DEF UnipoolInv, UnipoolType
<1>2. PICK total \in Nat : total = overProviders(owed) /\ total + d * (rate * (pf - lut)) <= d * held
  BY <1>1, OwedType DEF owed, UnipoolInv
<1>3. lut <= now /\ lut <= pf /\ TimeKept /\ duration \in Nat
  BY <1>1, UnipoolAssumption DEF UnipoolInv
<1>4. CASE supply = 0
  <2>1. finish = pf + (now - lut) /\ last = now /\ r = stored
    BY <1>1, <1>3, <1>4 DEF updatedPeriodFinish, lastTimeRewardApplicable, rewardPerToken, min
  <2>2. finish - last = pf - lut
    BY <1>1, <2>1
  <2>3. pf - lut = duration - stakedTime
    BY <1>1, <1>3, <1>4 DEF TimeKept
  <2>4. overProviders(owedAt(r)) = total
    BY <1>2, <2>1 DEF owed
  <2>5. overProviders(owedAt(r)) + DECIMAL_PRECISION * (rewardRate * (finish - last)) <= DECIMAL_PRECISION * lqty.unipool
    <3>1. total + d * (rate * (finish - last)) <= d * held
      BY <1>2, <2>2
    <3>. QED BY ONLY <1>1, <2>4, <3>1
  <2>6. /\ finish \in Nat /\ last \in Nat /\ r \in Nat /\ r >= stored
        /\ last <= now /\ last <= finish
    BY <1>1, <1>3, <2>1
  <2>. QED BY <2>2, <2>3, <2>5, <2>6
<1>5. CASE supply # 0
  <2>1. finish = pf /\ last = (IF now < pf THEN now ELSE pf)
    BY <1>1, <1>5 DEF updatedPeriodFinish, lastTimeRewardApplicable, min
  <2>2. last \in Nat /\ last - lut \in Nat /\ last <= now /\ last <= pf /\ pf - last \in Nat
    BY <1>1, <1>3, <2>1
  <2>3. PICK dt \in Nat, left \in Nat : dt = last - lut /\ left = pf - last
    BY <2>2
  <2>4. r = stored + ((dt * rate) * d) \div supply
    BY <1>1, <1>5, <2>3 DEF rewardPerToken
  <2>5. (dt * rate) * d \in Nat /\ dt * rate \in Nat
    BY <1>1, <2>3, Products
  <2>6. PICK inc \in Nat : inc = ((dt * rate) * d) \div supply /\ supply * inc <= (dt * rate) * d
    BY <1>1, <1>5, <2>5, QuotientBelow
  <2>7. r \in Nat /\ r >= stored /\ r = stored + inc
    BY <1>1, <2>4, <2>6
  <2>8. overProviders(owedAt(r)) = total + inc * supply
    <3>1. ASSUME NEW p \in Providers PROVE owedAt(r)[p] = owed[p] + inc * lpBalance[p]
      <4>1. PICK b \in Nat, paid \in Nat, w \in Nat : b = lpBalance[p] /\ paid = userRewardPerTokenPaid[p] /\ w = rewards[p]
        BY DEF UnipoolInv, UnipoolType
      <4>2. r - paid = (stored - paid) + inc /\ stored - paid \in Int /\ d * w \in Int
        BY <1>1, <2>7, <4>1
      <4>3. b * ((stored - paid) + inc) = b * (stored - paid) + b * inc
            /\ b * (stored - paid) \in Int /\ b * inc \in Int
        BY <4>1, <4>2, <2>6, Distributes
      <4>4. b * inc = inc * b
        BY <4>1, <2>6
      <4>5. owedAt(r)[p] = b * (r - paid) + d * w /\ owed[p] = b * (stored - paid) + d * w
        BY <1>1, <4>1 DEF owedAt, owed
      <4>. QED BY <4>1, <4>2, <4>3, <4>4, <4>5
    <3>2. Summand(owed, Providers) /\ Summand(lpBalance, Providers) /\ inc \in Int
      BY <1>1, <2>6, OwedType DEF owed, Summand, UnipoolInv, UnipoolType
    <3>3. SumOver(owedAt(r), Providers) = SumOver(owed, Providers) + inc * SumOver(lpBalance, Providers)
      BY <3>1, <3>2, SumLinear, ProvidersFinite
    <3>. QED BY <1>1, <1>2, <3>3, OverUsers DEF UnipoolInv
  <2>9. d * (rate * (pf - lut)) = d * (rate * left) + (dt * rate) * d
    <3>1. pf - lut = left + dt
      BY <1>1, <2>2, <2>3
    <3>2. rate * (left + dt) = rate * left + rate * dt /\ rate * left \in Int /\ rate * dt \in Int
      BY <1>1, <2>3, Distributes
    <3>3. d * (rate * left + rate * dt) = d * (rate * left) + d * (rate * dt)
      BY <1>1, <3>2, Distributes
    <3>4. rate * dt = dt * rate /\ d * (dt * rate) = (dt * rate) * d
      BY <1>1, <2>3, <2>5
    <3>. QED BY <3>1, <3>2, <3>3, <3>4
  <2>10. /\ inc * supply = supply * inc /\ supply * inc \in Nat
         /\ d * (rate * left) \in Nat /\ d * held \in Nat
    BY <1>1, <2>3, <2>6, Products
  <2>11. total + inc * supply + d * (rate * left) <= d * held
    <3>1. PICK shared \in Nat, later \in Nat, worth \in Nat, all \in Nat :
             shared = inc * supply /\ later = d * (rate * left) /\ worth = (dt * rate) * d /\ all = d * held
      BY <2>5, <2>10
    <3>2. total + (later + worth) <= all
      BY <1>2, <2>9, <3>1
    <3>3. shared <= worth
      BY <2>6, <2>10, <3>1
    <3>4. total + shared + later <= all
      BY <3>1, <3>2, <3>3
    <3>. QED BY <3>1, <3>4
  <2>12. finish - last = duration - stakedTime
    BY <1>1, <1>3, <1>5, <2>1 DEF TimeKept
  <2>. QED BY <1>1, <2>1, <2>2, <2>3, <2>7, <2>8, <2>11, <2>12
<1>. QED BY <1>1, <1>4, <1>5


\* What a provider earned is a natural, and DECIMAL_PRECISION times as much is
\* owed to it.  Prolonging the period of an empty pool changes nothing of it.
LEMMA EarnedType ==
    ASSUME UnipoolInv, NEW p \in Providers
    PROVE  LET r == rewardPerToken(updatedPeriodFinish)
           IN  /\ earned(p, updatedPeriodFinish) \in Nat
               /\ DECIMAL_PRECISION * earned(p, updatedPeriodFinish) <= owedAt(r)[p]
               /\ earned(p, periodFinish) = earned(p, updatedPeriodFinish)
               /\ rewardPerToken(periodFinish) = r
<1>1. PICK finish, last, r : finish = updatedPeriodFinish /\ r = rewardPerToken(finish) /\ last = lastTimeRewardApplicable(finish)
  OBVIOUS
<1>2. r \in Nat /\ r >= rewardPerTokenStored
  BY <1>1, Accrued
<1>3. PICK b \in Nat, paid \in Nat, w \in Nat, d \in Nat :
         /\ b = lpBalance[p] /\ paid = userRewardPerTokenPaid[p] /\ w = rewards[p] /\ d = DECIMAL_PRECISION
         /\ paid <= rewardPerTokenStored /\ rewardPerTokenStored \in Nat /\ d > 0
  BY LiquityBaseAssumption DEF UnipoolInv, UnipoolType
<1>4. b * (r - paid) \in Nat
  <2>1. paid <= r
    BY <1>2, <1>3
  <2>. QED BY <1>2, <1>3, <2>1, Products
<1>5. PICK q \in Nat : q = (b * (r - paid)) \div d /\ d * q <= b * (r - paid)
  BY <1>3, <1>4, QuotientBelow
<1>6. earned(p, updatedPeriodFinish) = q + w
  BY <1>1, <1>3, <1>5 DEF earned
<1>7. d * (q + w) = d * q + d * w /\ d * q \in Int /\ d * w \in Int
  BY <1>3, <1>5, Distributes
<1>8. owedAt(r)[p] = b * (r - paid) + d * w
  BY <1>3 DEF owedAt
<1>9. rewardPerToken(periodFinish) = rewardPerToken(updatedPeriodFinish)
  BY DEF rewardPerToken, updatedPeriodFinish
<1>10. earned(p, periodFinish) = earned(p, updatedPeriodFinish)
  BY <1>9 DEF earned
<1>11. d * (q + w) <= owedAt(r)[p]
  BY <1>4, <1>5, <1>7, <1>8
<1>. QED BY <1>1, <1>3, <1>5, <1>6, <1>9, <1>10, <1>11

\* Every update of an account settles what was owed to it: as its reward, or
\* as LQTY paid out.  The time that is left to the period stays.
LEMMA AccountUpdated ==
    ASSUME UnipoolInv, NEW p \in Providers, NEW change \in Int, lpBalance[p] + change \in Nat,
           NEW reward \in Nat, NEW paidOut \in Nat, reward + paidOut = earned(p, updatedPeriodFinish),
           NEW finish \in Nat, NEW last, last = lastTimeRewardApplicable(finish),
           finish - last = updatedPeriodFinish - lastTimeRewardApplicable(updatedPeriodFinish),
           rewardPerTokenStored' = rewardPerToken(updatedPeriodFinish),
           userRewardPerTokenPaid' = [userRewardPerTokenPaid EXCEPT ![p] = rewardPerToken(updatedPeriodFinish)],
           rewards' = [rewards EXCEPT ![p] = reward],
           periodFinish' = finish, lastUpdateTime' = last, UNCHANGED <<now, rewardRate, stakedTime>>,
           ChangeLP(p, change), lqty'.unipool = lqty.unipool - paidOut, lqty'.unipool \in Nat
    PROVE  UnipoolInv'
<1>1. PICK f0 \in Nat, l0 \in Nat, r \in Nat :
         /\ f0 = updatedPeriodFinish /\ r = rewardPerToken(f0) /\ l0 = lastTimeRewardApplicable(f0)
         /\ r >= rewardPerTokenStored /\ f0 - l0 = duration - stakedTime
         /\ overProviders(owedAt(r)) + DECIMAL_PRECISION * (rewardRate * (f0 - l0)) <= DECIMAL_PRECISION * lqty.unipool
  BY Accrued
<1>2. /\ now \in Nat /\ duration \in Nat /\ stakedTime \in Nat /\ rewardPerTokenStored \in Nat /\ rewardRate \in Nat
      /\ lqty.unipool \in Nat /\ lpTotalSupply \in Nat
      /\ lpBalance \in [Providers -> Nat] /\ userRewardPerTokenPaid \in [Providers -> Nat] /\ rewards \in [Providers -> Nat]
  BY UnipoolAssumption DEF UnipoolInv, UnipoolType
<1>3. last \in Nat /\ last <= now /\ last <= finish
      /\ finish - last = IF finish > now THEN finish - now ELSE 0
  BY <1>2 DEF lastTimeRewardApplicable, min
<1>4. /\ lpBalance' \in [Providers -> Nat] /\ lpBalance'[p] = lpBalance[p] + change
      /\ \A q \in Providers : q # p => lpBalance'[q] = lpBalance[q]
  BY <1>2 DEF ChangeLP
<1>5. overProviders(lpBalance') = lpTotalSupply'
  <2>. DEFINE h == lpBalance'
  <2>1. h[p] \in Int /\ Summand(lpBalance, Providers) /\ \A q \in Providers : q # p => h[q] = lpBalance[q]
    BY <1>2, <1>4 DEF Summand
  <2>. HIDE DEF h
  <2>2. SumOver(h, Providers) = SumOver(lpBalance, Providers) - lpBalance[p] + h[p]
    BY <2>1, SumChange, ProvidersFinite
  <2>3. h[p] = lpBalance[p] + change /\ SumOver(lpBalance, Providers) = lpTotalSupply /\ lpBalance[p] \in Nat
    BY <1>2, <1>4, OverUsers DEF h, UnipoolInv
  <2>4. overProviders(h) = lpTotalSupply + change
    BY <1>2, <2>2, <2>3, OverUsers
  <2>. QED BY <2>4 DEF h, ChangeLP
<1>6. lpTotalSupply' \in Nat
  BY <1>4, <1>5, SumNat, ProvidersFinite, OverUsers
<1>7. /\ userRewardPerTokenPaid' \in [Providers -> Nat] /\ rewardPerTokenStored' = r
      /\ \A q \in Providers : userRewardPerTokenPaid'[q] <= rewardPerTokenStored'
  <2>1. userRewardPerTokenPaid' = [userRewardPerTokenPaid EXCEPT ![p] = r] /\ rewardPerTokenStored' = r
    BY <1>1
  <2>2. \A q \in Providers : userRewardPerTokenPaid[q] <= rewardPerTokenStored
    BY DEF UnipoolInv
  <2>. QED BY <1>1, <1>2, <2>1, <2>2
<1>8. UnipoolType'
  BY <1>1, <1>2, <1>3, <1>4, <1>6, <1>7 DEF UnipoolType
<1>9. TimeKept'
  BY <1>1, <1>2, <1>3, <1>6 DEF TimeKept
<1>10. overProviders(owed') = overProviders(owedAt(r)) - owedAt(r)[p] + DECIMAL_PRECISION * reward
  <2>1. owed' = [q \in Providers |-> lpBalance'[q] * (r - userRewardPerTokenPaid'[q]) + DECIMAL_PRECISION * rewards'[q]]
    BY <1>7 DEF owed, owedAt
  <2>. DEFINE h == owed'
  <2>2. h[p] = DECIMAL_PRECISION * reward /\ h[p] \in Int
    <3>1. PICK b \in Nat : b = lpBalance'[p] /\ userRewardPerTokenPaid'[p] = r /\ rewards'[p] = reward
      BY <1>1, <1>2, <1>4
    <3>2. b * (r - r) = 0 /\ DECIMAL_PRECISION * reward \in Int
      BY <3>1, LiquityBaseAssumption
    <3>. QED BY <2>1, <3>1, <3>2
  <2>3. \A q \in Providers : q # p => h[q] = owedAt(r)[q]
    BY <2>1, <1>2, <1>4 DEF owedAt
  <2>4. Summand(owedAt(r), Providers)
    BY <1>1, OwedType
  <2>. HIDE DEF h
  <2>5. SumOver(h, Providers) = SumOver(owedAt(r), Providers) - owedAt(r)[p] + h[p]
    BY <2>2, <2>3, <2>4, SumChange, ProvidersFinite
  <2>6. overProviders(h) = overProviders(owedAt(r)) - owedAt(r)[p] + DECIMAL_PRECISION * reward
    BY <2>2, <2>5, OverUsers
  <2>. QED BY <2>6 DEF h
<1>11. overProviders(owed') + DECIMAL_PRECISION * (rewardRate' * (periodFinish' - lastUpdateTime'))
          <= DECIMAL_PRECISION * lqty'.unipool
  <2>1. PICK d \in Nat, rate \in Nat, held \in Nat, left \in Nat :
           d = DECIMAL_PRECISION /\ rate = rewardRate /\ held = lqty.unipool /\ left = finish - last
    BY <1>2, <1>3, LiquityBaseAssumption
  <2>2. d * (reward + paidOut) = d * reward + d * paidOut
        /\ d * reward \in Nat /\ d * paidOut \in Nat /\ d * (rate * left) \in Nat /\ d * held \in Nat
    BY <2>1, Distributes, Products
  <2>3. held - paidOut \in Int /\ held = (held - paidOut) + paidOut
    BY <2>1
  <2>4. d * ((held - paidOut) + paidOut) = d * (held - paidOut) + d * paidOut /\ d * (held - paidOut) \in Int
    BY <2>1, <2>3, Distributes
  <2>5. d * (reward + paidOut) <= owedAt(r)[p]
    BY <1>1, <2>1, EarnedType
  <2>6. PICK all \in Nat, own \in Nat : all = overProviders(owedAt(r)) /\ own = owedAt(r)[p]
    BY <1>1, OwedType
  <2>7. all + d * (rate * left) <= d * held
    BY <1>1, <2>1, <2>6
  <2>8. PICK rw \in Nat, po \in Nat, later \in Nat, h \in Nat, h2 \in Int :
           rw = d * reward /\ po = d * paidOut /\ later = d * (rate * left) /\ h = d * held /\ h2 = d * (held - paidOut)
    BY <2>2, <2>4
  <2>9. rw + po <= own /\ all + later <= h /\ h = h2 + po
    BY <2>2, <2>3, <2>4, <2>5, <2>6, <2>7, <2>8
  <2>10. all - own + rw + later <= h2
    BY <2>6, <2>8, <2>9
  <2>11. overProviders(owed') = all - own + rw
    BY <1>10, <2>1, <2>6, <2>8
  <2>12. rewardRate' = rate /\ periodFinish' - lastUpdateTime' = left /\ lqty'.unipool = held - paidOut
    BY <2>1
  <2>. QED BY ONLY <2>1, <2>8, <2>10, <2>11, <2>12
<1>. QED BY <1>3, <1>5, <1>7, <1>8, <1>9, <1>11 DEF UnipoolInv


\* While a provider has a balance, the pool is not empty and its period not
\* prolonged.
LEMMA SupplyCounts ==
    ASSUME UnipoolInv, NEW p \in Providers
    PROVE  /\ lpBalance[p] \in Nat /\ lpBalance[p] <= lpTotalSupply /\ lpTotalSupply \in Nat
           /\ lpBalance[p] > 0 => updatedPeriodFinish = periodFinish
<1>1. lpBalance[p] \in Nat /\ lpBalance[p] <= lpTotalSupply /\ lpTotalSupply \in Nat
  BY SumNat, ProvidersFinite, OverUsers DEF UnipoolInv, UnipoolType
<1>. QED BY <1>1 DEF updatedPeriodFinish

\* stake of the Unipool
LEMMA StakeLPSafe ==
    ASSUME UnipoolInv, NEW p \in Providers, NEW amount \in Nat, stakeLP(p, amount), lqty' = lqty
    PROVE  UnipoolInv'
<1>1. updatedPeriodFinish \in Nat
  BY Accrued
<1>2. earned(p, updatedPeriodFinish) \in Nat /\ earned(p, updatedPeriodFinish) + 0 = earned(p, updatedPeriodFinish)
  BY EarnedType
<1>3. amount \in Int /\ lpBalance[p] + amount \in Nat /\ lqty'.unipool = lqty.unipool - 0 /\ lqty'.unipool \in Nat
  BY SupplyCounts DEF UnipoolInv, UnipoolType
<1>. QED BY <1>1, <1>2, <1>3, AccountUpdated DEF stakeLP, UpdateAccountReward

\* withdraw of the Unipool
LEMMA WithdrawLPSafe ==
    ASSUME UnipoolInv, NEW p \in Providers, NEW amount \in Nat, withdrawLP(p, amount), lqty' = lqty
    PROVE  UnipoolInv'
<1>1. updatedPeriodFinish \in Nat /\ periodFinish = updatedPeriodFinish
  BY Accrued, SupplyCounts DEF withdrawLP
<1>2. earned(p, updatedPeriodFinish) \in Nat /\ earned(p, updatedPeriodFinish) + 0 = earned(p, updatedPeriodFinish)
  BY EarnedType
<1>3. -amount \in Int /\ lpBalance[p] + (-amount) \in Nat /\ lqty'.unipool = lqty.unipool - 0 /\ lqty'.unipool \in Nat
  BY SupplyCounts DEF UnipoolInv, UnipoolType, withdrawLP
<1>. QED BY <1>1, <1>2, <1>3, AccountUpdated DEF withdrawLP, UpdateAccountReward

\* claimReward, which pays in LQTY
LEMMA ClaimSafe ==
    ASSUME UnipoolInv, NEW p \in Providers, claimReward(p),
           lqty'.unipool = lqty.unipool - Claimed(p), lqty'.unipool \in Nat
    PROVE  UnipoolInv'
<1>1. updatedPeriodFinish \in Nat
  BY Accrued
<1>2. PICK paidOut \in Nat : paidOut = earned(p, updatedPeriodFinish) /\ 0 + paidOut = earned(p, updatedPeriodFinish)
  BY EarnedType
<1>3. lpBalance[p] + 0 \in Nat /\ ChangeLP(p, 0)
  BY SupplyCounts DEF claimReward, ChangeLP, UnipoolInv, UnipoolType
<1>4. /\ rewardPerTokenStored' = rewardPerToken(updatedPeriodFinish) /\ rewards' = [rewards EXCEPT ![p] = 0]
      /\ userRewardPerTokenPaid' = [userRewardPerTokenPaid EXCEPT ![p] = rewardPerToken(updatedPeriodFinish)]
      /\ periodFinish' = updatedPeriodFinish /\ lastUpdateTime' = lastTimeRewardApplicable(updatedPeriodFinish)
      /\ UNCHANGED <<now, rewardRate, stakedTime>> /\ lqty'.unipool = lqty.unipool - paidOut
  BY <1>2 DEF claimReward, Claimed, UpdateAccountReward
<1>5. 0 \in Int /\ 0 \in Nat
  OBVIOUS
<1>. QED BY <1>1, <1>2, <1>3, <1>4, <1>5, AccountUpdated

\* withdrawAndClaim: the period of a pool that it leaves empty after its end is
\* prolonged, by the time that was not counted.
LEMMA WithdrawAndClaimSafe ==
    ASSUME UnipoolInv, NEW p \in Providers, withdrawAndClaim(p),
           lqty'.unipool = lqty.unipool - earned(p, periodFinish), lqty'.unipool \in Nat
    PROVE  UnipoolInv'
<1>. DEFINE finish == IF lpTotalSupply = lpBalance[p]
                      THEN periodFinish + (now - lastTimeRewardApplicable(periodFinish))
                      ELSE periodFinish
            last == lastTimeRewardApplicable(finish)
<1>1. updatedPeriodFinish = periodFinish /\ periodFinish \in Nat /\ now \in Nat
  BY SupplyCounts DEF withdrawAndClaim, UnipoolInv, UnipoolType
<1>2. PICK paidOut \in Nat : paidOut = earned(p, updatedPeriodFinish) /\ 0 + paidOut = earned(p, updatedPeriodFinish)
  BY EarnedType
<1>3. /\ finish \in Nat
      /\ finish - last = updatedPeriodFinish - lastTimeRewardApplicable(updatedPeriodFinish)
  BY <1>1 DEF lastTimeRewardApplicable, min
<1>4. -lpBalance[p] \in Int /\ lpBalance[p] + (-lpBalance[p]) \in Nat
  BY SupplyCounts
<1>5. /\ rewardPerTokenStored' = rewardPerToken(updatedPeriodFinish) /\ rewards' = [rewards EXCEPT ![p] = 0]
      /\ userRewardPerTokenPaid' = [userRewardPerTokenPaid EXCEPT ![p] = rewardPerToken(updatedPeriodFinish)]
      /\ periodFinish' = finish /\ lastUpdateTime' = last /\ UNCHANGED <<now, rewardRate, stakedTime>>
      /\ ChangeLP(p, -lpBalance[p]) /\ lqty'.unipool = lqty.unipool - paidOut
  BY <1>1, <1>2 DEF withdrawAndClaim
<1>6. last = lastTimeRewardApplicable(finish)
  OBVIOUS
<1>. HIDE DEF finish, last
<1>. QED BY <1>2, <1>3, <1>4, <1>5, <1>6, AccountUpdated

\* Time passes: for those who stake, until the period is over.
LEMMA TickSafe ==
    ASSUME UnipoolInv, UnipoolTick, lqty' = lqty
    PROVE  UnipoolInv'
<1>1. /\ UnipoolType' /\ TimeKept'
  BY UnipoolAssumption DEF UnipoolTick, UnipoolInv, UnipoolType, TimeKept, rewardVars
<1>2. owed' = owed
  BY DEF UnipoolTick, rewardVars, owed, owedAt
<1>. QED BY <1>1, <1>2 DEF UnipoolTick, UnipoolInv, UnipoolType, rewardVars

\* Where nothing of the Unipool and of its LQTY changes, nothing is owed that was not.
LEMMA UnipoolUnchanged ==
    ASSUME UnipoolInv, UNCHANGED unipoolVars, lqty'.unipool = lqty.unipool
    PROVE  UnipoolInv'
BY DEF UnipoolInv, UnipoolType, TimeKept, owed, owedAt, unipoolVars, rewardVars

\* With the invariant, every provider can be paid at once, and what the client
\* shows to be left is the reward of the time without a stake.
LEMMA ProvidersPaid ==
    ASSUME UnipoolInv
    PROVE  RewardPeriodKept
<1>. DEFINE e == [p \in Providers |-> earned(p, periodFinish)]
<1>1. PICK finish \in Nat, last \in Nat, r \in Nat :
         /\ finish = updatedPeriodFinish /\ r = rewardPerToken(finish) /\ last = lastTimeRewardApplicable(finish)
         /\ r >= rewardPerTokenStored /\ last <= finish
         /\ overProviders(owedAt(r)) + DECIMAL_PRECISION * (rewardRate * (finish - last)) <= DECIMAL_PRECISION * lqty.unipool
  BY Accrued
<1>2. PICK d \in Nat, rate \in Nat, held \in Nat, left \in Nat :
         d = DECIMAL_PRECISION /\ rate = rewardRate /\ held = lqty.unipool /\ left = finish - last /\ d > 0
  <2>1. finish - last \in Nat
    BY <1>1
  <2>2. DECIMAL_PRECISION \in Nat /\ DECIMAL_PRECISION > 0 /\ rewardRate \in Nat /\ lqty.unipool \in Nat
    BY LiquityBaseAssumption DEF UnipoolInv, UnipoolType
  <2>. QED BY <2>1, <2>2
<1>3. e \in [Providers -> Nat] /\ \A p \in Providers : d * e[p] <= owedAt(r)[p]
  BY <1>1, <1>2, EarnedType
<1>. HIDE DEF e
<1>4. d * SumOver(e, Providers) <= SumOver(owedAt(r), Providers)
  <2>1. Summand(e, Providers) /\ Summand(owedAt(r), Providers) /\ d \in Int
    BY <1>1, <1>2, <1>3, OwedType DEF Summand
  <2>. QED BY <1>3, <2>1, SumBound, ProvidersFinite
<1>5. PICK paid \in Nat, all \in Nat : paid = SumOver(e, Providers) /\ all = SumOver(owedAt(r), Providers)
  BY <1>1, <1>3, OwedType, SumNat, ProvidersFinite, OverUsers
<1>6. d * paid <= d * held
  <2>1. d * (rate * left) \in Nat /\ d * paid \in Nat /\ d * held \in Nat
    BY <1>2, <1>5, Products
  <2>2. all + d * (rate * left) <= d * held
    BY <1>1, <1>2, <1>5, OverUsers
  <2>. QED BY <1>4, <1>5, <2>1, <2>2
<1>7. overProviders(e) <= lqty.unipool
  BY <1>2, <1>5, <1>6, QuotientCovered, OverUsers
<1>8. getRemainingLiquidityMiningLQTYReward = rewardRate * (duration - stakedTime)
  <2>. DEFINE from == IF lpTotalSupply = 0 THEN lastUpdateTime ELSE now
              left2 == IF periodFinish > from THEN periodFinish - from ELSE 0
  <2>1. left2 = duration - stakedTime
    BY UnipoolAssumption DEF UnipoolInv, UnipoolType, TimeKept
  <2>2. getRemainingLiquidityMiningLQTYReward = rewardRate * left2
    BY DEF getRemainingLiquidityMiningLQTYReward
  <2>. QED BY <2>1, <2>2
<1>. QED BY <1>7, <1>8 DEF RewardPeriodKept, e


--------------------------------------------------------------------------------
(***************************************************************************)
(* The system                                                              *)
(***************************************************************************)
LQTYInv == StakesInv /\ UnipoolInv

\* stake of LQTYStaking
LEMMA StakeSafe ==
    ASSUME LQTYInv, NEW u \in Users, NEW amount \in Nat, Stake(u, amount)
    PROVE  LQTYInv'
<1>1. /\ amount > 0 /\ ChangeStake(u, amount) /\ lqty.users[u] >= amount
      /\ lqty' = [lqty EXCEPT !.users[u] = @ - amount, !.staking = @ + amount]
      /\ index' = withdrawStakeGains(updateStake(index, u, stakes'[u]), u, PendingGains(u))
      /\ UNCHANGED unipoolVars
  BY DEF Stake, stakeLQTY
<1>2. /\ stakes[u] \in Nat /\ stakes \in [Users -> Nat] /\ totalLQTYStaked \in Nat /\ lqty.staking = totalLQTYStaked
      /\ lqty \in [users : [Users -> Nat], staking : Nat, unipool : Nat]
  BY DEF LQTYInv, StakesInv, StakingInv, StakingType, LQTYType
<1>3. PICK left \in Nat, new \in Nat, held \in Nat :
         left = lqty.users[u] - amount /\ new = stakes[u] + amount /\ held = lqty.staking + amount
  BY <1>1, <1>2
<1>4. /\ lqty' \in [users : [Users -> Nat], staking : Nat, unipool : Nat]
      /\ lqty'.staking = held /\ lqty'.unipool = lqty.unipool
  <2>1. lqty' = [lqty EXCEPT !.users[u] = left, !.staking = held]
    BY <1>1, <1>3
  <2>. QED BY <1>2, <2>1
<1>5. stakes' = [stakes EXCEPT ![u] = new] /\ totalLQTYStaked' = totalLQTYStaked + (new - stakes[u]) /\ stakes'[u] = new
  BY <1>1, <1>2, <1>3 DEF ChangeStake
<1>6. index' = updateStake(index, u, new)
  <2>1. updateStake(index, u, new).stake[u] # NoStake
    BY <1>3, LQTYAssumption DEF updateStake, LQTYInv, StakesInv, LQTYType
  <2>. QED BY <1>1, <1>5, <2>1 DEF withdrawStakeGains
<1>7. /\ StakesIndexed'
      /\ index' \in [stake : [Users -> Nat \cup {NoStake}], totalStaked : Int, total : Int, active : Int]
  <2>1. new # stakes[u]
    BY <1>1, <1>2, <1>3
  <2>. QED BY <1>3, <1>5, <1>6, <2>1, UpdateStakeIndexed DEF LQTYInv
<1>8. StakingInv'
  BY <1>1, <1>2, <1>3, <1>4, ChangeStakeSafe DEF LQTYInv, StakesInv
<1>9. lqty'.staking = totalLQTYStaked'
  BY <1>2, <1>3, <1>4, <1>5
<1>. QED BY <1>1, <1>4, <1>7, <1>8, <1>9, UnipoolUnchanged DEF LQTYInv, StakesInv, LQTYType

\* unstake of LQTYStaking
LEMMA UnstakeSafe ==
    ASSUME LQTYInv, NEW u \in Users, NEW amount \in Nat, Unstake(u, amount)
    PROVE  LQTYInv'
<1>1. /\ stakes[u] \in Nat /\ stakes \in [Users -> Nat] /\ totalLQTYStaked \in Nat /\ lqty.staking = totalLQTYStaked
      /\ lqty \in [users : [Users -> Nat], staking : Nat, unipool : Nat]
      /\ stakes[u] <= totalLQTYStaked /\ stakes[u] > 0
  <2>1. stakes[u] <= SumOver(stakes, Users)
    BY SumNat, LQTYAssumption DEF LQTYInv, StakesInv, StakingInv, StakingType
  <2>. QED BY <2>1, OverUsers DEF LQTYInv, StakesInv, StakingInv, StakingType, LQTYType, Unstake, unstakeLQTY
<1>2. PICK out \in Nat, new \in Nat :
         out = min(amount, stakes[u]) /\ new = stakes[u] - out /\ out <= stakes[u] /\ (out = 0 <=> amount = 0)
  BY <1>1 DEF min
<1>3. /\ ChangeStake(u, -out)
      /\ lqty' = [lqty EXCEPT !.users[u] = @ + out, !.staking = @ - out]
      /\ index' = withdrawStakeGains(IF amount > 0 THEN updateStake(index, u, new) ELSE index, u, PendingGains(u))
      /\ UNCHANGED unipoolVars
  BY <1>2 DEF Unstake, unstakeLQTY
<1>4. PICK got \in Nat, held \in Nat : got = lqty.users[u] + out /\ held = lqty.staking - out
  BY <1>1, <1>2
<1>5. /\ lqty' \in [users : [Users -> Nat], staking : Nat, unipool : Nat]
      /\ lqty'.staking = held /\ lqty'.unipool = lqty.unipool
  <2>1. lqty' = [lqty EXCEPT !.users[u] = got, !.staking = held]
    BY <1>3, <1>4
  <2>. QED BY <1>1, <2>1
<1>6. stakes' = [stakes EXCEPT ![u] = new] /\ totalLQTYStaked' = totalLQTYStaked + (new - stakes[u])
  <2>1. stakes' = [stakes EXCEPT ![u] = stakes[u] + (-out)] /\ totalLQTYStaked' = totalLQTYStaked + (-out)
    BY <1>3 DEF ChangeStake
  <2>2. stakes[u] + (-out) = new /\ -out = new - stakes[u]
    BY <1>1, <1>2
  <2>. QED BY <2>1, <2>2
<1>7. /\ StakesIndexed'
      /\ index' \in [stake : [Users -> Nat \cup {NoStake}], totalStaked : Int, total : Int, active : Int]
  <2>1. CASE amount > 0
    <3>1. updateStake(index, u, new).stake[u] # NoStake
      BY <1>2, LQTYAssumption DEF updateStake, LQTYInv, StakesInv, LQTYType
    <3>2. index' = updateStake(index, u, new)
      BY <1>3, <2>1, <3>1 DEF withdrawStakeGains
    <3>3. new # stakes[u]
      BY <1>1, <1>2, <2>1
    <3>. QED BY <1>2, <1>6, <3>2, <3>3, UpdateStakeIndexed DEF LQTYInv
  <2>2. CASE amount = 0
    <3>1. index.stake[u] # NoStake
      BY <1>1 DEF LQTYInv, StakesInv, StakesIndexed
    <3>2. index' = index
      BY <1>3, <2>2, <3>1 DEF withdrawStakeGains
    <3>3. new = stakes[u]
      BY <1>1, <1>2, <2>2
    <3>4. stakes' = stakes /\ totalLQTYStaked' = totalLQTYStaked
      BY <1>1, <1>6, <3>3
    <3>. QED BY <3>2, <3>4 DEF LQTYInv, StakesInv, StakesIndexed, LQTYType
  <2>. QED BY <2>1, <2>2
<1>8. StakingInv'
  <2>1. -out \in Int /\ stakes[u] + (-out) \in Nat /\ lqty'.staking \in Nat
    BY <1>1, <1>2, <1>4, <1>5
  <2>. QED BY <1>3, <2>1, ChangeStakeSafe DEF LQTYInv, StakesInv
<1>9. lqty'.staking = totalLQTYStaked'
  BY <1>1, <1>2, <1>4, <1>5, <1>6
<1>. QED BY <1>3, <1>5, <1>7, <1>8, <1>9, UnipoolUnchanged DEF LQTYInv, StakesInv, LQTYType

\* Steps that leave LQTYStaking's account and the subgraph alone.
LEMMA StakesUnchanged ==
    ASSUME StakesInv, UNCHANGED <<stakingVars, index>>, LQTYType', lqty'.staking = lqty.staking
    PROVE  StakesInv'
BY StakingUnchanged DEF StakesInv, StakesIndexed, stakingVars

\* The Unipool pays a reward.
LEMMA RewardPaid ==
    ASSUME LQTYInv, NEW p \in Providers, NEW reward \in Nat, PayReward(p, reward)
    PROVE  StakesInv' /\ lqty'.unipool = lqty.unipool - reward /\ lqty'.unipool \in Nat
<1>1. /\ lqty \in [users : [Users -> Nat], staking : Nat, unipool : Nat] /\ p \in Users /\ lqty.unipool >= reward
      /\ lqty' = [lqty EXCEPT !.users[p] = @ + reward, !.unipool = @ - reward]
      /\ UNCHANGED <<stakingVars, index>>
  BY LQTYAssumption DEF LQTYInv, StakesInv, LQTYType, PayReward
<1>2. PICK got \in Nat, left \in Nat : got = lqty.users[p] + reward /\ left = lqty.unipool - reward
  BY <1>1
<1>3. lqty' = [lqty EXCEPT !.users[p] = got, !.unipool = left]
  BY <1>1, <1>2
<1>4. /\ lqty' \in [users : [Users -> Nat], staking : Nat, unipool : Nat]
      /\ lqty'.unipool = left /\ lqty'.staking = lqty.staking
  <2>1. lqty \in [users : [Users -> Nat], staking : Nat, unipool : Nat]
    BY <1>1
  <2>. QED BY <1>2, <1>3, <2>1
<1>5. LQTYType'
  BY <1>1, <1>4 DEF LQTYInv, StakesInv, LQTYType
<1>. QED BY <1>1, <1>2, <1>4, <1>5, StakesUnchanged DEF LQTYInv


\* Nothing is owed, nothing indexed and nothing staked at first.
LEMMA LQTYInitially == LQTYInit => LQTYInv
<1>. SUFFICES ASSUME LQTYInit PROVE LQTYInv
  OBVIOUS
<1>. USE DEF LQTYInit, StakingInit, UnipoolInit, NoFees
<1>1. IsFiniteSet(Users) /\ IsFiniteSet(Providers)
  BY LQTYAssumption, ProvidersFinite
<1>2. StakingInv
  <2>1. SumOver(stakes, Users) = 0
    BY <1>1, SumZeros
  <2>2. ASSUME NEW asset \in Assets PROVE overUsers(due(asset)) <= DECIMAL_PRECISION * feesHeld[asset]
    <3>1. \A u \in Users : due(asset)[u] = 0
      BY DEF due, Assets
    <3>2. SumOver(due(asset), Users) = 0
      BY <1>1, <3>1, SumZeros
    <3>3. DECIMAL_PRECISION * feesHeld[asset] = 0
      BY LiquityBaseAssumption DEF Assets
    <3>. QED BY <3>2, <3>3, OverUsers
  <2>3. StakingType
    BY DEF StakingType, Assets
  <2>. QED BY <2>1, <2>2, <2>3, OverUsers DEF StakingInv, Assets
<1>3. LQTYType
  BY LQTYAssumption, UnipoolAssumption DEF LQTYType
<1>4. StakesIndexed
  <2>1. {u \in Users : stakes[u] > 0} = {} /\ {u \in Users : index.stake[u] # NoStake} = {}
    OBVIOUS
  <2>. QED BY <2>1, FS_EmptySet DEF StakesIndexed
<1>5. UnipoolInv
  <2>1. PICK rate \in Nat : rate = rewardRate /\ duration * rate <= lpRewards
    <3>1. duration \in Nat /\ duration > 0 /\ lpRewards \in Nat /\ rewardRate = lpRewards \div duration
      BY UnipoolAssumption
    <3>. QED BY <3>1, QuotientBelow
  <2>2. UnipoolType
    BY <2>1, UnipoolAssumption DEF UnipoolType
  <2>3. SumOver(lpBalance, Providers) = 0
    BY <1>1, SumZeros
  <2>4. SumOver(owed, Providers) = 0
    <3>1. \A p \in Providers : owed[p] = 0
      BY LiquityBaseAssumption DEF owed, owedAt
    <3>. QED BY <1>1, <3>1, SumZeros
  <2>5. DECIMAL_PRECISION * (rewardRate * (periodFinish - lastUpdateTime)) <= DECIMAL_PRECISION * lqty.unipool
    <3>1. PICK d \in Nat, dur \in Nat, l \in Nat : d = DECIMAL_PRECISION /\ dur = duration /\ l = lpRewards
      BY LiquityBaseAssumption, UnipoolAssumption
    <3>2. rate * dur = dur * rate /\ dur * rate \in Nat
      BY <2>1, <3>1
    <3>3. (dur * rate) * d <= l * d
      BY <2>1, <3>1, <3>2, Products
    <3>4. d * (rate * dur) = (dur * rate) * d /\ d * l = l * d
      BY <3>1, <3>2
    <3>5. periodFinish - lastUpdateTime = dur /\ lqty.unipool = l
      BY <3>1
    <3>. QED BY <2>1, <3>1, <3>3, <3>4, <3>5
  <2>6. 0 + DECIMAL_PRECISION * (rewardRate * (periodFinish - lastUpdateTime)) <= DECIMAL_PRECISION * lqty.unipool
    <3>1. DECIMAL_PRECISION * (rewardRate * (periodFinish - lastUpdateTime)) \in Int
      BY <2>1, UnipoolAssumption, LiquityBaseAssumption
    <3>. QED BY <2>5, <3>1
  <2>7. TimeKept
    BY UnipoolAssumption DEF TimeKept
  <2>. QED BY <2>2, <2>3, <2>4, <2>6, <2>7, OverUsers, UnipoolAssumption DEF UnipoolInv
<1>. QED BY <1>2, <1>3, <1>4, <1>5 DEF LQTYInv, StakesInv

\* Every step keeps both contracts able to pay.
LEMMA LQTYInvariance == LQTYSpec => []LQTYInv
<1>1. LQTYInv /\ [LQTYNext]_lqtyVars => LQTYInv'
  <2>. SUFFICES ASSUME LQTYInv, [LQTYNext]_lqtyVars PROVE LQTYInv'
    OBVIOUS
  <2>. StakesInv /\ UnipoolInv /\ LQTYType
    BY DEF LQTYInv, StakesInv
  <2>1. CASE StakerAction
    <3>1. PICK u \in Users, amount \in LQTYAmounts : Stake(u, amount) \/ Unstake(u, amount)
      BY <2>1 DEF StakerAction
    <3>2. amount \in Nat
      BY LQTYAssumption
    <3>. QED BY <3>1, <3>2, StakeSafe, UnstakeSafe
  <2>2. CASE FeeAction
    <3>1. PICK asset \in Assets, fee \in Nat : PayFee(asset, fee)
      BY <2>2, LQTYAssumption DEF FeeAction, StakesInv, StakingInv, StakingType
    <3>2. lqty' = lqty /\ index' = index /\ UNCHANGED unipoolVars /\ increaseF(asset, fee)
      BY <3>1 DEF PayFee
    <3>3. StakingInv'
      BY <3>2, IncreaseFSafe DEF StakesInv, LQTYType
    <3>4. StakesInv'
      BY <3>2, <3>3 DEF StakesInv, LQTYType, StakesIndexed, increaseF
    <3>. QED BY <3>2, <3>4, UnipoolUnchanged DEF LQTYInv
  <2>3. CASE ProviderAction
    <3>1. PICK p \in Providers :
             \/ \E amount \in Nat : StakeLP(p, amount) \/ WithdrawLP(p, amount)
             \/ Claim(p)
             \/ WithdrawAndClaim(p)
      BY <2>3, LQTYAssumption DEF ProviderAction
    <3>2. ASSUME NEW amount \in Nat, StakeLP(p, amount) \/ WithdrawLP(p, amount) PROVE LQTYInv'
      <4>1. UNCHANGED <<stakingVars, index>> /\ lqty' = lqty /\ (stakeLP(p, amount) \/ withdrawLP(p, amount))
        BY <3>2 DEF StakeLP, WithdrawLP, tokenVars
      <4>2. LQTYType'
        BY <4>1 DEF LQTYType
      <4>. QED BY <4>1, <4>2, StakesUnchanged, StakeLPSafe, WithdrawLPSafe DEF LQTYInv
    <3>3. CASE Claim(p)
      <4>1. Claimed(p) \in Nat
        BY EarnedType DEF Claimed
      <4>2. StakesInv' /\ lqty'.unipool = lqty.unipool - Claimed(p) /\ lqty'.unipool \in Nat
        BY <3>3, <4>1, RewardPaid DEF Claim
      <4>. QED BY <3>3, <4>2, ClaimSafe DEF Claim, LQTYInv
    <3>4. CASE WithdrawAndClaim(p)
      <4>1. earned(p, periodFinish) \in Nat
        BY EarnedType
      <4>2. StakesInv' /\ lqty'.unipool = lqty.unipool - earned(p, periodFinish) /\ lqty'.unipool \in Nat
        BY <3>4, <4>1, RewardPaid DEF WithdrawAndClaim
      <4>. QED BY <3>4, <4>2, WithdrawAndClaimSafe DEF WithdrawAndClaim, LQTYInv
    <3>. QED BY <3>1, <3>2, <3>3, <3>4
  <2>4. CASE LQTYTime
    <3>1. UNCHANGED <<stakingVars, index>> /\ lqty' = lqty /\ UnipoolTick
      BY <2>4 DEF LQTYTime, tokenVars
    <3>2. LQTYType'
      BY <3>1 DEF LQTYType
    <3>. QED BY <3>1, <3>2, StakesUnchanged, TickSafe DEF LQTYInv
  <2>5. CASE UNCHANGED lqtyVars
    <3>1. UNCHANGED <<stakingVars, index>> /\ lqty' = lqty /\ UNCHANGED unipoolVars
      BY <2>5 DEF lqtyVars, tokenVars
    <3>2. LQTYType'
      BY <3>1 DEF LQTYType
    <3>. QED BY <3>1, <3>2, StakesUnchanged, UnipoolUnchanged DEF LQTYInv
  <2>. QED BY <2>1, <2>2, <2>3, <2>4, <2>5 DEF LQTYNext
<1>. QED BY <1>1, LQTYInitially, PTL DEF LQTYSpec

\* LQTYStaking can always pay every staker, whoever stakes and unstakes between
\* the fees and however the shares of the fees are rounded: the stakes add up
\* to the recorded total and to the LQTY it holds, the gains to no more than the
\* fees it holds (stake, unstake, increaseF_ETH, increaseF_LUSD).
THEOREM StakingStaysSolvent == LQTYSpec => []StakingSolvent
<1>1. LQTYInv => StakingSolvent
  BY StakersPaid DEF LQTYInv, StakesInv, StakingInv, StakingType, StakingSolvent
<1>. QED BY <1>1, LQTYInvariance, PTL

\* The Unipool's clock runs while somebody stakes, and it can always pay what
\* was earned, for any times of staking, withdrawing and claiming
\* (_updatePeriodFinish, rewardPerToken, earned).
THEOREM RewardPeriodStays == LQTYSpec => []RewardPeriodKept
<1>1. LQTYInv => RewardPeriodKept
  BY ProvidersPaid DEF LQTYInv
<1>. QED BY <1>1, LQTYInvariance, PTL

\* The subgraph's stakes and counters follow LQTYStaking through every sequence
\* of stakes, withdrawals and gains (updateStake, withdrawStakeGains).
THEOREM StakesStayIndexed == LQTYSpec => []StakesIndexed
<1>1. LQTYInv => StakesIndexed
  BY DEF LQTYInv, StakesInv
<1>. QED BY <1>1, LQTYInvariance, PTL


--------------------------------------------------------------------------------
(***************************************************************************)
(* The StabilityPool.  The sums only grow, a snapshot is never ahead of    *)
(* the pool, and a deposit keeps the tag of a registered front end.        *)
(***************************************************************************)
Snapshots == [S : Nat, P : Nat, G : Nat, scale : 0..MaxScale, epoch : 0..MaxEpoch]

PoolType ==
    /\ deposits \in [Depositors -> [initialValue : Nat, frontEndTag : Tags]]
    /\ depositSnapshots \in [Depositors -> Snapshots]
    /\ frontEnds \in [FrontEnds -> [kickbackRate : 0..DECIMAL_PRECISION, registered : BOOLEAN]]
    /\ P \in Nat /\ P > 0 /\ currentScale \in 0..MaxScale /\ currentEpoch \in 0..MaxEpoch
    /\ epochToScaleToSum \in [Places -> Nat] /\ epochToScaleToG \in [Places -> Nat]
    /\ lastError \in [LQTY : Nat, ETH : Nat, LUSDLoss : Int]
    /\ totalLUSDDeposits \in Nat /\ totalLQTYIssued \in Nat /\ minutes \in 0..MaxMinutes

SnapshotBehind(d) ==
    /\ depositSnapshots[d].P > 0 /\ depositSnapshots[d].epoch <= currentEpoch
    /\ depositSnapshots[d].epoch = currentEpoch => depositSnapshots[d].scale <= currentScale

TagRegistered(d) == deposits[d].frontEndTag # NoFrontEnd => frontEnds[deposits[d].frontEndTag].registered

PoolInv ==
    /\ PoolType
    /\ totalLQTYIssued <= latestTotalLQTYIssued
    /\ \A d \in Depositors : deposits[d].initialValue > 0 => SnapshotBehind(d)
    /\ \A d \in Depositors : TagRegistered(d)

\* Division by a positive number is monotonic.
LEMMA QuotientMonotonic ==
    ASSUME NEW x \in Int, NEW y \in Int, x <= y, NEW d \in Nat, d > 0
    PROVE  x \div d \in Int /\ y \div d \in Int /\ x \div d <= y \div d
<1>1. PICK q \in Int, r \in Int : q = x \div d /\ x = q * d + r /\ 0 <= r /\ r < d
  <2>1. x \div d \in Int /\ x % d \in 0..(d - 1)
    BY SMT
  <2>. QED BY <2>1, DivisionIdentity
<1>2. PICK k \in Int, s \in Int : k = y \div d /\ y = k * d + s /\ 0 <= s /\ s < d
  <2>1. y \div d \in Int /\ y % d \in 0..(d - 1)
    BY SMT
  <2>. QED BY <2>1, DivisionIdentity
<1>3. ASSUME q > k PROVE FALSE
  <2>1. PICK n \in Nat : q = k + 1 + n
    <3>1. q - k - 1 \in Nat /\ q = k + 1 + (q - k - 1)
      BY <1>1, <1>2, <1>3
    <3>. QED BY <3>1
  <2>2. q * d = k * d + d + n * d /\ n * d \in Nat /\ k * d \in Int
    <3>1. n * d \in Nat /\ k * d \in Int
      BY <1>2, <2>1, Products
    <3>2. (k + (1 + n)) * d = k * d + (1 + n) * d
      BY <1>2, <2>1
    <3>3. (1 + n) * d = d + n * d
      BY <2>1
    <3>. QED BY <2>1, <3>1, <3>2, <3>3
  <2>. QED BY <1>1, <1>2, <2>2
<1>. QED BY <1>1, <1>2, <1>3

\* So is multiplication by a natural.
LEMMA ProductMonotonic ==
    ASSUME NEW x \in Int, NEW y \in Int, x <= y, NEW c \in Nat
    PROVE  c * x \in Int /\ c * y \in Int /\ c * x <= c * y
<1>1. y - x \in Nat /\ y = x + (y - x)
  OBVIOUS
<1>2. c * (x + (y - x)) = c * x + c * (y - x) /\ c * x \in Int
  BY <1>1, Distributes
<1>3. c * (y - x) \in Nat
  BY <1>1, Products
<1>. QED BY <1>1, <1>2, <1>3

\* The gain from a sum grows with the sum.
LEMMA GainMonotonic ==
    ASSUME NEW initial \in Nat, NEW snap \in Snapshots, initial > 0 => snap.P > 0, NEW from \in Nat,
           NEW before \in [Places -> Nat], NEW after \in [Places -> Nat],
           \A place \in Places : before[place] <= after[place]
    PROVE  /\ GainFromSnapshots(initial, snap, from, before) \in Int
           /\ GainFromSnapshots(initial, snap, from, after) \in Int
           /\ GainFromSnapshots(initial, snap, from, before) <= GainFromSnapshots(initial, snap, from, after)
<1>1. CASE initial = 0
  BY <1>1 DEF GainFromSnapshots
<1>2. CASE initial > 0
  <2>1. PICK here \in Places, next \in Places : here = <<snap.epoch, snap.scale>> /\ next = <<snap.epoch, snap.scale + 1>>
    <3>1. snap.epoch \in 0..MaxEpoch /\ snap.scale \in 0..MaxScale /\ MaxScale \in Nat
      BY StabilityPoolAssumption DEF Snapshots
    <3>2. snap.scale \in 0..(MaxScale + 1) /\ snap.scale + 1 \in 0..(MaxScale + 1)
      BY <3>1
    <3>3. <<snap.epoch, snap.scale>> \in Places /\ <<snap.epoch, snap.scale + 1>> \in Places
      BY <3>1, <3>2 DEF Places
    <3>. QED BY <3>3
  <2>2. PICK sf \in Nat, d \in Nat, p \in Nat :
           sf = SCALE_FACTOR /\ d = DECIMAL_PRECISION /\ p = snap.P /\ sf > 0 /\ d > 0 /\ p > 0
    <3>1. SCALE_FACTOR \in Nat /\ SCALE_FACTOR * SCALE_FACTOR = DECIMAL_PRECISION /\ DECIMAL_PRECISION \in Nat /\ DECIMAL_PRECISION > 0
      BY StabilityPoolAssumption, LiquityBaseAssumption
    <3>2. SCALE_FACTOR # 0
      BY <3>1
    <3>. QED BY <1>2, <3>1, <3>2 DEF Snapshots
  <2>3. PICK x1 \in Nat, x2 \in Nat, y1 \in Nat, y2 \in Nat :
           /\ x1 = before[here] /\ x2 = before[next] /\ y1 = after[here] /\ y2 = after[next]
           /\ x1 <= y1 /\ x2 <= y2
    BY <2>1
  <2>4. PICK x3 \in Int, y3 \in Int : x3 = x2 \div sf /\ y3 = y2 \div sf /\ x3 <= y3
    BY <2>2, <2>3, QuotientMonotonic
  <2>5. PICK x4 \in Int, y4 \in Int : x4 = x1 - from + x3 /\ y4 = y1 - from + y3 /\ x4 <= y4
    BY <2>3, <2>4
  <2>6. PICK x5 \in Int, y5 \in Int : x5 = initial * x4 /\ y5 = initial * y4 /\ x5 <= y5
    BY <2>5, ProductMonotonic
  <2>7. PICK x6 \in Int, y6 \in Int : x6 = x5 \div p /\ y6 = y5 \div p /\ x6 <= y6
    BY <2>2, <2>6, QuotientMonotonic
  <2>8. x6 \div d \in Int /\ y6 \div d \in Int /\ x6 \div d <= y6 \div d
    BY <2>2, <2>7, QuotientMonotonic
  <2>9. GainFromSnapshots(initial, snap, from, before) = x6 \div d
    BY <1>2, <2>1, <2>2, <2>3, <2>4, <2>5, <2>6, <2>7 DEF GainFromSnapshots
  <2>10. GainFromSnapshots(initial, snap, from, after) = y6 \div d
    BY <1>2, <2>1, <2>2, <2>3, <2>4, <2>5, <2>6, <2>7 DEF GainFromSnapshots
  <2>. QED BY <2>8, <2>9, <2>10
<1>. QED BY <1>1, <1>2


\* Scaling and epochs in numbers.
LEMMA Scaling == SCALE_FACTOR \in Nat /\ SCALE_FACTOR > 0 /\ DECIMAL_PRECISION \in Nat /\ DECIMAL_PRECISION > 0
<1>1. SCALE_FACTOR \in Nat /\ SCALE_FACTOR * SCALE_FACTOR = DECIMAL_PRECISION /\ DECIMAL_PRECISION \in Nat /\ DECIMAL_PRECISION > 0
  BY StabilityPoolAssumption, LiquityBaseAssumption
<1>2. SCALE_FACTOR # 0
  BY <1>1
<1>. QED BY <1>1, <1>2

\* The place of the pool is one of the places.
LEMMA HereIsPlace == ASSUME PoolInv PROVE Here \in Places
<1>1. currentEpoch \in 0..MaxEpoch /\ currentScale \in 0..MaxScale /\ MaxScale \in Nat
  BY StabilityPoolAssumption DEF PoolInv, PoolType
<1>2. currentScale \in 0..(MaxScale + 1)
  BY <1>1
<1>. QED BY <1>1, <1>2 DEF Here, Places

\* What was issued by a minute is a natural; it grows with the time.
LEMMA IssuedType ==
    ASSUME PoolInv
    PROVE  /\ latestTotalLQTYIssued \in Nat /\ issuance \in Nat
           /\ (Tick => latestTotalLQTYIssued' \in Nat /\ latestTotalLQTYIssued <= latestTotalLQTYIssued')
<1>. DEFINE pow(m) == decPow(ISSUANCE_FACTOR, m)
            issued(m) == (LQTYSupplyCap * (DECIMAL_PRECISION - pow(m))) \div DECIMAL_PRECISION
<1>1. minutes \in 0..MaxMinutes /\ MaxMinutes \in Nat /\ LQTYSupplyCap \in Nat /\ totalLQTYIssued \in Nat
      /\ totalLQTYIssued <= latestTotalLQTYIssued
  BY CommunityIssuanceAssumption DEF PoolInv, PoolType
<1>2. ASSUME NEW m \in 0..MaxMinutes PROVE issued(m) \in Nat
  <2>1. PICK share \in Nat : share = DECIMAL_PRECISION - pow(m)
    <3>1. pow(m) \in 0..DECIMAL_PRECISION
      BY IssuanceCurveAssumption
    <3>. QED BY <3>1, Scaling
  <2>2. LQTYSupplyCap * share \in Nat
    BY <1>1, <2>1, Products
  <2>. QED BY <2>1, <2>2, QuotientBelow, Scaling
<1>3. ASSUME NEW m \in 0..MaxMinutes, m < MaxMinutes PROVE issued(m) <= issued(m + 1)
  <2>1. PICK x \in Int, y \in Int : x = DECIMAL_PRECISION - pow(m) /\ y = DECIMAL_PRECISION - pow(m + 1) /\ x <= y
    <3>1. m + 1 \in 0..MaxMinutes
      BY <1>1, <1>3
    <3>2. pow(m) \in 0..DECIMAL_PRECISION /\ pow(m + 1) \in 0..DECIMAL_PRECISION /\ pow(m + 1) <= pow(m)
      BY <1>3, <3>1, IssuanceCurveAssumption
    <3>. QED BY <3>2, Scaling
  <2>2. LQTYSupplyCap * x \in Int /\ LQTYSupplyCap * y \in Int /\ LQTYSupplyCap * x <= LQTYSupplyCap * y
    BY <1>1, <2>1, ProductMonotonic
  <2>. QED BY <2>1, <2>2, QuotientMonotonic, Scaling
<1>4. latestTotalLQTYIssued = issued(minutes) /\ latestTotalLQTYIssued' = issued(minutes')
  BY DEF latestTotalLQTYIssued, getCumulativeIssuanceFraction
<1>. HIDE DEF issued
<1>5. latestTotalLQTYIssued \in Nat /\ issuance \in Nat
  BY <1>1, <1>2, <1>4 DEF issuance
<1>6. ASSUME Tick PROVE latestTotalLQTYIssued' \in Nat /\ latestTotalLQTYIssued <= latestTotalLQTYIssued'
  <2>1. minutes < MaxMinutes /\ minutes' = minutes + 1 /\ minutes + 1 \in 0..MaxMinutes
    BY <1>1, <1>6 DEF Tick
  <2>. QED BY <1>1, <1>2, <1>3, <1>4, <2>1
<1>. QED BY <1>5, <1>6

\* Bringing G up to date never lowers it, and the division leaves a natural.
LEMMA UpdateGType ==
    ASSUME PoolInv
    PROVE  /\ updateG.G \in [Places -> Nat] /\ updateG.error \in Nat
           /\ \A place \in Places : epochToScaleToG[place] <= updateG.G[place]
<1>1. /\ epochToScaleToG \in [Places -> Nat] /\ lastError.LQTY \in Nat /\ totalLUSDDeposits \in Nat /\ P \in Nat
      /\ issuance \in Nat /\ Here \in Places
  BY HereIsPlace, IssuedType DEF PoolInv, PoolType
<1>2. CASE totalLUSDDeposits = 0 \/ issuance = 0
  <2>1. updateG.G = epochToScaleToG /\ updateG.error = lastError.LQTY
    BY <1>2 DEF updateG
  <2>. QED BY <1>1, <2>1
<1>3. CASE ~(totalLUSDDeposits = 0 \/ issuance = 0)
  <2>. DEFINE num == issuance * DECIMAL_PRECISION + lastError.LQTY
              per == num \div totalLUSDDeposits
  <2>1. num \in Nat
    <3>1. issuance * DECIMAL_PRECISION \in Nat
      BY <1>1, Scaling, Products
    <3>. QED BY <1>1, <3>1
  <2>2. updateG.G = [epochToScaleToG EXCEPT ![Here] = @ + per * P] /\ updateG.error = num - per * totalLUSDDeposits
    BY <1>3 DEF updateG
  <2>. HIDE DEF num
  <2>3. PICK q \in Nat, t \in Nat : q = per /\ t = totalLUSDDeposits /\ t * q <= num /\ t > 0
    BY <1>1, <1>3, <2>1, QuotientBelow
  <2>. HIDE DEF per
  <2>4. PICK grows \in Nat : grows = q * P
    BY <1>1, <2>3, Products
  <2>5. updateG.G = [epochToScaleToG EXCEPT ![Here] = @ + grows]
    BY <2>2, <2>3, <2>4
  <2>6. q * t = t * q /\ t * q \in Nat
    BY <2>3, Products
  <2>7. updateG.error \in Nat
    BY <2>1, <2>2, <2>3, <2>6
  <2>. QED BY <1>1, <2>5, <2>7
<1>. QED BY <1>2, <1>3


\* What a deposit of value i is worth in a pool with product p at a scale and an
\* epoch.
worthAt(i, snap, p, scale, epoch) ==
    LET compounded == CASE scale - snap.scale = 0 -> (i * p) \div snap.P
                        [] scale - snap.scale = 1 -> ((i * p) \div snap.P) \div SCALE_FACTOR
                        [] OTHER -> 0
    IN  IF i = 0 \/ snap.epoch < epoch \/ compounded < i \div SCALE_FACTOR THEN 0 ELSE compounded

\* A quotient times its divisor is at most the dividend, below zero too.
LEMMA QuotientBelowInt ==
    ASSUME NEW x \in Int, NEW d \in Nat, d > 0
    PROVE  x \div d \in Int /\ d * (x \div d) <= x
<1>1. x = (x \div d) * d + (x % d) /\ x % d \in Nat
  BY DivisionIdentity
<1>2. x \div d \in Int
  BY SMT
<1>. QED BY <1>1, <1>2

\* A deposit is worth less the lower the product is, and not more at the next
\* scale, where the product is scaled up by no more than SCALE_FACTOR.
LEMMA WorthMonotonic ==
    ASSUME NEW i \in Nat, NEW snap \in Snapshots, i > 0 => snap.P > 0,
           NEW p \in Nat, NEW q \in Nat, NEW scale \in Nat, NEW epoch \in Nat,
           snap.epoch = epoch => snap.scale <= scale, snap.epoch <= epoch
    PROVE  /\ worthAt(i, snap, p, scale, epoch) \in Nat
           /\ q <= p => worthAt(i, snap, q, scale, epoch) <= worthAt(i, snap, p, scale, epoch)
           /\ q <= SCALE_FACTOR * p =>
                 worthAt(i, snap, q, scale + 1, epoch) <= worthAt(i, snap, p, scale, epoch)
           /\ worthAt(i, snap, q, 0, epoch + 1) <= worthAt(i, snap, p, scale, epoch)
<1>. DEFINE worth == worthAt(i, snap, p, scale, epoch)
<1>1. PICK s \in Nat, e \in Nat, sp \in Nat, sf \in Nat :
         /\ s = snap.scale /\ e = snap.epoch /\ sp = snap.P /\ sf = SCALE_FACTOR /\ sf > 0
         /\ e <= epoch /\ (e = epoch => s <= scale) /\ (i > 0 => sp > 0)
  BY Scaling, StabilityPoolAssumption DEF Snapshots
<1>2. CASE i = 0 \/ e < epoch
  BY <1>1, <1>2 DEF worthAt
<1>3. CASE i > 0 /\ e = epoch
  <2>1. \A r \in Nat : (i * r) \div sp \in Nat /\ ((i * r) \div sp) \div sf \in Nat
    <3>. TAKE r \in Nat
    <3>1. i * r \in Nat
      BY Products
    <3>2. (i * r) \div sp \in Nat
      BY <1>1, <1>3, <3>1, QuotientBelow
    <3>. QED BY <1>1, <3>2, QuotientBelow
  <2>. DEFINE kept(c) == IF c < i \div sf THEN 0 ELSE c
              at0(r) == (i * r) \div sp
              at1(r) == ((i * r) \div sp) \div sf
  <2>2. PICK least \in Nat : least = i \div sf
    BY <1>1, QuotientBelow
  <2>3. \A c \in Nat, b \in Nat : c <= b => kept(c) <= kept(b) /\ kept(c) \in Nat /\ kept(b) \in Nat
    BY <2>2
  <2>4. ASSUME NEW r \in Nat, NEW sc \in Nat
        PROVE  worthAt(i, snap, r, sc, epoch) =
                  IF sc - s = 0 THEN kept(at0(r)) ELSE IF sc - s = 1 THEN kept(at1(r)) ELSE kept(0)
    <3>1. CASE sc - s = 0
      BY <1>1, <1>3, <3>1 DEF worthAt
    <3>2. CASE sc - s = 1
      BY <1>1, <1>3, <3>2 DEF worthAt
    <3>3. CASE sc - s # 0 /\ sc - s # 1
      BY <1>1, <1>3, <3>3 DEF worthAt
    <3>. QED BY <3>1, <3>2, <3>3
  <2>5. worthAt(i, snap, q, 0, epoch + 1) = 0
    BY <1>1, <1>3 DEF worthAt
  <2>6. ASSUME NEW a \in Nat, NEW b \in Nat, a <= b PROVE at0(a) <= at0(b) /\ at1(a) <= at1(b)
    <3>1. i * a \in Int /\ i * b \in Int /\ i * a <= i * b
      BY <2>6, ProductMonotonic
    <3>2. at0(a) <= at0(b) /\ at0(a) \in Int /\ at0(b) \in Int
      BY <1>1, <1>3, <3>1, QuotientMonotonic
    <3>. QED BY <1>1, <3>2, QuotientMonotonic
  <2>7. ASSUME q <= sf * p PROVE at1(q) <= at0(p)
    <3>1. PICK x \in Nat, y \in Nat, z \in Nat : x = i * q /\ y = i * p /\ z = i * (sf * p) /\ x <= z /\ z = sf * y
      <4>1. sf * p \in Nat /\ i * q \in Nat /\ i * p \in Nat
        BY <1>1, Products
      <4>2. i * q <= i * (sf * p) /\ i * (sf * p) \in Nat
        BY <2>7, <4>1, ProductMonotonic, Products
      <4>3. i * (sf * p) = sf * (i * p)
        BY <1>1
      <4>. QED BY <4>1, <4>2, <4>3
    <3>2. PICK u \in Nat, v \in Nat, w \in Nat : u = x \div sp /\ v = u \div sf /\ w = y \div sp
      BY <1>1, <1>3, <3>1, QuotientBelow
    <3>3. sp * u <= x /\ sf * v <= u
      BY <1>1, <1>3, <3>1, <3>2, QuotientBelow
    \* sp * v <= y, so v is at most y \div sp
    <3>4. sf * (sp * v) <= sf * y
      <4>1. sp * (sf * v) <= sp * u /\ sf * v \in Nat /\ sp * v \in Nat
        BY <1>1, <3>2, <3>3, ProductMonotonic, Products
      <4>2. sf * (sp * v) = sp * (sf * v)
        BY <1>1, <3>2
      <4>3. sp * u \in Nat /\ sp * (sf * v) \in Nat /\ sf * y \in Nat
        BY <1>1, <3>1, <3>2, <4>1, Products
      <4>4. sp * (sf * v) <= z
        BY <3>1, <3>3, <4>1, <4>3
      <4>. QED BY <3>1, <4>2, <4>4
    <3>5. sp * v <= y
      <4>1. sp * v \in Int
        BY <1>1, <3>2
      <4>. QED BY <1>1, <3>1, <3>4, <4>1, QuotientCovered
    <3>6. (sp * v) \div sp <= y \div sp
      <4>1. sp * v \in Int
        BY <1>1, <3>2
      <4>. QED BY <1>1, <1>3, <3>1, <3>5, <4>1, QuotientMonotonic
    <3>7. (sp * v) \div sp = v
      BY <1>1, <1>3, <3>2
    <3>. QED BY <3>1, <3>2, <3>6, <3>7
  <2>8. at0(p) \in Nat /\ at1(p) \in Nat /\ at0(q) \in Nat /\ at1(q) \in Nat
    BY <2>1
  <2>9. kept(0) = 0
    BY <2>2
  <2>. HIDE DEF kept, at0, at1
  <2>10. worth \in Nat
    BY <2>3, <2>4, <2>8
  <2>11. q <= p => worthAt(i, snap, q, scale, epoch) <= worth
    BY <2>3, <2>4, <2>6, <2>8
  <2>12. ASSUME q <= sf * p PROVE worthAt(i, snap, q, scale + 1, epoch) <= worth
    <3>1. scale + 1 \in Nat /\ scale - s \in Nat /\ scale + 1 - s = (scale - s) + 1
      BY <1>1, <1>3
    <3>2. CASE scale - s = 0
      <4>1. worthAt(i, snap, q, scale + 1, epoch) = kept(at1(q)) /\ worth = kept(at0(p))
        BY <2>4, <3>1, <3>2
      <4>. QED BY <2>3, <2>7, <2>8, <2>12, <4>1
    <3>3. CASE scale - s # 0
      <4>1. scale + 1 - s # 0 /\ scale + 1 - s # 1
        BY <3>1, <3>3
      <4>2. worthAt(i, snap, q, scale + 1, epoch) = 0
        BY <2>4, <2>9, <3>1, <4>1
      <4>. QED BY <2>10, <4>2
    <3>. QED BY <3>2, <3>3
  <2>. QED BY <1>1, <2>5, <2>10, <2>11, <2>12
<1>. QED BY <1>1, <1>2, <1>3


\* The worth of a deposit in the model's terms, before and after a step.
LEMMA CompoundedIsWorth ==
    ASSUME NEW d
    PROVE  /\ getCompoundedLUSDDeposit(d) =
                 worthAt(deposits[d].initialValue, depositSnapshots[d], P, currentScale, currentEpoch)
           /\ getCompoundedLUSDDeposit(d)' =
                 worthAt(deposits'[d].initialValue, depositSnapshots'[d], P', currentScale', currentEpoch')
BY DEF getCompoundedLUSDDeposit, CompoundedStakeFromSnapshots, worthAt

\* What the accounts of a depositor are in a state with the invariant.
LEMMA DepositorType ==
    ASSUME PoolInv, NEW d \in Depositors
    PROVE  /\ deposits[d].initialValue \in Nat /\ deposits[d].frontEndTag \in Tags
           /\ depositSnapshots[d] \in Snapshots
           /\ depositSnapshots[d].S \in Nat /\ depositSnapshots[d].G \in Nat
           /\ deposits[d].initialValue > 0 => depositSnapshots[d].P > 0
           /\ getCompoundedLUSDDeposit(d) \in Nat
<1>1. /\ deposits[d] \in [initialValue : Nat, frontEndTag : Tags] /\ depositSnapshots[d] \in Snapshots
      /\ P \in Nat /\ currentScale \in Nat /\ currentEpoch \in Nat
      /\ deposits[d].initialValue > 0 => SnapshotBehind(d)
  BY StabilityPoolAssumption DEF PoolInv, PoolType
<1>2. PICK i \in Nat, snap \in Snapshots : i = deposits[d].initialValue /\ snap = depositSnapshots[d]
  BY <1>1
<1>3. getCompoundedLUSDDeposit(d) = worthAt(i, snap, P, currentScale, currentEpoch)
  BY <1>2, CompoundedIsWorth
<1>4. CASE i = 0
  BY <1>1, <1>2, <1>3, <1>4 DEF worthAt, Snapshots
<1>5. CASE i > 0
  <2>1. snap.P > 0 /\ snap.epoch <= currentEpoch /\ (snap.epoch = currentEpoch => snap.scale <= currentScale)
    BY <1>1, <1>2, <1>5 DEF SnapshotBehind
  <2>2. worthAt(i, snap, P, currentScale, currentEpoch) \in Nat
    BY <1>1, <2>1, WorthMonotonic
  <2>. QED BY <1>1, <1>2, <1>3, <2>1, <2>2 DEF Snapshots
<1>. QED BY <1>2, <1>4, <1>5

\* So does the ETH gain with S.
LEMMA ETHGainMonotonic ==
    ASSUME PoolInv, NEW d \in Depositors
    PROVE  /\ getDepositorETHGain(d) \in Int
           /\ \A after \in [Places -> Nat] :
                 (\A place \in Places : epochToScaleToSum[place] <= after[place]) =>
                    /\ GainFromSnapshots(deposits[d].initialValue, depositSnapshots[d], depositSnapshots[d].S, after) \in Int
                    /\ getDepositorETHGain(d) <=
                          GainFromSnapshots(deposits[d].initialValue, depositSnapshots[d], depositSnapshots[d].S, after)
<1>1. PICK before \in [Places -> Nat] : before = epochToScaleToSum
  BY DEF PoolInv, PoolType
<1>2. PICK i \in Nat, snap \in Snapshots, from \in Nat :
         /\ i = deposits[d].initialValue /\ snap = depositSnapshots[d] /\ from = depositSnapshots[d].S
         /\ i > 0 => snap.P > 0
  BY DepositorType
<1>3. getDepositorETHGain(d) = GainFromSnapshots(i, snap, from, before)
  BY <1>1, <1>2 DEF getDepositorETHGain
<1>4. \A place \in Places : before[place] <= before[place]
  OBVIOUS
<1>5. GainFromSnapshots(i, snap, from, before) \in Int
  BY <1>2, <1>4, GainMonotonic
<1>6. ASSUME NEW after \in [Places -> Nat], \A place \in Places : before[place] <= after[place]
      PROVE  /\ GainFromSnapshots(i, snap, from, after) \in Int
             /\ GainFromSnapshots(i, snap, from, before) <= GainFromSnapshots(i, snap, from, after)
  BY <1>2, <1>6, GainMonotonic
<1>. QED BY <1>1, <1>2, <1>3, <1>5, <1>6

\* The LQTY gain grows with G, for the kickback rate of the deposit's tag.
LEMMA LQTYGainMonotonic ==
    ASSUME PoolInv, NEW d \in Depositors, NEW before \in [Places -> Nat], NEW after \in [Places -> Nat],
           \A place \in Places : before[place] <= after[place]
    PROVE  getDepositorLQTYGain(d, before) <= getDepositorLQTYGain(d, after)
           /\ getDepositorLQTYGain(d, before) \in Int
<1>. DEFINE tag == deposits[d].frontEndTag
            rate == IF tag = NoFrontEnd THEN DECIMAL_PRECISION ELSE frontEnds[tag].kickbackRate
            gain(G) == GainFromSnapshots(deposits[d].initialValue, depositSnapshots[d], depositSnapshots[d].G, G)
<1>1. rate \in Nat
  BY DepositorType, Scaling DEF PoolInv, PoolType, Tags
<1>2. gain(before) \in Int /\ gain(after) \in Int /\ gain(before) <= gain(after)
  BY DepositorType, GainMonotonic
<1>3. /\ getDepositorLQTYGain(d, before) = (rate * gain(before)) \div DECIMAL_PRECISION
      /\ getDepositorLQTYGain(d, after) = (rate * gain(after)) \div DECIMAL_PRECISION
  BY DEF getDepositorLQTYGain
<1>. HIDE DEF rate, gain
<1>4. rate * gain(before) \in Int /\ rate * gain(after) \in Int /\ rate * gain(before) <= rate * gain(after)
  BY <1>1, <1>2, ProductMonotonic
<1>. QED BY <1>3, <1>4, QuotientMonotonic, Scaling

\* A step that brings G up to date leaves nothing to issue: the gain it leads to
\* is the gain that was due.
LEMMA IssuedUpToDate ==
    ASSUME epochToScaleToG' = updateG.G, totalLQTYIssued' = latestTotalLQTYIssued, minutes' = minutes,
           latestTotalLQTYIssued \in Nat
    PROVE  updateG'.G = updateG.G /\ latestTotalLQTYIssued' = latestTotalLQTYIssued
<1>1. latestTotalLQTYIssued' = latestTotalLQTYIssued
  BY DEF latestTotalLQTYIssued, getCumulativeIssuanceFraction
<1>2. issuance' = 0
  BY <1>1 DEF issuance
<1>3. updateG'.G = epochToScaleToG'
  BY <1>2 DEF updateG
<1>. QED BY <1>1, <1>3


\* A depositor's own operation moves the pool's LQTY and ETH, and no number
\* another deposit's gains or worth are computed from, but G.
LEMMA ChangeDepositKeeps ==
    ASSUME PoolInv, NEW d \in Depositors, NEW tag \in Tags, NEW change \in Int,
           tag # NoFrontEnd => frontEnds[tag].registered,
           getCompoundedLUSDDeposit(d) + change \in Nat, ChangeDeposit(d, tag, change)
    PROVE  PoolInv' /\ NothingTaken
<1>1. PICK value \in Nat : value = getCompoundedLUSDDeposit(d) + change
  OBVIOUS
<1>2. /\ totalLQTYIssued' = latestTotalLQTYIssued /\ epochToScaleToG' = updateG.G
      /\ lastError' = [lastError EXCEPT !.LQTY = updateG.error]
      /\ deposits' = [deposits EXCEPT ![d] = [initialValue |-> value, frontEndTag |-> IF value = 0 THEN NoFrontEnd ELSE tag]]
      /\ depositSnapshots' = [depositSnapshots EXCEPT ![d] = SnapshotsNow(value, epochToScaleToSum[Here], updateG.G)]
      /\ totalLUSDDeposits + change >= 0 /\ totalLUSDDeposits' = totalLUSDDeposits + change
      /\ UNCHANGED <<frontEnds, P, currentScale, currentEpoch, epochToScaleToSum, minutes>>
  BY <1>1 DEF ChangeDeposit
<1>3. latestTotalLQTYIssued \in Nat /\ updateG.G \in [Places -> Nat] /\ updateG.error \in Nat /\ Here \in Places
  BY IssuedType, UpdateGType, HereIsPlace
<1>4. updateG'.G = updateG.G /\ latestTotalLQTYIssued' = latestTotalLQTYIssued
  BY <1>2, <1>3, IssuedUpToDate
<1>5. PICK snap \in Snapshots :
         /\ snap = SnapshotsNow(value, epochToScaleToSum[Here], updateG.G)
         /\ value > 0 => snap.P = P /\ snap.epoch = currentEpoch /\ snap.scale = currentScale
  <2>1. CASE value = 0
    <3>1. 0 \in 0..MaxScale /\ 0 \in 0..MaxEpoch
      BY StabilityPoolAssumption
    <3>2. NoSnapshots \in Snapshots
      BY <3>1 DEF NoSnapshots, Snapshots
    <3>. QED BY <2>1, <3>2 DEF SnapshotsNow
  <2>2. CASE value > 0
    <3>1. PICK sum \in Nat, g \in Nat, p \in Nat, scale \in 0..MaxScale, epoch \in 0..MaxEpoch :
             sum = epochToScaleToSum[Here] /\ g = updateG.G[Here] /\ p = P /\ scale = currentScale /\ epoch = currentEpoch
      BY <1>3 DEF PoolInv, PoolType
    <3>2. [S |-> sum, P |-> p, G |-> g, scale |-> scale, epoch |-> epoch] \in Snapshots
      BY DEF Snapshots
    <3>3. SnapshotsNow(value, epochToScaleToSum[Here], updateG.G) = [S |-> sum, P |-> p, G |-> g, scale |-> scale, epoch |-> epoch]
      BY <2>2, <3>1 DEF SnapshotsNow
    <3>. QED BY <3>1, <3>2, <3>3
  <2>. QED BY <2>1, <2>2
<1>6. PICK own \in [initialValue : Nat, frontEndTag : Tags] :
         /\ own = [initialValue |-> value, frontEndTag |-> IF value = 0 THEN NoFrontEnd ELSE tag]
         /\ own.initialValue = value /\ own.frontEndTag \in {NoFrontEnd, tag}
  <2>1. PICK t \in Tags : t = (IF value = 0 THEN NoFrontEnd ELSE tag) /\ t \in {NoFrontEnd, tag}
    BY DEF Tags
  <2>2. [initialValue |-> value, frontEndTag |-> t] \in [initialValue : Nat, frontEndTag : Tags]
    OBVIOUS
  <2>. QED BY <2>1, <2>2
<1>7. /\ deposits' = [deposits EXCEPT ![d] = own] /\ depositSnapshots' = [depositSnapshots EXCEPT ![d] = snap]
      /\ deposits'[d] = own /\ depositSnapshots'[d] = snap
      /\ \A e \in Depositors : e # d => deposits'[e] = deposits[e] /\ depositSnapshots'[e] = depositSnapshots[e]
      /\ deposits' \in [Depositors -> [initialValue : Nat, frontEndTag : Tags]]
      /\ depositSnapshots' \in [Depositors -> Snapshots]
  BY <1>2, <1>5, <1>6 DEF PoolInv, PoolType
<1>8. PoolType'
  <2>1. lastError' \in [LQTY : Nat, ETH : Nat, LUSDLoss : Int]
    BY <1>2, <1>3 DEF PoolInv, PoolType
  <2>2. totalLUSDDeposits' \in Nat
    BY <1>2 DEF PoolInv, PoolType
  <2>. QED BY <1>2, <1>3, <1>7, <2>1, <2>2 DEF PoolInv, PoolType
<1>9. totalLQTYIssued' <= latestTotalLQTYIssued'
  BY <1>2, <1>3, <1>4
<1>10. ASSUME NEW e \in Depositors PROVE (deposits'[e].initialValue > 0 => SnapshotBehind(e)') /\ TagRegistered(e)'
  <2>1. CASE e = d
    BY <1>2, <1>5, <1>6, <1>7, <2>1 DEF SnapshotBehind, TagRegistered, PoolInv, PoolType
  <2>2. CASE e # d
    BY <1>2, <1>7, <2>2 DEF SnapshotBehind, TagRegistered, PoolInv
  <2>. QED BY <2>1, <2>2
<1>11. PoolInv'
  BY <1>8, <1>9, <1>10 DEF PoolInv
<1>12. NothingTaken
  <2>. SUFFICES ASSUME NEW e \in Depositors, deposits'[e] = deposits[e], depositSnapshots'[e] = depositSnapshots[e]
                PROVE  /\ getDepositorETHGain(e)' >= getDepositorETHGain(e)
                       /\ getDepositorLQTYGain(e, updateG.G)' >= getDepositorLQTYGain(e, updateG.G)
                       /\ getCompoundedLUSDDeposit(e)' <= getCompoundedLUSDDeposit(e)
    BY DEF NothingTaken
  <2>1. getDepositorETHGain(e)' = getDepositorETHGain(e)
    BY <1>2 DEF getDepositorETHGain
  <2>2. getDepositorLQTYGain(e, updateG.G)' = getDepositorLQTYGain(e, updateG.G)
    BY <1>2, <1>4 DEF getDepositorLQTYGain
  <2>3. getCompoundedLUSDDeposit(e)' = getCompoundedLUSDDeposit(e)
    BY <1>2, CompoundedIsWorth
  <2>4. getDepositorETHGain(e) \in Int
    BY ETHGainMonotonic
  <2>5. getDepositorLQTYGain(e, updateG.G) \in Int
    BY <1>3, LQTYGainMonotonic
  <2>6. getCompoundedLUSDDeposit(e) \in Int
    BY DepositorType
  <2>. QED BY <2>1, <2>2, <2>3, <2>4, <2>5, <2>6
<1>. QED BY <1>11, <1>12

\* The product after a loss: lower, or scaled up by SCALE_FACTOR at the most at
\* the next scale, or new in the next epoch.
LEMMA ProductAfterLoss ==
    ASSUME PoolInv, NEW loss \in Nat, NEW product, product = newProduct(loss), product.P > 0
    PROVE  /\ product.P \in Nat
           /\ \/ product.epoch = currentEpoch + 1 /\ product.scale = 0
              \/ product.epoch = currentEpoch /\ product.scale = currentScale /\ product.P <= P
              \/ product.epoch = currentEpoch /\ product.scale = currentScale + 1 /\ product.P <= SCALE_FACTOR * P
<1>. DEFINE factor == DECIMAL_PRECISION - loss
            plain == (P * factor) \div DECIMAL_PRECISION
            scaled == (P * factor * SCALE_FACTOR) \div DECIMAL_PRECISION
<1>1. PICK p \in Nat, d \in Nat, sf \in Nat, f \in Int :
         p = P /\ d = DECIMAL_PRECISION /\ sf = SCALE_FACTOR /\ f = factor /\ d > 0 /\ sf > 0 /\ f <= d
  BY Scaling DEF PoolInv, PoolType
<1>2. PICK x \in Int, y \in Int, z \in Int :
         /\ x = p * f /\ y = x * sf /\ x <= d * p /\ z = sf * p /\ y <= d * z
  <2>1. p * f \in Int /\ p * d \in Int /\ p * f <= p * d
    BY <1>1, ProductMonotonic
  <2>2. sf * (p * f) \in Int /\ sf * (p * d) \in Int /\ sf * (p * f) <= sf * (p * d)
    BY <1>1, <2>1, ProductMonotonic
  <2>3. p * d = d * p /\ sf * (p * f) = (p * f) * sf /\ sf * (p * d) = d * (sf * p) /\ sf * p \in Int
    BY <1>1, <2>1
  <2>. QED BY <2>1, <2>2, <2>3
<1>3. PICK a \in Int, b \in Int : a = x \div d /\ b = y \div d /\ a <= p /\ b <= z
  <2>1. x \div d \in Int /\ d * (x \div d) <= x /\ y \div d \in Int /\ d * (y \div d) <= y
    BY <1>1, <1>2, QuotientBelowInt
  <2>2. d * (x \div d) <= d * p /\ d * (y \div d) <= d * z
    <3>1. d * (x \div d) \in Int /\ d * (y \div d) \in Int /\ d * p \in Int /\ d * z \in Int
      BY <1>1, <1>2, <2>1
    <3>. QED BY <1>2, <2>1, <3>1
  <2>3. x \div d <= p /\ y \div d <= z
    BY <1>1, <1>2, <2>1, <2>2, QuotientCovered
  <2>. QED BY <2>1, <2>3
<1>4. plain = a /\ scaled = b
  BY <1>1, <1>2, <1>3
<1>5. CASE factor = 0
  BY <1>5, Scaling DEF newProduct
<1>6. CASE factor # 0 /\ plain < SCALE_FACTOR
  <2>1. product = [P |-> scaled, epoch |-> currentEpoch, scale |-> currentScale + 1]
    BY <1>6 DEF newProduct
  <2>. HIDE DEF scaled
  <2>. QED BY <1>1, <1>2, <1>3, <1>4, <2>1
<1>7. CASE factor # 0 /\ ~(plain < SCALE_FACTOR)
  <2>1. product = [P |-> plain, epoch |-> currentEpoch, scale |-> currentScale]
    BY <1>7 DEF newProduct
  <2>. HIDE DEF plain
  <2>. QED BY <1>1, <1>2, <1>3, <1>4, <2>1
<1>. QED BY <1>5, <1>6, <1>7


\* The numbers of a liquidation: a gain and a loss per unit, and what the two
\* divisions leave.
LEMMA RewardsType ==
    ASSUME PoolInv, NEW debt \in Int, NEW coll \in Nat, totalLUSDDeposits > 0, debt > 0,
           debt < totalLUSDDeposits => debt * DECIMAL_PRECISION >= lastError.LUSDLoss
    PROVE  /\ computeRewardsPerUnitStaked(coll, debt).ETHGain \in Nat
           /\ computeRewardsPerUnitStaked(coll, debt).ETHError \in Nat
           /\ debt <= totalLUSDDeposits => computeRewardsPerUnitStaked(coll, debt).LUSDLoss \in Nat
           /\ debt <= totalLUSDDeposits => computeRewardsPerUnitStaked(coll, debt).LUSDLossError \in Int
<1>1. PICK t \in Nat, d \in Nat, eth \in Nat, err \in Int :
         /\ t = totalLUSDDeposits /\ d = DECIMAL_PRECISION /\ eth = lastError.ETH /\ err = lastError.LUSDLoss /\ t > 0 /\ d > 0
  BY Scaling DEF PoolInv, PoolType
<1>2. PICK n \in Nat, l \in Int : n = coll * d + eth /\ l = debt * d - err
  <2>1. coll * d \in Nat /\ debt * d \in Int
    BY <1>1, Products
  <2>. QED BY <1>1, <2>1
<1>3. PICK gain \in Nat : gain = n \div t /\ t * gain <= n
  BY <1>1, <1>2, QuotientBelow
<1>4. n - gain * t \in Nat
  <2>1. gain * t = t * gain /\ t * gain \in Nat
    BY <1>1, <1>3, Products
  <2>. QED BY <1>2, <1>3, <2>1
<1>5. /\ computeRewardsPerUnitStaked(coll, debt).ETHGain = gain
      /\ computeRewardsPerUnitStaked(coll, debt).ETHError = n - gain * t
      /\ computeRewardsPerUnitStaked(coll, debt).LUSDLoss = IF debt = t THEN d ELSE (l \div t) + 1
      /\ computeRewardsPerUnitStaked(coll, debt).LUSDLossError =
            IF debt = t THEN 0 ELSE ((l \div t) + 1) * t - l
  BY <1>1, <1>2, <1>3 DEF computeRewardsPerUnitStaked
<1>6. ASSUME debt <= t, debt # t
      PROVE  (l \div t) + 1 \in Nat /\ ((l \div t) + 1) * t - l \in Int
  <2>1. l \in Nat
    <3>1. debt * d >= err /\ debt * d \in Int
      BY <1>1, <1>6
    <3>. QED BY <1>1, <1>2, <3>1
  <2>2. PICK q \in Nat : q = l \div t
    BY <1>1, <2>1, QuotientBelow
  <2>3. (q + 1) * t \in Nat
    <3>1. q + 1 \in Nat
      OBVIOUS
    <3>. QED BY <3>1, <1>1, Products
  <2>. QED BY <1>2, <2>2, <2>3
<1>. QED BY <1>1, <1>3, <1>4, <1>5, <1>6

\* A liquidation lowers what the deposits are worth and adds to their gains.
LEMMA OffsetKeeps ==
    ASSUME PoolInv, NEW debt \in Int, NEW coll \in Nat, offset(debt, coll)
    PROVE  PoolInv' /\ NothingTaken
<1>1. PICK gain \in Nat, loss \in Nat, ethError \in Nat, lossError \in Int :
         /\ computeRewardsPerUnitStaked(coll, debt).ETHGain = gain
         /\ computeRewardsPerUnitStaked(coll, debt).LUSDLoss = loss
         /\ computeRewardsPerUnitStaked(coll, debt).ETHError = ethError
         /\ computeRewardsPerUnitStaked(coll, debt).LUSDLossError = lossError
  <2>1. /\ totalLUSDDeposits > 0 /\ debt > 0 /\ debt <= totalLUSDDeposits
        /\ debt < totalLUSDDeposits => debt * DECIMAL_PRECISION >= lastError.LUSDLoss
    BY DEF offset
  <2>. QED BY <2>1, RewardsType
<1>2. /\ debt <= totalLUSDDeposits /\ newProduct(loss).P > 0
      /\ newProduct(loss).epoch <= MaxEpoch /\ newProduct(loss).scale <= MaxScale
      /\ totalLQTYIssued' = latestTotalLQTYIssued /\ epochToScaleToG' = updateG.G
      /\ lastError' = [LQTY |-> updateG.error, ETH |-> ethError, LUSDLoss |-> lossError]
      /\ epochToScaleToSum' = [epochToScaleToSum EXCEPT ![Here] = @ + gain * P]
      /\ P' = newProduct(loss).P /\ currentEpoch' = newProduct(loss).epoch /\ currentScale' = newProduct(loss).scale
      /\ totalLUSDDeposits' = totalLUSDDeposits - debt
      /\ deposits' = deposits /\ depositSnapshots' = depositSnapshots
      /\ frontEnds' = frontEnds /\ minutes' = minutes
  BY <1>1 DEF offset, accounts
<1>3. latestTotalLQTYIssued \in Nat /\ updateG.G \in [Places -> Nat] /\ updateG.error \in Nat /\ Here \in Places
  BY IssuedType, UpdateGType, HereIsPlace
<1>4. updateG'.G = updateG.G /\ latestTotalLQTYIssued' = latestTotalLQTYIssued
  BY <1>2, <1>3, IssuedUpToDate
<1>5. /\ P' \in Nat
      /\ \/ currentEpoch' = currentEpoch + 1 /\ currentScale' = 0
         \/ currentEpoch' = currentEpoch /\ currentScale' = currentScale /\ P' <= P
         \/ currentEpoch' = currentEpoch /\ currentScale' = currentScale + 1 /\ P' <= SCALE_FACTOR * P
  BY <1>2, ProductAfterLoss
<1>6. epochToScaleToSum' \in [Places -> Nat] /\ \A place \in Places : epochToScaleToSum[place] <= epochToScaleToSum'[place]
  <2>1. PICK more \in Nat : more = gain * P
    BY Products DEF PoolInv, PoolType
  <2>2. epochToScaleToSum \in [Places -> Nat] /\ epochToScaleToSum' = [epochToScaleToSum EXCEPT ![Here] = @ + more]
    BY <1>2, <2>1 DEF PoolInv, PoolType
  <2>. QED BY <1>3, <2>2
<1>7. PoolType'
  <2>1. lastError' \in [LQTY : Nat, ETH : Nat, LUSDLoss : Int]
    BY <1>2, <1>3
  <2>2. totalLUSDDeposits' \in Nat
    BY <1>2 DEF PoolInv, PoolType
  <2>3. P' \in Nat /\ P' > 0 /\ currentScale' \in 0..MaxScale /\ currentEpoch' \in 0..MaxEpoch
    BY <1>2, <1>5, StabilityPoolAssumption DEF PoolInv, PoolType
  <2>. QED BY <1>2, <1>3, <1>6, <2>1, <2>2, <2>3 DEF PoolInv, PoolType
<1>8. PoolInv'
  <2>1. ASSUME NEW e \in Depositors PROVE (deposits'[e].initialValue > 0 => SnapshotBehind(e)') /\ TagRegistered(e)'
    <3>1. depositSnapshots[e].epoch \in Nat /\ depositSnapshots[e].scale \in Nat /\ currentEpoch \in Nat /\ currentScale \in Nat
      BY StabilityPoolAssumption DEF PoolInv, PoolType, Snapshots
    <3>. QED BY <1>2, <1>5, <3>1 DEF SnapshotBehind, TagRegistered, PoolInv
  <2>. QED BY <1>2, <1>3, <1>4, <1>7, <2>1 DEF PoolInv
<1>9. NothingTaken
  <2>. SUFFICES ASSUME NEW e \in Depositors
                PROVE  /\ getDepositorETHGain(e)' >= getDepositorETHGain(e)
                       /\ getDepositorLQTYGain(e, updateG.G)' >= getDepositorLQTYGain(e, updateG.G)
                       /\ getCompoundedLUSDDeposit(e)' <= getCompoundedLUSDDeposit(e)
    BY DEF NothingTaken
  <2>1. getDepositorETHGain(e)' >= getDepositorETHGain(e)
    <3>1. getDepositorETHGain(e)' =
             GainFromSnapshots(deposits[e].initialValue, depositSnapshots[e], depositSnapshots[e].S, epochToScaleToSum')
      BY <1>2 DEF getDepositorETHGain
    <3>. DEFINE after == epochToScaleToSum'
    <3>2. after \in [Places -> Nat] /\ \A place \in Places : epochToScaleToSum[place] <= after[place]
      BY <1>6
    <3>3. /\ GainFromSnapshots(deposits[e].initialValue, depositSnapshots[e], depositSnapshots[e].S, after) \in Int
          /\ getDepositorETHGain(e) <= GainFromSnapshots(deposits[e].initialValue, depositSnapshots[e], depositSnapshots[e].S, after)
          /\ getDepositorETHGain(e) \in Int
      <4>. HIDE DEF after
      <4>. QED BY <3>2, ETHGainMonotonic
    <3>. QED BY <3>1, <3>3
  <2>2. getDepositorLQTYGain(e, updateG.G)' = getDepositorLQTYGain(e, updateG.G)
    BY <1>2, <1>4 DEF getDepositorLQTYGain
  <2>3. getDepositorLQTYGain(e, updateG.G) \in Int
    BY <1>3, LQTYGainMonotonic
  <2>4. getCompoundedLUSDDeposit(e)' <= getCompoundedLUSDDeposit(e)
    <3>1. PICK i \in Nat, snap \in Snapshots :
             /\ i = deposits[e].initialValue /\ snap = depositSnapshots[e]
             /\ i > 0 => SnapshotBehind(e) /\ snap.P > 0
      BY DepositorType DEF PoolInv, SnapshotBehind
    <3>2. /\ getCompoundedLUSDDeposit(e) = worthAt(i, snap, P, currentScale, currentEpoch)
          /\ getCompoundedLUSDDeposit(e)' = worthAt(i, snap, P', currentScale', currentEpoch')
      BY <1>2, <3>1, CompoundedIsWorth
    <3>3. CASE i = 0
      BY <3>2, <3>3 DEF worthAt
    <3>4. CASE i > 0
      <4>1. PICK q \in Nat, p \in Nat, scale \in Nat, epoch \in Nat :
               q = P' /\ p = P /\ scale = currentScale /\ epoch = currentEpoch
        BY <1>5, StabilityPoolAssumption DEF PoolInv, PoolType
      <4>2. snap.P > 0 /\ snap.epoch <= epoch /\ (snap.epoch = epoch => snap.scale <= scale)
        BY <3>1, <3>4, <4>1 DEF SnapshotBehind
      <4>3. \/ currentEpoch' = epoch + 1 /\ currentScale' = 0
            \/ currentEpoch' = epoch /\ currentScale' = scale /\ q <= p
            \/ currentEpoch' = epoch /\ currentScale' = scale + 1 /\ q <= SCALE_FACTOR * p
        BY <1>5, <4>1
      <4>4. /\ q <= p => worthAt(i, snap, q, scale, epoch) <= worthAt(i, snap, p, scale, epoch)
            /\ q <= SCALE_FACTOR * p => worthAt(i, snap, q, scale + 1, epoch) <= worthAt(i, snap, p, scale, epoch)
            /\ worthAt(i, snap, q, 0, epoch + 1) <= worthAt(i, snap, p, scale, epoch)
        BY <4>2, WorthMonotonic
      <4>. QED BY <3>2, <4>1, <4>3, <4>4
    <3>. QED BY <3>3, <3>4
  <2>. QED BY <2>1, <2>2, <2>3, <2>4
<1>. QED BY <1>8, <1>9


\* The LQTY issued as time passes only adds to G.
LEMMA TimeKeeps ==
    ASSUME PoolInv, Time
    PROVE  PoolInv' /\ NothingTaken
<1>1. /\ minutes < MaxMinutes /\ minutes' = minutes + 1 /\ totalLQTYIssued' = totalLQTYIssued /\ Tick
      /\ UNCHANGED <<deposits, depositSnapshots, frontEnds, P, currentScale, currentEpoch, epochToScaleToSum,
                     epochToScaleToG, lastError, totalLUSDDeposits>>
  BY DEF Time, Tick, accounts, sums
<1>2. PICK n \in Nat, m \in Nat : n = issuance /\ m = issuance' /\ n <= m
  BY <1>1, IssuedType DEF issuance, PoolInv, PoolType
<1>3. PoolInv'
  <2>1. minutes' \in 0..MaxMinutes
    BY <1>1, CommunityIssuanceAssumption DEF PoolInv, PoolType
  <2>2. PoolType'
    BY <1>1, <2>1 DEF PoolInv, PoolType
  <2>3. totalLQTYIssued' <= latestTotalLQTYIssued'
    BY <1>1, IssuedType DEF PoolInv, PoolType
  <2>. QED BY <1>1, <2>2, <2>3 DEF PoolInv, SnapshotBehind, TagRegistered
<1>. DEFINE after == updateG'.G
<1>4. after \in [Places -> Nat] /\ \A place \in Places : updateG.G[place] <= after[place]
  <2>1. PICK g \in [Places -> Nat], err \in Nat, t \in Nat, p \in Nat, d \in Nat :
           g = epochToScaleToG /\ err = lastError.LQTY /\ t = totalLUSDDeposits /\ p = P /\ d = DECIMAL_PRECISION
    BY Scaling DEF PoolInv, PoolType
  <2>2. Here \in Places /\ Here' = Here
    BY <1>1, HereIsPlace DEF Here
  <2>. DEFINE at(k) == IF t = 0 \/ k = 0 THEN g
                       ELSE [g EXCEPT ![Here] = @ + ((k * d + err) \div t) * p]
  <2>3. updateG.G = at(n) /\ after = at(m)
    <3>1. updateG.G = at(n)
      BY <1>2, <2>1 DEF updateG
    <3>2. after = at(m)
      BY <1>1, <1>2, <2>1, <2>2 DEF updateG
    <3>. QED BY <3>1, <3>2
  <2>4. ASSUME t > 0, n > 0
        PROVE  /\ ((n * d + err) \div t) * p \in Nat /\ ((m * d + err) \div t) * p \in Nat
               /\ ((n * d + err) \div t) * p <= ((m * d + err) \div t) * p
    <3>1. PICK x \in Nat, y \in Nat : x = n * d + err /\ y = m * d + err /\ x <= y
      <4>1. n * d \in Nat /\ m * d \in Nat /\ n * d <= m * d
        BY <1>2, <2>1, Products
      <4>. QED BY <2>1, <4>1
    <3>2. PICK a \in Nat, b \in Nat : a = x \div t /\ b = y \div t /\ a <= b
      BY <2>1, <2>4, <3>1, QuotientBelow, QuotientMonotonic
    <3>. QED BY <2>1, <3>1, <3>2, Products
  <2>5. ASSUME t > 0 PROVE ((m * d + err) \div t) * p \in Nat
    <3>1. PICK y \in Nat : y = m * d + err
      <4>1. m * d \in Nat
        BY <1>2, <2>1, Products
      <4>. QED BY <2>1, <4>1
    <3>2. PICK b \in Nat : b = y \div t
      BY <2>1, <2>5, <3>1, QuotientBelow
    <3>. QED BY <2>1, <3>1, <3>2, Products
  <2>6. CASE t = 0 \/ m = 0
    BY <1>2, <2>1, <2>3, <2>6
  <2>7. CASE t # 0 /\ m # 0
    <3>1. PICK more \in Nat : more = ((m * d + err) \div t) * p
      BY <2>1, <2>5, <2>7
    <3>2. after = [g EXCEPT ![Here] = @ + more]
      BY <2>3, <2>7, <3>1
    <3>3. CASE n = 0
      BY <2>1, <2>2, <2>3, <3>2, <3>3
    <3>4. CASE n # 0
      <4>1. PICK less \in Nat : less = ((n * d + err) \div t) * p /\ less <= more
        BY <1>2, <2>1, <2>4, <2>7, <3>1, <3>4
      <4>2. updateG.G = [g EXCEPT ![Here] = @ + less]
        BY <2>3, <2>7, <3>4, <4>1
      <4>3. less <= more
        BY <4>1
      <4>. QED BY <2>1, <2>2, <3>2, <4>2, <4>3
    <3>. QED BY <3>3, <3>4
  <2>. QED BY <2>6, <2>7
<1>5. NothingTaken
  <2>. SUFFICES ASSUME NEW e \in Depositors
                PROVE  /\ getDepositorETHGain(e)' >= getDepositorETHGain(e)
                       /\ getDepositorLQTYGain(e, updateG.G)' >= getDepositorLQTYGain(e, updateG.G)
                       /\ getCompoundedLUSDDeposit(e)' <= getCompoundedLUSDDeposit(e)
    BY DEF NothingTaken
  <2>1. getDepositorETHGain(e)' = getDepositorETHGain(e) /\ getDepositorETHGain(e) \in Int
    BY <1>1, ETHGainMonotonic DEF getDepositorETHGain
  <2>2. getCompoundedLUSDDeposit(e)' = getCompoundedLUSDDeposit(e) /\ getCompoundedLUSDDeposit(e) \in Int
    BY <1>1, CompoundedIsWorth, DepositorType
  <2>3. getDepositorLQTYGain(e, updateG.G)' = getDepositorLQTYGain(e, after)
    BY <1>1 DEF getDepositorLQTYGain
  <2>4. updateG.G \in [Places -> Nat]
    BY UpdateGType
  <2>5. /\ getDepositorLQTYGain(e, updateG.G) <= getDepositorLQTYGain(e, after)
        /\ getDepositorLQTYGain(e, updateG.G) \in Int /\ getDepositorLQTYGain(e, after) \in Int
    <3>. HIDE DEF after
    <3>1. getDepositorLQTYGain(e, updateG.G) <= getDepositorLQTYGain(e, after) /\ getDepositorLQTYGain(e, updateG.G) \in Int
      BY <1>4, <2>4, LQTYGainMonotonic
    <3>2. \A place \in Places : after[place] <= after[place]
      BY <1>4
    <3>3. getDepositorLQTYGain(e, after) \in Int
      BY <1>4, <3>2, LQTYGainMonotonic
    <3>. QED BY <3>1, <3>3
  <2>. QED BY <2>1, <2>2, <2>3, <2>5
<1>. QED BY <1>3, <1>5

\* A front end that registers is nobody's tag yet: no deposit's split of the
\* LQTY changes.
LEMMA RegistrationKeeps ==
    ASSUME PoolInv, NEW f \in FrontEnds, NEW rate \in KickbackRates, registerFrontEnd(f, rate)
    PROVE  PoolInv' /\ NothingTaken
<1>1. /\ ~frontEnds[f].registered
      /\ frontEnds' = [frontEnds EXCEPT ![f] = [kickbackRate |-> rate, registered |-> TRUE]]
      /\ UNCHANGED <<deposits, depositSnapshots, P, currentScale, currentEpoch, epochToScaleToSum,
                     epochToScaleToG, lastError, totalLUSDDeposits, minutes, totalLQTYIssued>>
  BY DEF registerFrontEnd, accounts, sums, issuanceVars
<1>2. rate \in 0..DECIMAL_PRECISION
  BY StabilityPoolAssumption
<1>3. frontEnds' \in [FrontEnds -> [kickbackRate : 0..DECIMAL_PRECISION, registered : BOOLEAN]]
  <2>1. [kickbackRate |-> rate, registered |-> TRUE] \in [kickbackRate : 0..DECIMAL_PRECISION, registered : BOOLEAN]
    BY <1>2
  <2>. QED BY <1>1, <2>1 DEF PoolInv, PoolType
<1>4. frontEnds'[f].registered /\ \A g \in FrontEnds : g # f => frontEnds'[g] = frontEnds[g]
  BY <1>1 DEF PoolInv, PoolType
<1>5. latestTotalLQTYIssued' = latestTotalLQTYIssued /\ updateG'.G = updateG.G
  BY <1>1 DEF latestTotalLQTYIssued, getCumulativeIssuanceFraction, updateG, issuance, Here
<1>6. PoolInv'
  <2>1. PoolType'
    BY <1>1, <1>3 DEF PoolInv, PoolType
  <2>2. ASSUME NEW e \in Depositors PROVE TagRegistered(e)'
    <3>1. deposits'[e] = deposits[e] /\ deposits[e].frontEndTag \in Tags /\ TagRegistered(e)
      BY <1>1, DepositorType DEF PoolInv
    <3>. QED BY <1>4, <3>1 DEF TagRegistered, Tags
  <2>3. \A e \in Depositors : deposits'[e].initialValue > 0 => SnapshotBehind(e)'
    BY <1>1 DEF PoolInv, SnapshotBehind
  <2>. QED BY <1>1, <1>5, <2>1, <2>2, <2>3 DEF PoolInv
<1>7. NothingTaken
  <2>. SUFFICES ASSUME NEW e \in Depositors
                PROVE  /\ getDepositorETHGain(e)' >= getDepositorETHGain(e)
                       /\ getDepositorLQTYGain(e, updateG.G)' >= getDepositorLQTYGain(e, updateG.G)
                       /\ getCompoundedLUSDDeposit(e)' <= getCompoundedLUSDDeposit(e)
    BY DEF NothingTaken
  <2>1. getDepositorETHGain(e)' = getDepositorETHGain(e) /\ getDepositorETHGain(e) \in Int
    BY <1>1, ETHGainMonotonic DEF getDepositorETHGain
  <2>2. getCompoundedLUSDDeposit(e)' = getCompoundedLUSDDeposit(e) /\ getCompoundedLUSDDeposit(e) \in Int
    BY <1>1, CompoundedIsWorth, DepositorType
  <2>3. getDepositorLQTYGain(e, updateG.G)' = getDepositorLQTYGain(e, updateG.G)
    <3>1. deposits[e].frontEndTag # NoFrontEnd =>
             frontEnds'[deposits[e].frontEndTag] = frontEnds[deposits[e].frontEndTag]
      BY <1>1, <1>4, DepositorType DEF PoolInv, TagRegistered, Tags
    <3>. QED BY <1>1, <1>5, <3>1 DEF getDepositorLQTYGain
  <2>4. getDepositorLQTYGain(e, updateG.G) \in Int
    <3>1. updateG.G \in [Places -> Nat]
      BY UpdateGType
    <3>. QED BY <3>1, LQTYGainMonotonic
  <2>. QED BY <2>1, <2>2, <2>3, <2>4
<1>. QED BY <1>6, <1>7

\* The depositor's three operations are changes by an amount that the deposit
\* can give.
LEMMA DepositorKeeps ==
    ASSUME PoolInv, DepositorAction PROVE PoolInv' /\ NothingTaken
<1>1. PICK d \in Depositors :
         \/ \E amount \in Deposits, tag \in Tags : provideToSP(d, amount, tag)
         \/ \E amount \in Withdrawals : withdrawFromSP(d, amount)
         \/ withdrawETHGainToTrove(d)
  BY DEF DepositorAction
<1>2. /\ deposits[d].frontEndTag \in Tags /\ TagRegistered(d)
      /\ getCompoundedLUSDDeposit(d) \in Nat
  BY DepositorType DEF PoolInv
<1>3. ASSUME NEW amount \in Deposits, NEW tag \in Tags, provideToSP(d, amount, tag) PROVE PoolInv' /\ NothingTaken
  <2>1. PICK kept \in Tags : kept = (IF deposits[d].initialValue = 0 THEN tag ELSE deposits[d].frontEndTag)
    BY <1>2
  <2>2. ChangeDeposit(d, kept, amount) /\ (kept # NoFrontEnd => frontEnds[kept].registered)
    BY <1>2, <1>3, <2>1 DEF provideToSP, TagRegistered
  <2>3. amount \in Int /\ getCompoundedLUSDDeposit(d) + amount \in Nat
    BY <1>2, StabilityPoolAssumption
  <2>. QED BY <2>2, <2>3, ChangeDepositKeeps
<1>4. ASSUME NEW amount \in Withdrawals, withdrawFromSP(d, amount) PROVE PoolInv' /\ NothingTaken
  <2>1. PICK change \in Int : change = -min(amount, getCompoundedLUSDDeposit(d)) /\ getCompoundedLUSDDeposit(d) + change \in Nat
    BY <1>2, StabilityPoolAssumption DEF min
  <2>2. ChangeDeposit(d, deposits[d].frontEndTag, change)
    BY <1>4, <2>1 DEF withdrawFromSP
  <2>. QED BY <1>2, <2>1, <2>2, ChangeDepositKeeps DEF TagRegistered
<1>5. CASE withdrawETHGainToTrove(d)
  <2>1. ChangeDeposit(d, deposits[d].frontEndTag, 0) /\ getCompoundedLUSDDeposit(d) + 0 \in Nat
    BY <1>2, <1>5 DEF withdrawETHGainToTrove
  <2>. QED BY <1>2, <2>1, ChangeDepositKeeps DEF TagRegistered
<1>. QED BY <1>1, <1>3, <1>4, <1>5

\* Every step keeps the invariant and takes from nobody.
LEMMA PoolStep == ASSUME PoolInv, Next PROVE PoolInv' /\ NothingTaken
<1>1. CASE Liquidation
  <2>1. PICK coll \in Collaterals, debt \in Debts \cup {totalLUSDDeposits - left : left \in Remainders} : offset(debt, coll)
    BY <1>1 DEF Liquidation
  <2>2. coll \in Nat /\ debt \in Int
    BY StabilityPoolAssumption DEF PoolInv, PoolType
  <2>. QED BY <2>1, <2>2, OffsetKeeps
<1>2. CASE Registration
  BY <1>2, RegistrationKeeps DEF Registration
<1>. QED BY <1>1, <1>2, DepositorKeeps, TimeKeeps DEF Next

\* A pool that was just deployed satisfies it.
LEMMA PoolInitially == ASSUME Init PROVE PoolInv
<1>1. 0 \in 0..MaxScale /\ 0 \in 0..MaxEpoch /\ 0 \in 0..MaxMinutes /\ 0 \in 0..DECIMAL_PRECISION
  BY StabilityPoolAssumption, CommunityIssuanceAssumption, Scaling
<1>2. NoSnapshots \in Snapshots
  BY <1>1 DEF NoSnapshots, Snapshots
<1>3. [initialValue |-> 0, frontEndTag |-> NoFrontEnd] \in [initialValue : Nat, frontEndTag : Tags]
  BY DEF Tags
<1>4. [kickbackRate |-> 0, registered |-> FALSE] \in [kickbackRate : 0..DECIMAL_PRECISION, registered : BOOLEAN]
  BY <1>1
<1>5. PoolType
  BY <1>1, <1>2, <1>3, <1>4, Scaling DEF Init, IssuanceInit, PoolType
<1>6. totalLQTYIssued <= latestTotalLQTYIssued
  <2>1. PICK share \in Nat : share = getCumulativeIssuanceFraction
    <3>1. decPow(ISSUANCE_FACTOR, 0) \in 0..DECIMAL_PRECISION
      BY <1>1, IssuanceCurveAssumption
    <3>. QED BY <3>1, Scaling DEF Init, IssuanceInit, getCumulativeIssuanceFraction
  <2>2. LQTYSupplyCap * share \in Nat
    BY <2>1, Products, CommunityIssuanceAssumption
  <2>3. latestTotalLQTYIssued \in Nat
    BY <2>1, <2>2, QuotientBelow, Scaling DEF latestTotalLQTYIssued
  <2>. QED BY <2>3 DEF Init, IssuanceInit
<1>. QED BY <1>5, <1>6 DEF PoolInv, Init, TagRegistered

\* Nobody else's step takes from a depositor, for any number of depositors and
\* front ends, any deposits, liquidations and times: a liquidation that scales P
\* up or empties the pool, a front end that registers, LQTY that is issued late
\* lower no recorded deposit's ETH or LQTY gain and raise no deposit's worth
\* (offset, _updateRewardSumAndProduct, _triggerLQTYIssuance, registerFrontEnd).
THEOREM NobodyTakes == Spec => OthersNeverTake
<1>1. PoolInv /\ [Next]_vars => PoolInv'
  <2>1. ASSUME PoolInv, UNCHANGED vars PROVE PoolInv'
    <3>1. UNCHANGED <<deposits, depositSnapshots, frontEnds, P, currentScale, currentEpoch, epochToScaleToSum,
                      epochToScaleToG, lastError, totalLUSDDeposits, minutes, totalLQTYIssued>>
      BY <2>1 DEF vars, accounts, sums, issuanceVars
    <3>. QED BY <2>1, <3>1 DEF PoolInv, PoolType, SnapshotBehind, TagRegistered, latestTotalLQTYIssued,
                               getCumulativeIssuanceFraction
  <2>. QED BY <2>1, PoolStep
<1>2. PoolInv /\ [Next]_vars => [NothingTaken]_vars
  BY PoolStep
<1>3. Init => PoolInv
  BY PoolInitially
<1>. QED BY <1>1, <1>2, <1>3, PTL DEF Spec, OthersNeverTake


--------------------------------------------------------------------------------
(***************************************************************************)
(* What the deposits are worth together.  An offset rounds the loss per    *)
(* unit up, and the next one corrects that: between the two the deposits   *)
(* are worth too little, and after it they may be worth too much.  To      *)
(* count exactly, the invariant gives every deposit a share, a fraction    *)
(* with the denominator m, that no rounding lowers; the shares cover what  *)
(* the deposits are worth, and what they exceed the pool by is at most the *)
(* largest error so far less the one that is yet to be corrected.          *)
(***************************************************************************)
\* A share of k in m covers a deposit of value i with its snapshots, in a pool with
\* product p at a scale and an epoch: i * p / (the product of its snapshots) is at
\* most k / m, and one scale later a SCALE_FACTOR of that.
Covers(k, m, i, snap, p, scale, epoch) ==
    i # 0 /\ snap.epoch = epoch =>
       /\ snap.scale = scale => (i * p) * m <= k * snap.P
       /\ snap.scale + 1 = scale => (i * p) * m <= k * (snap.P * SCALE_FACTOR)

\* What covers a deposit covers what it is worth.
LEMMA CoversWorth ==
    ASSUME NEW k \in Nat, NEW m \in Nat, m > 0, NEW i \in Nat, NEW snap \in Snapshots, i > 0 => snap.P > 0,
           NEW p \in Nat, NEW scale \in Nat, NEW epoch \in Nat, snap.epoch <= epoch,
           snap.epoch = epoch => snap.scale <= scale,
           Covers(k, m, i, snap, p, scale, epoch)
    PROVE  m * worthAt(i, snap, p, scale, epoch) <= k
<1>1. PICK s \in Nat, e \in Nat, sp \in Nat, sf \in Nat :
         s = snap.scale /\ e = snap.epoch /\ sp = snap.P /\ sf = SCALE_FACTOR /\ sf > 0
  BY Scaling, StabilityPoolAssumption DEF Snapshots
<1>2. ASSUME NEW u \in Nat, u > 0, NEW c \in Nat, u * c <= i * p, (i * p) * m <= k * u
      PROVE  m * c <= k
  <2>1. PICK x \in Nat, y \in Nat, z \in Nat : x = i * p /\ y = u * c /\ z = m * c
    BY Products
  <2>2. y * m <= x * m
    BY <1>2, <2>1, Products
  <2>3. y * m = u * z
    BY <2>1
  <2>4. u * z <= u * k
    <3>1. k * u = u * k /\ u * k \in Nat /\ u * z \in Nat /\ x * m \in Nat
      BY <2>1, Products
    <3>. QED BY <1>2, <2>1, <2>2, <2>3, <3>1
  <2>. QED BY <1>2, <2>1, <2>4, QuotientCovered
<1>3. PICK worth \in Nat : worth = worthAt(i, snap, p, scale, epoch)
  BY WorthMonotonic
<1>4. CASE worth = 0
  <2>1. m * 0 = 0
    OBVIOUS
  <2>. QED BY <1>3, <1>4, <2>1
<1>5. CASE worth # 0
  <2>1. i > 0 /\ e = epoch /\ sp > 0 /\ i * p \in Nat
    <3>1. i # 0 /\ ~(e < epoch)
      BY <1>1, <1>3, <1>5 DEF worthAt
    <3>2. i * p \in Nat
      BY Products
    <3>. QED BY <1>1, <3>1, <3>2
  <2>2. PICK first \in Nat : first = (i * p) \div sp /\ sp * first <= i * p
    BY <2>1, QuotientBelow
  <2>3. CASE scale = s
    <3>1. worth = first
      BY <1>1, <1>3, <1>5, <2>1, <2>2, <2>3 DEF worthAt
    <3>2. (i * p) * m <= k * sp
      BY <1>1, <2>1, <2>3 DEF Covers
    <3>. QED BY <1>2, <1>3, <2>1, <2>2, <3>1, <3>2
  <2>4. CASE scale = s + 1
    <3>1. PICK second \in Nat : second = first \div sf /\ sf * second <= first
      BY <1>1, <2>2, QuotientBelow
    <3>2. worth = second
      <4>1. scale - s = 1
        BY <2>4
      <4>. QED BY <1>1, <1>3, <1>5, <2>1, <2>2, <3>1, <4>1 DEF worthAt
    <3>3. PICK u \in Nat : u = sp * sf /\ u > 0
      BY <1>1, <2>1, SMT
    <3>4. (i * p) * m <= k * u
      BY <1>1, <2>1, <2>4, <3>3 DEF Covers
    <3>5. u * second <= i * p
      <4>1. sp * (sf * second) \in Int /\ sp * first \in Int /\ sp * (sf * second) <= sp * first
        BY <1>1, <2>2, <3>1, ProductMonotonic
      <4>2. u * second = sp * (sf * second)
        BY <3>3
      <4>. QED BY <2>1, <2>2, <4>1, <4>2
    <3>. QED BY <1>2, <1>3, <3>2, <3>3, <3>4, <3>5
  <2>5. CASE scale # s /\ scale # s + 1
    <3>1. scale - s # 0 /\ scale - s # 1
      BY <2>5
    <3>2. worth = 0
      BY <1>1, <1>3, <2>1, <3>1 DEF worthAt
    <3>. QED BY <1>5, <3>2
  <2>. QED BY <2>3, <2>4, <2>5
<1>. QED BY <1>4, <1>5

\* A loss that leaves f / b of the product leaves a deposit covered by f / b of the
\* share, at the same scale and at the next.
LEMMA CoversAfterLoss ==
    ASSUME NEW k \in Nat, NEW m \in Nat, NEW i \in Nat, NEW snap \in Snapshots,
           NEW p \in Nat, NEW q \in Nat, NEW f \in Nat, NEW b \in Nat, NEW scale \in Nat, NEW epoch \in Nat,
           snap.epoch = epoch => snap.scale <= scale,
           Covers(k, m, i, snap, p, scale, epoch)
    PROVE  /\ b * q <= p * f => Covers(f * k, m * b, i, snap, q, scale, epoch)
           /\ b * q <= (p * f) * SCALE_FACTOR => Covers(f * k, m * b, i, snap, q, scale + 1, epoch)
<1>1. PICK s \in Nat, e \in Nat, sp \in Nat, sf \in Nat :
         s = snap.scale /\ e = snap.epoch /\ sp = snap.P /\ sf = SCALE_FACTOR /\ sf > 0
  BY Scaling, StabilityPoolAssumption DEF Snapshots
<1>2. ASSUME NEW u \in Nat, NEW t \in Nat, (i * p) * m <= k * u, b * q <= (p * f) * t
      PROVE  (i * q) * (m * b) <= (f * k) * (u * t)
  <2>1. PICK x \in Nat, y \in Nat, z \in Nat, w \in Nat, ft \in Nat :
           x = (i * p) * m /\ y = k * u /\ z = b * q /\ w = (p * f) * t /\ ft = f * t /\ x <= y /\ z <= w
    <3>1. i * p \in Nat /\ k * u \in Nat /\ b * q \in Nat /\ p * f \in Nat /\ f * t \in Nat
      BY Products
    <3>2. (i * p) * m \in Nat /\ (p * f) * t \in Nat
      BY <3>1, Products
    <3>. QED BY <1>2, <3>1, <3>2
  <2>2. PICK im \in Nat : im = i * m
    BY Products
  <2>3. im * z \in Int /\ im * w \in Int /\ im * z <= im * w
    BY <2>1, <2>2, ProductMonotonic
  <2>4. ft * x \in Int /\ ft * y \in Int /\ ft * x <= ft * y
    BY <2>1, ProductMonotonic
  <2>5. im * z = (i * q) * (m * b)
    BY <2>1, <2>2
  <2>6. im * w = ft * x
    BY <2>1, <2>2
  <2>7. ft * y = (f * k) * (u * t)
    BY <2>1, <2>2
  <2>. QED BY <2>3, <2>4, <2>5, <2>6, <2>7
<1>3. ASSUME b * q <= p * f PROVE Covers(f * k, m * b, i, snap, q, scale, epoch)
  <2>1. p * f \in Nat /\ (p * f) * 1 = p * f
    BY Products
  <2>2. \A u \in Nat : (i * p) * m <= k * u => (i * q) * (m * b) <= (f * k) * u
    <3>. TAKE u \in Nat
    <3>1. u * 1 = u
      OBVIOUS
    <3>. QED BY <1>2, <1>3, <2>1, <3>1
  <2>3. sp \in Nat /\ sp * sf \in Nat
    BY Products
  <2>. QED BY <1>1, <2>2, <2>3 DEF Covers
<1>4. ASSUME b * q <= (p * f) * SCALE_FACTOR PROVE Covers(f * k, m * b, i, snap, q, scale + 1, epoch)
  <2>1. (i * p) * m <= k * sp => (i * q) * (m * b) <= (f * k) * (sp * sf)
    BY <1>1, <1>2, <1>4
  <2>2. snap.epoch = epoch => s # scale + 1
    BY <1>1
  <2>3. s + 1 = scale + 1 => s = scale
    OBVIOUS
  <2>. QED BY <1>1, <2>1, <2>2, <2>3 DEF Covers
<1>. QED BY <1>3, <1>4

\* Of the pool, with the error of the division that is corrected next time: the
\* shares stay within the deposits, but for what is not corrected yet.
LEMMA SharesAfterLoss ==
    ASSUME NEW total \in Nat, NEW debt \in Nat, NEW b \in Nat, NEW f \in Nat, NEW l \in Nat, b = f + l,
           NEW e \in Nat, NEW w \in Nat, e <= w, NEW e2 \in Nat, NEW w2 \in Nat, w <= w2,
           l * total = debt * b - e + e2, NEW m \in Nat, NEW n \in Nat,
           n * b <= (total * b + w - e) * m
    PROVE  (f * n) * b <= ((total - debt) * b + w2 - e2) * (m * b)
<1>1. PICK tb \in Nat, db \in Nat, lt \in Nat, d \in Nat :
         tb = total * b /\ db = debt * b /\ lt = l * total /\ d = w - e /\ lt = db - e + e2
  BY Products
<1>2. PICK x \in Nat, y \in Nat : x = tb + d /\ y = x * m /\ n * b <= y
  <2>1. PICK x \in Nat : x = tb + d /\ x = total * b + w - e
    BY <1>1
  <2>2. x * m \in Nat
    BY <2>1, Products
  <2>. QED BY <2>1, <2>2
<1>3. f * (n * b) <= f * y /\ f * (n * b) \in Int /\ f * y \in Int
  <2>1. n * b \in Int
    BY Products
  <2>. QED BY <1>2, <2>1, ProductMonotonic
<1>4. PICK z \in Int : z = (total - debt) * b + w2 - e2 /\ z = tb - db + w2 - e2
  <2>1. (total - debt) * b = total * b - debt * b
    OBVIOUS
  <2>. QED BY <1>1, <2>1
<1>5. f * x <= b * z
  <2>1. f * x = f * tb + f * d
    BY <1>1, <1>2, Distributes
  <2>2. f * tb = b * (tb - lt)
    <3>1. f = b - l
      OBVIOUS
    <3>2. (b - l) * (total * b) = b * (total * b - l * total)
      OBVIOUS
    <3>. QED BY <1>1, <3>1, <3>2
  <2>3. f * d <= b * d /\ f * d \in Int /\ b * d \in Int
    BY <1>1, Products
  <2>4. b * (tb - lt) + b * d = b * ((tb - lt) + d)
    BY <1>1
  <2>5. (tb - lt) + d <= z
    BY <1>1, <1>4
  <2>6. b * ((tb - lt) + d) <= b * z
    BY <1>1, <1>4, <2>5, ProductMonotonic
  <2>7. f * x \in Int /\ b * z \in Int /\ b * (tb - lt) \in Int /\ b * ((tb - lt) + d) \in Int /\ f * tb \in Int
    BY <1>1, <1>2, <1>4
  <2>. QED BY <2>1, <2>2, <2>3, <2>4, <2>6, <2>7
<1>6. m * (f * x) <= m * (b * z) /\ m * (f * x) \in Int /\ m * (b * z) \in Int
  <2>1. f * x \in Int /\ b * z \in Int
    BY <1>2, <1>4
  <2>. QED BY <1>5, <2>1, ProductMonotonic
<1>7. f * y = m * (f * x) /\ z * (m * b) = m * (b * z) /\ (f * n) * b = f * (n * b)
  BY <1>2, <1>4
<1>. QED BY <1>3, <1>4, <1>6, <1>7

\* There are shares n, in units of 1 / m, that cover every deposit; together they
\* exceed the pool by no more than what the last error does not correct any more.
SharesCover(m, n) ==
    /\ \A d \in Depositors : Covers(n[d], m, deposits[d].initialValue, depositSnapshots[d], P, currentScale, currentEpoch)
    /\ SumOver(n, Depositors) * DECIMAL_PRECISION
          <= (totalLUSDDeposits * DECIMAL_PRECISION + worstLossError - lastError.LUSDLoss) * m

ExcessInv ==
    /\ worstLossError \in Nat /\ lastError.LUSDLoss \in Nat /\ lastError.LUSDLoss <= worstLossError
    /\ \E m \in Nat \ {0}, n \in [Depositors -> Nat] : SharesCover(m, n)

\* The depositors can be summed over.
LEMMA DepositorsFinite == IsFiniteSet(Depositors)
BY StabilityPoolAssumption

\* Shares of nothing cover a pool whose deposits are all worth nothing.
LEMMA NoShares ==
    ASSUME NEW total \in Nat, NEW worst \in Nat, NEW error \in Nat, error <= worst
    PROVE  /\ [d \in Depositors |-> 0] \in [Depositors -> Nat]
           /\ SumOver([d \in Depositors |-> 0], Depositors) * DECIMAL_PRECISION
                 <= (total * DECIMAL_PRECISION + worst - error) * 1
<1>. DEFINE none == [d \in Depositors |-> 0]
<1>1. none \in [Depositors -> Nat] /\ \A d \in Depositors : none[d] = 0
  OBVIOUS
<1>. HIDE DEF none
<1>2. SumOver(none, Depositors) = 0
  BY <1>1, DepositorsFinite, SumZeros
<1>3. PICK t \in Nat : t = total * DECIMAL_PRECISION
  BY Scaling, Products
<1>4. 0 * DECIMAL_PRECISION = 0 /\ (t + worst - error) * 1 >= 0
  BY Scaling
<1>5. SumOver(none, Depositors) * DECIMAL_PRECISION <= (total * DECIMAL_PRECISION + worst - error) * 1
  BY <1>2, <1>3, <1>4
<1>. QED BY <1>1, <1>5 DEF none

\* A share covers what the deposit is worth.
LEMMA ShareCoversWorth ==
    ASSUME PoolInv, NEW m \in Nat \ {0}, NEW n \in [Depositors -> Nat], SharesCover(m, n), NEW d \in Depositors
    PROVE  m * getCompoundedLUSDDeposit(d) <= n[d]
<1>1. PICK i \in Nat, snap \in Snapshots :
         /\ i = deposits[d].initialValue /\ snap = depositSnapshots[d]
         /\ i > 0 => SnapshotBehind(d) /\ snap.P > 0
  BY DepositorType DEF PoolInv, SnapshotBehind
<1>2. PICK p \in Nat, scale \in Nat, epoch \in Nat : p = P /\ scale = currentScale /\ epoch = currentEpoch
  BY StabilityPoolAssumption DEF PoolInv, PoolType
<1>3. /\ getCompoundedLUSDDeposit(d) = worthAt(i, snap, p, scale, epoch)
      /\ Covers(n[d], m, i, snap, p, scale, epoch)
  BY <1>1, <1>2, CompoundedIsWorth DEF SharesCover
<1>4. m > 0 /\ n[d] \in Nat
  OBVIOUS
<1>5. CASE i = 0
  <2>1. getCompoundedLUSDDeposit(d) = 0 /\ m * 0 = 0
    BY <1>3, <1>5 DEF worthAt
  <2>. QED BY <1>4, <2>1
<1>6. CASE i > 0
  <2>1. snap.P > 0 /\ snap.epoch <= epoch /\ (snap.epoch = epoch => snap.scale <= scale)
    BY <1>1, <1>2, <1>6 DEF SnapshotBehind
  <2>. QED BY <1>3, <1>4, <2>1, CoversWorth
<1>. QED BY <1>5, <1>6

\* What covers the deposits keeps ExcessBounded.
LEMMA ExcessFromShares == ASSUME PoolInv, ExcessInv PROVE ExcessBounded
<1>1. PICK m \in Nat \ {0}, n \in [Depositors -> Nat] : SharesCover(m, n)
  BY DEF ExcessInv
<1>2. PICK worth \in [Depositors -> Nat] : worth = [d \in Depositors |-> getCompoundedLUSDDeposit(d)]
  BY DepositorType
<1>3. totalWorth = SumOver(worth, Depositors)
  BY <1>2 DEF totalWorth, SumOver
<1>4. ASSUME NEW d \in Depositors PROVE m * worth[d] <= n[d]
  <2>1. worth[d] = getCompoundedLUSDDeposit(d)
    BY <1>2
  <2>. QED BY <1>1, <2>1, ShareCoversWorth
<1>5. Summand(worth, Depositors) /\ Summand(n, Depositors)
  BY DEF Summand
<1>6. PICK all \in Nat, shares \in Nat : all = SumOver(worth, Depositors) /\ shares = SumOver(n, Depositors) /\ m * all <= shares
  <2>1. SumOver(worth, Depositors) \in Nat /\ SumOver(n, Depositors) \in Nat
    BY DepositorsFinite, SumNat
  <2>2. m * SumOver(worth, Depositors) <= SumOver(n, Depositors)
    BY <1>4, <1>5, DepositorsFinite, SumBound
  <2>. QED BY <2>1, <2>2
<1>7. PICK b \in Nat, w \in Nat, e \in Nat, tb \in Nat :
         b = DECIMAL_PRECISION /\ w = worstLossError /\ e = lastError.LUSDLoss /\ tb = totalLUSDDeposits * b /\ e <= w
  <2>1. totalLUSDDeposits * DECIMAL_PRECISION \in Nat
    BY Scaling, Products DEF PoolInv, PoolType
  <2>. QED BY <2>1, Scaling DEF ExcessInv
<1>8. shares * b <= (tb + w - e) * m
  BY <1>1, <1>6, <1>7 DEF SharesCover
<1>9. m * (all * b) <= m * (tb + w)
  <2>1. b * (m * all) <= b * shares /\ b * (m * all) \in Int /\ b * shares \in Int
    <3>1. m * all \in Int
      BY <1>6, Products
    <3>. QED BY <1>6, <1>7, <3>1, ProductMonotonic
  <2>2. b * (m * all) = m * (all * b) /\ b * shares = shares * b /\ (tb + w - e) * m = m * (tb + w - e)
    BY <1>6, <1>7
  <2>3. m * (tb + w - e) <= m * (tb + w) /\ m * (tb + w - e) \in Int /\ m * (tb + w) \in Int
    <3>1. tb + w - e <= tb + w /\ tb + w - e \in Int /\ tb + w \in Int
      BY <1>7
    <3>. QED BY <3>1, ProductMonotonic
  <2>. QED BY <1>8, <2>1, <2>2, <2>3
<1>10. all * b <= tb + w
  <2>1. all * b \in Int /\ tb + w \in Int /\ m > 0
    BY <1>6, <1>7, Products
  <2>. QED BY <1>9, <2>1, QuotientCovered
<1>. QED BY <1>3, <1>6, <1>7, <1>10 DEF ExcessBounded

\* A pool that was just deployed owes nothing.
LEMMA ExcessInitially == ASSUME Init PROVE ExcessInv
<1>1. /\ worstLossError = 0 /\ lastError.LUSDLoss = 0 /\ totalLUSDDeposits = 0
      /\ \A d \in Depositors : deposits[d].initialValue = 0
  BY DEF Init
<1>2. PICK n \in [Depositors -> Nat] : SumOver(n, Depositors) * DECIMAL_PRECISION <= (0 * DECIMAL_PRECISION + 0 - 0) * 1
  <2>1. 0 \in Nat /\ 0 <= 0
    OBVIOUS
  <2>. QED BY <2>1, NoShares
<1>3. SharesCover(1, n)
  BY <1>1, <1>2 DEF SharesCover, Covers
<1>4. 1 \in Nat \ {0} /\ 0 \in Nat /\ 0 <= 0
  OBVIOUS
<1>. QED BY <1>1, <1>3, <1>4 DEF ExcessInv

\* A changed deposit is covered by its own new value.
LEMMA ExcessChange ==
    ASSUME PoolInv, ExcessInv, NEW d \in Depositors, NEW tag \in Tags, NEW change \in Int,
           getCompoundedLUSDDeposit(d) + change \in Nat, ChangeDeposit(d, tag, change)
    PROVE  ExcessInv'
<1>1. PICK m \in Nat \ {0}, n \in [Depositors -> Nat] : SharesCover(m, n)
  BY DEF ExcessInv
<1>2. PICK worth \in Nat, value \in Nat : worth = getCompoundedLUSDDeposit(d) /\ value = worth + change
  BY DepositorType
<1>3. /\ lastError' = [lastError EXCEPT !.LQTY = updateG.error]
      /\ deposits' = [deposits EXCEPT ![d] = [initialValue |-> value, frontEndTag |-> IF value = 0 THEN NoFrontEnd ELSE tag]]
      /\ depositSnapshots' = [depositSnapshots EXCEPT ![d] = SnapshotsNow(value, epochToScaleToSum[Here], updateG.G)]
      /\ totalLUSDDeposits' = totalLUSDDeposits + change
      /\ P' = P /\ currentScale' = currentScale /\ currentEpoch' = currentEpoch /\ worstLossError' = worstLossError
  BY <1>2 DEF ChangeDeposit
<1>4. lastError'.LUSDLoss = lastError.LUSDLoss
  BY <1>3 DEF PoolInv, PoolType
<1>5. PICK share \in Nat : share = value * m
  BY <1>2, Products
<1>6. PICK k \in [Depositors -> Nat] : k = [n EXCEPT ![d] = share] /\ k[d] = share /\ \A x \in Depositors : x # d => k[x] = n[x]
  <2>1. [n EXCEPT ![d] = share] \in [Depositors -> Nat]
    BY <1>5
  <2>. QED BY <2>1
<1>7. ASSUME NEW x \in Depositors
      PROVE  Covers(k[x], m, deposits'[x].initialValue, depositSnapshots'[x], P', currentScale', currentEpoch')
  <2>1. CASE x # d
    <3>1. deposits'[x] = deposits[x] /\ depositSnapshots'[x] = depositSnapshots[x] /\ k[x] = n[x]
      BY <1>3, <1>6, <2>1 DEF PoolInv, PoolType
    <3>. QED BY <1>1, <1>3, <3>1 DEF SharesCover
  <2>2. CASE x = d
    <3>1. deposits'[x].initialValue = value /\ depositSnapshots'[x] = SnapshotsNow(value, epochToScaleToSum[Here], updateG.G)
      BY <1>3, <2>2 DEF PoolInv, PoolType
    <3>2. CASE value = 0
      BY <3>1, <3>2 DEF Covers
    <3>3. CASE value # 0
      <4>1. PICK p \in Nat, scale \in Nat : p = P /\ scale = currentScale
        BY StabilityPoolAssumption DEF PoolInv, PoolType
      <4>2. depositSnapshots'[x].scale = scale /\ depositSnapshots'[x].P = p
        BY <3>1, <3>3, <4>1 DEF SnapshotsNow
      <4>3. (value * p) * m = share * p /\ share * p \in Nat
        <5>1. share * p \in Nat
          BY <1>5, <4>1, Products
        <5>2. (value * p) * m = (value * m) * p
          BY <1>2, <4>1
        <5>. QED BY <1>5, <5>1, <5>2
      <4>4. scale + 1 # scale
        BY <4>1
      <4>. QED BY <1>3, <1>6, <2>2, <3>1, <4>1, <4>2, <4>3, <4>4 DEF Covers
    <3>. QED BY <3>2, <3>3
  <2>. QED BY <2>1, <2>2
<1>8. m * worth <= n[d]
  BY <1>1, <1>2, ShareCoversWorth
<1>9. PICK before \in Nat, after \in Nat :
         before = SumOver(n, Depositors) /\ after = SumOver(k, Depositors) /\ after = before - n[d] + share
  <2>1. SumOver(n, Depositors) \in Nat /\ SumOver(k, Depositors) \in Nat
    BY DepositorsFinite, SumNat
  <2>2. Summand(n, Depositors) /\ k[d] \in Int
    BY <1>6 DEF Summand
  <2>3. \A x \in Depositors : x # d => k[x] = n[x]
    BY <1>6
  <2>4. SumOver(k, Depositors) = SumOver(n, Depositors) - n[d] + k[d]
    BY <2>2, <2>3, DepositorsFinite, SumChange
  <2>. QED BY <1>6, <2>1, <2>4
<1>10. PICK b \in Nat, w \in Nat, e \in Nat, t \in Nat :
         b = DECIMAL_PRECISION /\ w = worstLossError /\ e = lastError.LUSDLoss /\ t = totalLUSDDeposits /\ e <= w
  BY Scaling DEF ExcessInv, PoolInv, PoolType
<1>11. before * b <= (t * b + w - e) * m
  BY <1>1, <1>9, <1>10 DEF SharesCover
<1>12. after * b <= ((t + change) * b + w - e) * m
  <2>1. after <= before + change * m
    <3>1. share = m * worth + change * m /\ m * worth \in Int /\ change * m \in Int
      <4>1. (worth + change) * m = m * worth + change * m
        BY <1>2
      <4>. QED BY <1>2, <1>5, <4>1
    <3>2. n[d] \in Nat
      OBVIOUS
    <3>. QED BY <1>8, <1>9, <3>1, <3>2
  <2>2. b * after <= b * (before + change * m) /\ b * after \in Int /\ b * (before + change * m) \in Int
    <3>1. before + change * m \in Int
      BY <1>9
    <3>. QED BY <1>9, <1>10, <2>1, <3>1, ProductMonotonic
  <2>3. b * (before + change * m) = before * b + (change * b) * m
    BY <1>9, <1>10
  <2>4. ((t + change) * b + w - e) * m = (t * b + w - e) * m + (change * b) * m
    BY <1>10
  <2>5. b * after = after * b /\ before * b \in Int /\ (change * b) * m \in Int /\ (t * b + w - e) * m \in Int
    BY <1>9, <1>10
  <2>. QED BY <1>11, <2>2, <2>3, <2>4, <2>5
<1>13. SharesCover(m, k)'
  BY <1>3, <1>4, <1>7, <1>9, <1>10, <1>12 DEF SharesCover
<1>. QED BY <1>3, <1>4, <1>10, <1>13 DEF ExcessInv

\* The loss per unit and the error of its division: what is taken from the deposits
\* is the debt, less the error that is corrected, plus the one that is made.
LEMMA LossRounded ==
    ASSUME PoolInv, ExcessInv, NEW debt \in Int, NEW coll, totalLUSDDeposits > 0, debt > 0, debt <= totalLUSDDeposits,
           debt < totalLUSDDeposits => debt * DECIMAL_PRECISION >= lastError.LUSDLoss
    PROVE  \E l \in Nat, e2 \in Nat :
              /\ l = computeRewardsPerUnitStaked(coll, debt).LUSDLoss
              /\ e2 = computeRewardsPerUnitStaked(coll, debt).LUSDLossError
              /\ l <= DECIMAL_PRECISION
              /\ l # DECIMAL_PRECISION =>
                    l * totalLUSDDeposits = debt * DECIMAL_PRECISION - lastError.LUSDLoss + e2
<1>1. PICK t \in Nat, b \in Nat, e \in Nat, x \in Int :
         /\ t = totalLUSDDeposits /\ b = DECIMAL_PRECISION /\ e = lastError.LUSDLoss /\ t > 0 /\ b > 0
         /\ x = debt * b - e
  <2>1. /\ totalLUSDDeposits \in Nat /\ lastError.LUSDLoss \in Nat
        /\ DECIMAL_PRECISION \in Nat /\ DECIMAL_PRECISION > 0
    BY Scaling DEF PoolInv, PoolType, ExcessInv
  <2>2. debt * DECIMAL_PRECISION - lastError.LUSDLoss \in Int
    BY <2>1
  <2>. QED BY <2>1, <2>2
<1>2. /\ computeRewardsPerUnitStaked(coll, debt).LUSDLoss = IF debt = t THEN b ELSE (x \div t) + 1
      /\ computeRewardsPerUnitStaked(coll, debt).LUSDLossError = IF debt = t THEN 0 ELSE ((x \div t) + 1) * t - x
  BY <1>1 DEF computeRewardsPerUnitStaked
<1>3. CASE debt = t
  <2>1. b \in Nat /\ 0 \in Nat
    OBVIOUS
  <2>. QED BY <1>1, <1>2, <1>3, <2>1
<1>4. CASE debt # t
  <2>1. x \in Nat /\ x <= debt * b /\ debt * b \in Nat /\ debt < t /\ debt \in Nat
    <3>1. debt < t /\ debt \in Nat
      BY <1>1, <1>4
    <3>2. debt * b \in Nat /\ debt * b >= e
      BY <1>1, <3>1, Products
    <3>. QED BY <1>1, <3>1, <3>2
  <2>2. PICK q \in Nat, r \in Nat : q = x \div t /\ x = q * t + r /\ r < t /\ t * q <= x
    <3>1. x \div t \in Nat /\ t * (x \div t) <= x
      BY <1>1, <2>1, QuotientBelow
    <3>2. x = (x \div t) * t + (x % t)
      <4>1. x \in Int /\ t \in Int /\ t > 0
        BY <1>1
      <4>. QED BY <4>1, DivisionIdentity
    <3>3. x % t \in Nat /\ x % t < t
      BY <1>1, SMT
    <3>. QED BY <3>1, <3>2, <3>3
  <2>3. PICK e2 \in Nat : e2 = (q + 1) * t - x /\ (q + 1) * t = x + e2
    <3>1. (q + 1) * t = q * t + t /\ q * t \in Nat
      BY <1>1, <2>2, Products
    <3>2. (q + 1) * t - x = t - r /\ t - r \in Nat
      BY <1>1, <2>2, <3>1
    <3>3. (q + 1) * t = x + (t - r)
      BY <1>1, <2>1, <2>2, <3>1
    <3>. QED BY <3>2, <3>3
  <2>4. q + 1 <= b
    <3>. SUFFICES ASSUME q >= b PROVE FALSE
      BY <1>1, <2>2
    <3>1. t * b <= t * q /\ t * b \in Int /\ t * q \in Int
      BY <1>1, <2>2, ProductMonotonic
    <3>2. debt * b < t * b
      <4>1. PICK more \in Nat : t = debt + more /\ more > 0
        <5>1. t - debt \in Nat /\ t = debt + (t - debt) /\ t - debt > 0
          BY <1>1, <2>1
        <5>. QED BY <5>1
      <4>2. t * b = debt * b + more * b /\ more * b > 0 /\ more * b \in Nat
        <5>1. (debt + more) * b = debt * b + more * b
          BY <1>1, <2>1, <4>1
        <5>2. more * b > 0 /\ more * b \in Nat
          BY <1>1, <4>1, SMT
        <5>. QED BY <4>1, <5>1, <5>2
      <4>. QED BY <2>1, <4>2
    <3>. QED BY <2>1, <2>2, <3>1, <3>2
  <2>5. /\ computeRewardsPerUnitStaked(coll, debt).LUSDLoss = q + 1
        /\ computeRewardsPerUnitStaked(coll, debt).LUSDLossError = e2
    BY <1>2, <1>4, <2>2, <2>3
  <2>6. (q + 1) * t = debt * b - e + e2 /\ q + 1 \in Nat
    <3>1. PICK db \in Nat : db = debt * b /\ x = db - e
      BY <1>1, <2>1
    <3>2. (q + 1) * t = db - e + e2
      BY <2>3, <3>1
    <3>. QED BY <3>1, <3>2
  <2>. QED BY <1>1, <2>3, <2>4, <2>5, <2>6
<1>. QED BY <1>3, <1>4

\* The product after a loss that leaves some of it, before the rounding.
LEMMA ProductRounded ==
    ASSUME PoolInv, NEW l \in Nat, NEW f \in Nat, l <= DECIMAL_PRECISION, f = DECIMAL_PRECISION - l,
           newProduct(l).P > 0
    PROVE  \/ f = 0 /\ newProduct(l).epoch = currentEpoch + 1
           \/ /\ f # 0 /\ newProduct(l).epoch = currentEpoch /\ newProduct(l).scale = currentScale
              /\ newProduct(l).P \in Nat /\ DECIMAL_PRECISION * newProduct(l).P <= P * f
           \/ /\ f # 0 /\ newProduct(l).epoch = currentEpoch /\ newProduct(l).scale = currentScale + 1
              /\ newProduct(l).P \in Nat /\ DECIMAL_PRECISION * newProduct(l).P <= (P * f) * SCALE_FACTOR
<1>1. PICK p \in Nat, b \in Nat, sf \in Nat : p = P /\ b = DECIMAL_PRECISION /\ sf = SCALE_FACTOR /\ b > 0
  BY Scaling DEF PoolInv, PoolType
<1>2. PICK x \in Nat, y \in Nat : x = p * f /\ y = x * sf
  <2>1. p * f \in Nat
    BY Products
  <2>. QED BY <1>1, <2>1, Products
<1>3. PICK u \in Nat, v \in Nat : u = x \div b /\ v = y \div b /\ b * u <= x /\ b * v <= y
  BY <1>1, <1>2, QuotientBelow
<1>4. newProduct(l) = CASE f = 0 -> [P |-> DECIMAL_PRECISION, epoch |-> currentEpoch + 1, scale |-> 0]
                        [] f # 0 /\ u < sf -> [P |-> v, epoch |-> currentEpoch, scale |-> currentScale + 1]
                        [] OTHER -> [P |-> u, epoch |-> currentEpoch, scale |-> currentScale]
  BY <1>1, <1>2, <1>3 DEF newProduct
<1>5. CASE f = 0
  BY <1>4, <1>5
<1>6. CASE f # 0 /\ u < sf
  <2>1. newProduct(l) = [P |-> v, epoch |-> currentEpoch, scale |-> currentScale + 1]
    BY <1>4, <1>6
  <2>. QED BY <1>1, <1>2, <1>3, <1>6, <2>1
<1>7. CASE f # 0 /\ ~(u < sf)
  <2>1. newProduct(l) = [P |-> u, epoch |-> currentEpoch, scale |-> currentScale]
    BY <1>4, <1>7
  <2>. QED BY <1>1, <1>2, <1>3, <1>7, <2>1
<1>. QED BY <1>5, <1>6, <1>7

\* A loss lowers every share as it lowers the product.
LEMMA ExcessOffset ==
    ASSUME PoolInv, ExcessInv, NEW debt \in Int, NEW coll \in Nat, offset(debt, coll)
    PROVE  ExcessInv'
<1>1. /\ totalLUSDDeposits > 0 /\ debt > 0 /\ debt <= totalLUSDDeposits
      /\ debt < totalLUSDDeposits => debt * DECIMAL_PRECISION >= lastError.LUSDLoss
  BY DEF offset
<1>2. PICK l \in Nat, e2 \in Nat :
         /\ l = computeRewardsPerUnitStaked(coll, debt).LUSDLoss
         /\ e2 = computeRewardsPerUnitStaked(coll, debt).LUSDLossError
         /\ l <= DECIMAL_PRECISION
         /\ l # DECIMAL_PRECISION => l * totalLUSDDeposits = debt * DECIMAL_PRECISION - lastError.LUSDLoss + e2
  BY <1>1, LossRounded
<1>3. /\ newProduct(l).P > 0
      /\ lastError'.LUSDLoss = e2 /\ worstLossError' = Max({worstLossError, e2})
      /\ P' = newProduct(l).P /\ currentEpoch' = newProduct(l).epoch /\ currentScale' = newProduct(l).scale
      /\ totalLUSDDeposits' = totalLUSDDeposits - debt
      /\ deposits' = deposits /\ depositSnapshots' = depositSnapshots
  BY <1>2 DEF offset, accounts
<1>4. PICK m \in Nat \ {0}, n \in [Depositors -> Nat] : SharesCover(m, n)
  BY DEF ExcessInv
<1>5. PICK b \in Nat, w \in Nat, e \in Nat, t \in Nat, d \in Nat, rest \in Nat, f \in Nat :
         /\ b = DECIMAL_PRECISION /\ b > 0 /\ w = worstLossError /\ e = lastError.LUSDLoss /\ e <= w
         /\ t = totalLUSDDeposits /\ d = debt /\ rest = t - d /\ f = b - l
  <2>1. /\ totalLUSDDeposits \in Nat /\ DECIMAL_PRECISION \in Nat /\ DECIMAL_PRECISION > 0
        /\ worstLossError \in Nat /\ lastError.LUSDLoss \in Nat /\ lastError.LUSDLoss <= worstLossError
    BY Scaling DEF ExcessInv, PoolInv, PoolType
  <2>2. debt \in Nat /\ totalLUSDDeposits - debt \in Nat /\ DECIMAL_PRECISION - l \in Nat
    BY <1>1, <1>2, <2>1
  <2>. QED BY <2>1, <2>2
<1>6. PICK w2 \in Nat : w2 = worstLossError' /\ w <= w2 /\ e2 <= w2
  <2>1. Max({w, e2}) \in {w, e2} /\ \A y \in {w, e2} : Max({w, e2}) >= y
    <3>1. \E x \in {w, e2} : \A y \in {w, e2} : x >= y
      OBVIOUS
    <3>. QED BY <3>1 DEF Max
  <2>. QED BY <1>3, <1>5, <2>1
<1>7. CASE f = 0
  <2>1. PICK k \in [Depositors -> Nat] : SumOver(k, Depositors) * b <= (rest * b + w2 - e2) * 1
    BY <1>5, <1>6, NoShares
  <2>2. ASSUME NEW x \in Depositors
        PROVE  Covers(k[x], 1, deposits[x].initialValue, depositSnapshots[x], P', currentScale', currentEpoch')
    <3>1. currentEpoch' = currentEpoch + 1 /\ currentEpoch \in Nat /\ depositSnapshots[x].epoch \in Nat
      BY <1>2, <1>3, <1>5, <1>7, ProductRounded, StabilityPoolAssumption DEF PoolInv, PoolType, Snapshots
    <3>2. deposits[x].initialValue # 0 => depositSnapshots[x].epoch <= currentEpoch
      BY DepositorType DEF PoolInv, SnapshotBehind
    <3>. QED BY <3>1, <3>2 DEF Covers
  <2>3. SharesCover(1, k)'
    BY <1>3, <1>5, <1>6, <2>1, <2>2 DEF SharesCover
  <2>4. 1 \in Nat \ {0}
    OBVIOUS
  <2>. QED BY <1>3, <1>6, <2>3, <2>4 DEF ExcessInv
<1>8. CASE f # 0
  <2>1. PICK k \in [Depositors -> Nat] : \A x \in Depositors : k[x] = f * n[x]
    <3>1. \A x \in Depositors : f * n[x] \in Nat
      BY <1>5, Products
    <3>2. [x \in Depositors |-> f * n[x]] \in [Depositors -> Nat]
      BY <3>1
    <3>. QED BY <3>2
  <2>2. PICK mb \in Nat \ {0} : mb = m * b
    <3>1. m * b \in Nat /\ m * b > 0
      BY <1>5, SMT
    <3>. QED BY <3>1
  <2>3. ASSUME NEW x \in Depositors
        PROVE  Covers(k[x], mb, deposits[x].initialValue, depositSnapshots[x], P', currentScale', currentEpoch')
    <3>1. PICK i \in Nat, snap \in Snapshots :
             /\ i = deposits[x].initialValue /\ snap = depositSnapshots[x]
             /\ i > 0 => SnapshotBehind(x)
      BY DepositorType DEF PoolInv
    <3>2. PICK p \in Nat, scale \in Nat, epoch \in Nat : p = P /\ scale = currentScale /\ epoch = currentEpoch
      BY StabilityPoolAssumption DEF PoolInv, PoolType
    <3>3. CASE i = 0
      BY <3>1, <3>3 DEF Covers
    <3>4. CASE i > 0
      <4>1. snap.epoch = epoch => snap.scale <= scale
        BY <3>1, <3>2, <3>4 DEF SnapshotBehind
      <4>2. Covers(n[x], m, i, snap, p, scale, epoch) /\ n[x] \in Nat
        BY <1>4, <3>1, <3>2 DEF SharesCover
      <4>3. \E q \in Nat :
               /\ q = P' /\ currentEpoch' = epoch
               /\ \/ currentScale' = scale /\ b * q <= p * f
                  \/ currentScale' = scale + 1 /\ b * q <= (p * f) * SCALE_FACTOR
        BY <1>2, <1>3, <1>5, <1>8, <3>2, ProductRounded
      <4>4. PICK q \in Nat :
               /\ q = P' /\ currentEpoch' = epoch
               /\ \/ currentScale' = scale /\ b * q <= p * f
                  \/ currentScale' = scale + 1 /\ b * q <= (p * f) * SCALE_FACTOR
        BY <4>3
      <4>5. /\ b * q <= p * f => Covers(f * n[x], m * b, i, snap, q, scale, epoch)
            /\ b * q <= (p * f) * SCALE_FACTOR => Covers(f * n[x], m * b, i, snap, q, scale + 1, epoch)
        BY <4>1, <4>2, CoversAfterLoss
      <4>. QED BY <2>1, <2>2, <3>1, <4>4, <4>5
    <3>. QED BY <3>3, <3>4
  <2>4. PICK before \in Nat : before = SumOver(n, Depositors) /\ SumOver(k, Depositors) = f * before
    <3>1. SumOver(n, Depositors) \in Nat /\ SumOver(k, Depositors) \in Nat
      BY DepositorsFinite, SumNat
    <3>2. PICK none \in [Depositors -> Nat] : \A x \in Depositors : none[x] = 0
      <4>1. [x \in Depositors |-> 0] \in [Depositors -> Nat]
        OBVIOUS
      <4>. QED BY <4>1
    <3>3. SumOver(none, Depositors) = 0
      BY <3>2, DepositorsFinite, SumZeros
    <3>4. Summand(none, Depositors) /\ Summand(n, Depositors)
      BY DEF Summand
    <3>5. \A x \in Depositors : k[x] = none[x] + f * n[x]
      <4>. TAKE x \in Depositors
      <4>1. none[x] = 0 /\ k[x] = f * n[x] /\ k[x] \in Nat
        BY <2>1, <3>2
      <4>. QED BY <4>1
    <3>6. SumOver(k, Depositors) = SumOver(none, Depositors) + f * SumOver(n, Depositors)
      BY <3>4, <3>5, DepositorsFinite, SumLinear
    <3>7. f * SumOver(n, Depositors) \in Nat
      BY <3>1, Products
    <3>. QED BY <3>1, <3>3, <3>6, <3>7
  <2>5. l * t = d * b - e + e2 /\ b = f + l
    BY <1>2, <1>5, <1>8
  <2>6. before * b <= (t * b + w - e) * m
    BY <1>4, <1>5, <2>4 DEF SharesCover
  <2>7. (f * before) * b <= ((t - d) * b + w2 - e2) * (m * b)
    <3>1. e <= w /\ w <= w2 /\ m \in Nat
      BY <1>5, <1>6
    <3>. QED BY <2>5, <2>6, <3>1, SharesAfterLoss
  <2>8. SharesCover(mb, k)'
    BY <1>3, <1>5, <1>6, <2>2, <2>3, <2>4, <2>7 DEF SharesCover
  <2>. QED BY <1>3, <1>6, <2>8 DEF ExcessInv
<1>. QED BY <1>7, <1>8

\* Every step keeps the deposits covered.
LEMMA ExcessStep == ASSUME PoolInv, ExcessInv, Next PROVE ExcessInv'
<1>1. CASE DepositorAction
  <2>1. PICK d \in Depositors :
           \/ \E amount \in Deposits, tag \in Tags : provideToSP(d, amount, tag)
           \/ \E amount \in Withdrawals : withdrawFromSP(d, amount)
           \/ withdrawETHGainToTrove(d)
    BY <1>1 DEF DepositorAction
  <2>2. deposits[d].frontEndTag \in Tags /\ getCompoundedLUSDDeposit(d) \in Nat
    BY DepositorType
  <2>3. \E tag \in Tags, change \in Int : ChangeDeposit(d, tag, change) /\ getCompoundedLUSDDeposit(d) + change \in Nat
    <3>1. ASSUME NEW amount \in Deposits, NEW tag \in Tags, provideToSP(d, amount, tag)
          PROVE  \E kept \in Tags, change \in Int : ChangeDeposit(d, kept, change) /\ getCompoundedLUSDDeposit(d) + change \in Nat
      <4>1. PICK kept \in Tags : kept = (IF deposits[d].initialValue = 0 THEN tag ELSE deposits[d].frontEndTag)
        BY <2>2
      <4>2. ChangeDeposit(d, kept, amount)
        BY <3>1, <4>1 DEF provideToSP
      <4>3. amount \in Int /\ getCompoundedLUSDDeposit(d) + amount \in Nat
        BY <2>2, StabilityPoolAssumption
      <4>. QED BY <4>2, <4>3
    <3>2. ASSUME NEW amount \in Withdrawals, withdrawFromSP(d, amount)
          PROVE  \E kept \in Tags, change \in Int : ChangeDeposit(d, kept, change) /\ getCompoundedLUSDDeposit(d) + change \in Nat
      <4>1. PICK change \in Int : change = -min(amount, getCompoundedLUSDDeposit(d)) /\ getCompoundedLUSDDeposit(d) + change \in Nat
        BY <2>2, StabilityPoolAssumption DEF min
      <4>2. ChangeDeposit(d, deposits[d].frontEndTag, change)
        BY <3>2, <4>1 DEF withdrawFromSP
      <4>. QED BY <2>2, <4>1, <4>2
    <3>3. ASSUME withdrawETHGainToTrove(d)
          PROVE  \E kept \in Tags, change \in Int : ChangeDeposit(d, kept, change) /\ getCompoundedLUSDDeposit(d) + change \in Nat
      <4>1. ChangeDeposit(d, deposits[d].frontEndTag, 0) /\ getCompoundedLUSDDeposit(d) + 0 \in Nat /\ 0 \in Int
        BY <2>2, <3>3 DEF withdrawETHGainToTrove
      <4>. QED BY <2>2, <4>1
    <3>. QED BY <2>1, <3>1, <3>2, <3>3
  <2>. QED BY <2>3, ExcessChange
<1>2. CASE Liquidation
  <2>1. PICK coll \in Collaterals, debt \in Debts \cup {totalLUSDDeposits - left : left \in Remainders} : offset(debt, coll)
    BY <1>2 DEF Liquidation
  <2>2. coll \in Nat /\ debt \in Int
    BY StabilityPoolAssumption DEF PoolInv, PoolType
  <2>. QED BY <2>1, <2>2, ExcessOffset
<1>3. ASSUME UNCHANGED <<accounts, sums, totalLUSDDeposits, worstLossError>> PROVE ExcessInv'
  <2>1. UNCHANGED <<deposits, depositSnapshots, P, currentScale, currentEpoch, lastError, totalLUSDDeposits, worstLossError>>
    BY <1>3 DEF accounts, sums
  <2>. QED BY <2>1 DEF ExcessInv, SharesCover
<1>4. CASE Time
  BY <1>3, <1>4 DEF Time
<1>5. CASE Registration
  BY <1>3, <1>5 DEF Registration, registerFrontEnd
<1>. QED BY <1>1, <1>2, <1>4, <1>5 DEF Next

\* What all deposits have become exceeds the LUSD of the pool by no more than the
\* largest error a division has left to correct, 1 / DECIMAL_PRECISION of it, for any
\* number of depositors, any sequence of deposits, withdrawals and liquidations, over
\* any scales and epochs (getCompoundedLUSDDeposit, _computeRewardsPerUnitStaked,
\* _updateRewardSumAndProduct).
THEOREM ExcessStaysBounded == Spec => []ExcessBounded
<1>1. PoolInv /\ ExcessInv /\ [Next]_vars => PoolInv' /\ ExcessInv'
  <2>1. ASSUME PoolInv, ExcessInv, UNCHANGED vars PROVE PoolInv' /\ ExcessInv'
    <3>1. UNCHANGED <<deposits, depositSnapshots, frontEnds, P, currentScale, currentEpoch, epochToScaleToSum,
                      epochToScaleToG, lastError, totalLUSDDeposits, minutes, totalLQTYIssued, worstLossError>>
      BY <2>1 DEF vars, accounts, sums, issuanceVars
    <3>2. PoolInv'
      BY <2>1, <3>1 DEF PoolInv, PoolType, SnapshotBehind, TagRegistered, latestTotalLQTYIssued,
                        getCumulativeIssuanceFraction
    <3>3. ExcessInv'
      BY <2>1, <3>1 DEF ExcessInv, SharesCover
    <3>. QED BY <3>2, <3>3
  <2>. QED BY <2>1, PoolStep, ExcessStep
<1>2. Init => PoolInv /\ ExcessInv
  BY PoolInitially, ExcessInitially
<1>3. PoolInv /\ ExcessInv => ExcessBounded
  BY ExcessFromShares
<1>. QED BY <1>1, <1>2, <1>3, PTL DEF Spec


--------------------------------------------------------------------------------
(***************************************************************************)
(* The tokens.  Every transaction replaces one token's books; what the new *)
(* books may differ in is said by Authorised, for each function on its     *)
(* own.  The invariant is the type: a balance or allowance is a natural    *)
(* number, and a permit is one that its owner signed.                      *)
(***************************************************************************)
Token ==
    [balances : [Addresses -> Nat], totalSupply : Int, allowances : [Holders -> [Holders -> Nat]],
     nonces : [Holders -> Nat]]
Permits ==
    [of : Names, owner : Holders, spender : Holders, amount : Nat, nonce : Nat, deadline : Nat,
     domain : [name : Names, chainID : {1, 2}]]

TokensType ==
    /\ token \in [Names -> Token]
    /\ clock \in [time : Nat, chainID : {1, 2}]
    /\ signed \subseteq Permits
    /\ lockup \in [lqtyToken : Addresses, deployer : Addresses, beneficiary : Addresses, unlockTime : Nat]

\* The LQTY of the multisig is locked for a year, and that of the lockup until its
\* time.
lockedAddresses ==
    (IF isFirstYear THEN {multisig} ELSE {}) \cup (IF clock.time < lockup.unlockTime THEN {"LockupContract"} ELSE {})

\* What a transaction of `caller` may make of the books of a token.
Authorised(name, caller, t) ==
    /\ t \in Token
    /\ \A a \in Addresses :
          t.balances[a] < token[name].balances[a] =>
             \/ caller \in {a} \cup trusted(name)
             \/ a \in Holders /\ caller \in Holders
                /\ token[name].allowances[a][caller] - t.allowances[a][caller]
                      = token[name].balances[a] - t.balances[a]
    /\ \A a, s \in Holders :
          t.allowances[a][s] > token[name].allowances[a][s] =>
             \/ caller = a
             \/ \E p \in signed :
                   /\ p.of = name /\ p.owner = a /\ p.spender = s /\ p.amount = t.allowances[a][s]
                   /\ p.domain.chainID = clock.chainID /\ p.deadline >= clock.time
                   /\ p.nonce < t.nonces[a] /\ p.nonce >= token[name].nonces[a]
    /\ name = "LQTY" => keepsLocked(token["LQTY"].balances, t.balances)

\* What OnlyAuthorised says of a step.
AuthorisedStep ==
    /\ \A name \in Names : spendsOwn(name) /\ grantsOwn(name)
    /\ keepsLocked(token["LQTY"].balances, token'["LQTY"].balances)

\* The addresses are distinct, and the locked ones are addresses.
LEMMA LockedAddresses ==
    /\ lockedAddresses \subseteq Addresses
    /\ "LUSD" \in Names /\ "LQTY" \in Names
    /\ \A h \in Holders : h \in Addresses /\ h \notin Contracts /\ h # zeroAddress
    /\ \A c \in Contracts : c \in Addresses
BY TokensAssumption DEF lockedAddresses, Addresses, Contracts, Names

\* LQTY stays locked where no locked balance falls.
LEMMA LockedKept ==
    ASSUME NEW before, NEW after, \A a \in Addresses : before[a] \in Nat /\ after[a] \in Nat,
           \A a \in lockedAddresses : after[a] >= before[a]
    PROVE  keepsLocked(before, after)
<1>1. multisig \in Addresses /\ "LockupContract" \in Addresses
  BY TokensAssumption, LockedAddresses DEF Contracts
<1>2. isFirstYear => ~(after[multisig] < before[multisig])
  BY <1>1 DEF lockedAddresses
<1>3. clock.time < lockup.unlockTime => after["LockupContract"] >= before["LockupContract"]
  BY DEF lockedAddresses
<1>. QED BY <1>2, <1>3 DEF keepsLocked

\* A transfer takes the amount from the sender's balance, and from no other.
LEMMA Transferred ==
    ASSUME NEW t \in Token, NEW from \in Addresses, NEW to \in Addresses, NEW amount \in Nat,
           transferable(t, from, to, amount)
    PROVE  LET u == _transfer(t, from, to, amount)
           IN  /\ u \in Token /\ u.allowances = t.allowances /\ u.nonces = t.nonces
               /\ \A a \in Addresses : u.balances[a] < t.balances[a] =>
                     a = from /\ t.balances[a] - u.balances[a] = amount
               /\ from # to => u.balances[to] = t.balances[to] + amount
<1> DEFINE b == [[t.balances EXCEPT ![from] = @ - amount] EXCEPT ![to] = @ + amount]
           u == [t EXCEPT !.balances = b]
<1>1. t.balances \in [Addresses -> Nat] /\ t.balances[from] - amount \in Nat
  BY DEF Token, transferable
<1>2. b \in [Addresses -> Nat]
  BY <1>1
<1>3. /\ \A a \in Addresses : b[a] < t.balances[a] => a = from /\ t.balances[a] - b[a] = amount
      /\ from # to => b[to] = t.balances[to] + amount
  BY <1>1
<1>4. u \in Token /\ u.allowances = t.allowances /\ u.nonces = t.nonces /\ u.balances = b
  <2>. HIDE DEF b
  <2>. QED BY <1>2 DEF Token
<1>5. _transfer(t, from, to, amount) = u
  BY DEF _transfer
<1>. HIDE DEF u, b
<1>. QED BY <1>3, <1>4, <1>5

\* An approval sets one allowance and leaves the balances alone.
LEMMA Approved ==
    ASSUME NEW t \in Token, NEW owner \in Holders, NEW spender \in Holders, NEW amount \in Nat
    PROVE  LET u == _approve(t, owner, spender, amount)
           IN  /\ u \in Token /\ u.balances = t.balances /\ u.nonces = t.nonces
               /\ u.allowances = [t.allowances EXCEPT ![owner][spender] = amount]
<1> DEFINE al == [t.allowances EXCEPT ![owner][spender] = amount]
           u == [t EXCEPT !.allowances = al]
<1>1. t.allowances \in [Holders -> [Holders -> Nat]]
  BY DEF Token
<1>2. al \in [Holders -> [Holders -> Nat]]
  BY <1>1
<1>3. u \in Token /\ u.balances = t.balances /\ u.nonces = t.nonces /\ u.allowances = al
  <2>. HIDE DEF al
  <2>. QED BY <1>2 DEF Token
<1>4. _approve(t, owner, spender, amount) = u
  BY DEF _approve, Token
<1>. HIDE DEF u
<1>. QED BY <1>3, <1>4

\* Minting takes from nobody.
LEMMA Minted ==
    ASSUME NEW t \in Token, NEW account \in Addresses, NEW amount \in Nat
    PROVE  LET u == _mint(t, account, amount)
           IN  /\ u \in Token /\ u.allowances = t.allowances /\ u.nonces = t.nonces
               /\ \A a \in Addresses : u.balances[a] >= t.balances[a]
<1> DEFINE b == [t.balances EXCEPT ![account] = @ + amount]
           u == [[t EXCEPT !.totalSupply = @ + amount] EXCEPT !.balances = b]
<1>1. t.balances \in [Addresses -> Nat] /\ t.totalSupply \in Int
  BY DEF Token
<1>2. b \in [Addresses -> Nat] /\ (\A a \in Addresses : b[a] >= t.balances[a]) /\ t.totalSupply + amount \in Int
  BY <1>1
<1>3. u \in Token /\ u.allowances = t.allowances /\ u.nonces = t.nonces /\ u.balances = b
  <2>. HIDE DEF b
  <2>. QED BY <1>2 DEF Token
<1>4. _mint(t, account, amount) = u
  BY DEF _mint, Token
<1>. HIDE DEF u, b
<1>. QED BY <1>2, <1>3, <1>4

\* Burning needs the balance it takes.
LEMMA Burnt ==
    ASSUME NEW t \in Token, NEW account \in Addresses, NEW amount \in Nat, t.balances[account] >= amount
    PROVE  LET u == _burn(t, account, amount)
           IN  u \in Token /\ u.allowances = t.allowances /\ u.nonces = t.nonces
<1> DEFINE b == [t.balances EXCEPT ![account] = @ - amount]
           u == [[t EXCEPT !.balances = b] EXCEPT !.totalSupply = @ - amount]
<1>1. t.balances \in [Addresses -> Nat] /\ t.totalSupply \in Int
  BY DEF Token
<1>2. b \in [Addresses -> Nat] /\ t.totalSupply - amount \in Int
  BY <1>1
<1>3. u \in Token /\ u.allowances = t.allowances /\ u.nonces = t.nonces
  <2>. HIDE DEF b
  <2>. QED BY <1>2 DEF Token
<1>4. _burn(t, account, amount) = u
  BY DEF _burn, Token
<1>. HIDE DEF u, b
<1>. QED BY <1>3, <1>4

\* A transaction that makes of the books what its caller may is a step that
\* OnlyAuthorised allows.
LEMMA TransactionAuthorised ==
    ASSUME TokensType, NEW name \in Names, NEW caller, NEW t, Authorised(name, caller, t),
           transaction(name, caller, t)
    PROVE  TokensType' /\ AuthorisedStep
<1>1. t \in Token /\ token' = [token EXCEPT ![name] = t] /\ sender' = caller
      /\ clock' = clock /\ signed' = signed /\ lockup' = lockup
  BY DEF transaction, Authorised
<1>2. token' \in [Names -> Token] /\ token'[name] = t /\ \A n \in Names : n # name => token'[n] = token[n]
  BY <1>1 DEF TokensType
<1>3. TokensType'
  BY <1>1, <1>2 DEF TokensType
<1>4. ASSUME NEW n \in Names PROVE spendsOwn(n) /\ grantsOwn(n)
  <2>1. CASE n = name
    <3>1. \A a \in Addresses : token[n].balances[a] \in Nat /\ t.balances[a] \in Nat
      BY <1>1 DEF TokensType, Token
    <3>2. spendsOwn(n)
      BY <1>1, <1>2, <2>1, <3>1 DEF Authorised, spendsOwn
    <3>3. grantsOwn(n)
      BY <1>1, <1>2, <2>1 DEF Authorised, grantsOwn
    <3>. QED BY <3>2, <3>3
  <2>2. CASE n # name
    <3>1. token'[n] = token[n]
      BY <1>2, <2>2
    <3>2. /\ \A a \in Addresses : token[n].balances[a] \in Nat
          /\ \A a, s \in Holders : token[n].allowances[a][s] \in Nat
      BY DEF TokensType, Token
    <3>3. spendsOwn(n)
      BY <3>1, <3>2 DEF spendsOwn
    <3>4. grantsOwn(n)
      BY <3>1, <3>2 DEF grantsOwn
    <3>. QED BY <3>3, <3>4
  <2>. QED BY <2>1, <2>2
<1>5. keepsLocked(token["LQTY"].balances, token'["LQTY"].balances)
  <2>1. CASE name = "LQTY"
    BY <1>2, <2>1 DEF Authorised
  <2>2. CASE name # "LQTY"
    <3>1. "LQTY" \in Names /\ lockedAddresses \subseteq Addresses
      BY LockedAddresses
    <3>2. token'["LQTY"] = token["LQTY"] /\ \A a \in Addresses : token["LQTY"].balances[a] \in Nat
      BY <1>2, <2>2, <3>1 DEF TokensType, Token
    <3>. QED BY <3>1, <3>2, LockedKept
  <2>. QED BY <2>1, <2>2
<1>. QED BY <1>3, <1>4, <1>5 DEF AuthorisedStep


\* A transfer is authorised if the sender of the tokens makes it, or one who is
\* trusted with them, and if what is locked is not sent, or by the multisig to a
\* registered lockup.
LEMMA TransferAuthorised ==
    ASSUME TokensType, NEW name \in Names, NEW caller, NEW from \in Addresses, NEW to \in Addresses,
           NEW amount \in Nat, transferable(token[name], from, to, amount),
           caller \in {from} \cup trusted(name),
           name = "LQTY" => \/ from \notin lockedAddresses
                            \/ from = multisig /\ to = "LockupContract" /\ isRegisteredLockup(to)
    PROVE  Authorised(name, caller, _transfer(token[name], from, to, amount))
<1> DEFINE t == token[name]
           u == _transfer(t, from, to, amount)
<1>1. t \in Token
  BY DEF TokensType
<1>2. /\ u \in Token /\ u.allowances = t.allowances /\ u.nonces = t.nonces
      /\ \A a \in Addresses : u.balances[a] < t.balances[a] => a = from /\ t.balances[a] - u.balances[a] = amount
      /\ from # to => u.balances[to] = t.balances[to] + amount
  BY <1>1, Transferred
<1>3. /\ \A a \in Addresses : u.balances[a] \in Nat /\ t.balances[a] \in Nat
      /\ \A a, s \in Holders : t.allowances[a][s] \in Nat
  BY <1>1, <1>2 DEF Token
<1>. HIDE DEF u
<1>4. name = "LQTY" => keepsLocked(t.balances, u.balances)
  <2>. HAVE name = "LQTY"
  <2>1. CASE from \notin lockedAddresses
    <3>1. \A a \in lockedAddresses : u.balances[a] >= t.balances[a]
      BY <1>2, <1>3, <2>1, LockedAddresses
    <3>. QED BY <1>3, <3>1, LockedKept
  <2>2. CASE from = multisig /\ to = "LockupContract" /\ isRegisteredLockup(to)
    <3>1. from # to
      BY <2>2, TokensAssumption, LockedAddresses DEF Contracts
    <3>2. /\ u.balances["LockupContract"] = t.balances["LockupContract"] + amount
          /\ u.balances[multisig] < t.balances[multisig] => t.balances[multisig] - u.balances[multisig] = amount
      BY <1>2, <2>2, <3>1
    <3>3. t.balances["LockupContract"] \in Nat
      BY <1>3, <2>2
    <3>. QED BY <2>2, <3>2, <3>3 DEF keepsLocked
  <2>. QED BY <2>1, <2>2
<1>5. \A a, s \in Holders : ~(u.allowances[a][s] > t.allowances[a][s])
  BY <1>2, <1>3
<1>. QED BY <1>2, <1>4, <1>5 DEF Authorised, u

\* So is an approval by the owner.
LEMMA ApprovalAuthorised ==
    ASSUME TokensType, NEW name \in Names, NEW caller \in Holders, NEW spender \in Holders, NEW amount \in Nat
    PROVE  Authorised(name, caller, _approve(token[name], caller, spender, amount))
<1> DEFINE t == token[name]
           u == _approve(t, caller, spender, amount)
<1>1. t \in Token
  BY DEF TokensType
<1>2. /\ u \in Token /\ u.balances = t.balances
      /\ u.allowances[caller][spender] = amount
      /\ \A a, s \in Holders : a # caller \/ s # spender => u.allowances[a][s] = t.allowances[a][s]
  <2>1. /\ u \in Token /\ u.balances = t.balances
      /\ u.allowances = [t.allowances EXCEPT ![caller][spender] = amount]
    BY <1>1, Approved
  <2>2. t.allowances \in [Holders -> [Holders -> Nat]]
    BY <1>1 DEF Token
  <2>. HIDE DEF u
  <2>. QED BY <2>1, <2>2
<1>3. /\ \A a \in Addresses : t.balances[a] \in Nat
      /\ \A a, s \in Holders : t.allowances[a][s] \in Nat
  BY <1>1 DEF Token
<1>. HIDE DEF u
<1>4. \A a \in Addresses : ~(u.balances[a] < t.balances[a]) /\ u.balances[a] >= t.balances[a]
  BY <1>2, <1>3
<1>5. \A a, s \in Holders : u.allowances[a][s] > t.allowances[a][s] => caller = a
  BY <1>2, <1>3
<1>6. \A a \in lockedAddresses : a \in Addresses
  BY LockedAddresses
<1>7. keepsLocked(t.balances, u.balances)
  BY <1>2, <1>3, <1>4, <1>6, LockedKept
<1>. QED BY <1>2, <1>4, <1>5, <1>7 DEF Authorised, u

\* A spender takes no more than the allowance, which falls by as much.
LEMMA TransferFromAuthorised ==
    ASSUME TokensType, NEW name \in Names, NEW caller \in Holders, NEW from \in Holders, NEW to \in Addresses,
           NEW amount \in Nat, transferFrom(name, caller, from, to, amount)
    PROVE  TokensType' /\ AuthorisedStep
<1> DEFINE t == token[name]
           v == _transfer(t, from, to, amount)
           rest == t.allowances[from][caller] - amount
           u == _approve(v, from, caller, rest)
<1>1. t \in Token /\ from \in Addresses /\ transferable(t, from, to, amount) /\ requireNotMultisig(name, from)
      /\ t.allowances[from][caller] >= amount /\ transaction(name, caller, u)
  BY LockedAddresses DEF TokensType, transferFrom
<1>2. /\ v \in Token /\ v.allowances = t.allowances /\ v.nonces = t.nonces
      /\ \A a \in Addresses : v.balances[a] < t.balances[a] => a = from /\ t.balances[a] - v.balances[a] = amount
  BY <1>1, Transferred
<1>3. /\ \A a \in Addresses : t.balances[a] \in Nat /\ v.balances[a] \in Nat
      /\ \A a, s \in Holders : t.allowances[a][s] \in Nat
  BY <1>1, <1>2 DEF Token
<1>4. rest \in Nat
  BY <1>1, <1>3
<1>. HIDE DEF rest, v
<1>5. /\ u \in Token /\ u.balances = v.balances
      /\ u.allowances[from][caller] = rest
      /\ \A a, s \in Holders : a # from \/ s # caller => u.allowances[a][s] = v.allowances[a][s]
  <2>1. /\ u \in Token /\ u.balances = v.balances
      /\ u.allowances = [v.allowances EXCEPT ![from][caller] = rest]
    BY <1>2, <1>4, Approved
  <2>2. v.allowances \in [Holders -> [Holders -> Nat]]
    BY <1>2 DEF Token
  <2>. HIDE DEF u
  <2>. QED BY <2>1, <2>2
<1>. HIDE DEF u
<1>6. \A a \in Addresses : u.balances[a] < t.balances[a] =>
         a \in Holders /\ t.allowances[a][caller] - u.allowances[a][caller] = t.balances[a] - u.balances[a]
  <2>. TAKE a \in Addresses
  <2>. HAVE u.balances[a] < t.balances[a]
  <2>1. a = from /\ t.balances[a] - u.balances[a] = amount
    BY <1>2, <1>5
  <2>2. u.allowances[from][caller] = rest
    BY <1>5
  <2>3. t.allowances[from][caller] - rest = amount
    BY <1>3, <1>4 DEF rest
  <2>. QED BY <2>1, <2>2, <2>3
<1>7. \A a, s \in Holders : ~(u.allowances[a][s] > t.allowances[a][s])
  BY <1>1, <1>2, <1>3, <1>4, <1>5 DEF rest
<1>8. name = "LQTY" => keepsLocked(t.balances, u.balances)
  <2>. HAVE name = "LQTY"
  <2>1. ASSUME NEW a \in lockedAddresses PROVE u.balances[a] >= t.balances[a]
    <3>1. a # from /\ a \in Addresses
      BY <1>1, LockedAddresses DEF requireNotMultisig, lockedAddresses, Contracts
    <3>. QED BY <1>2, <1>3, <1>5, <3>1
  <2>. QED BY <1>3, <1>5, <2>1, LockedKept
<1>9. Authorised(name, caller, u)
  BY <1>5, <1>6, <1>7, <1>8 DEF Authorised
<1>. QED BY <1>1, <1>9, TransactionAuthorised

\* A permit raises the allowance to what its owner signed, once.
LEMMA PermitAuthorised ==
    ASSUME TokensType, NEW name \in Names, NEW caller \in Holders, NEW p \in signed, permit(name, caller, p)
    PROVE  TokensType' /\ AuthorisedStep
<1> DEFINE t == token[name]
           v == _approve(t, p.owner, p.spender, p.amount)
           nn == [t.nonces EXCEPT ![p.owner] = @ + 1]
           u == [v EXCEPT !.nonces = nn]
<1>1. t \in Token /\ p \in Permits /\ p.owner \in Holders /\ p.spender \in Holders /\ p.amount \in Nat
  BY DEF TokensType, Permits
<1>2. /\ v \in Token /\ v.balances = t.balances /\ v.nonces = t.nonces
      /\ v.allowances[p.owner][p.spender] = p.amount
      /\ \A a, s \in Holders : a # p.owner \/ s # p.spender => v.allowances[a][s] = t.allowances[a][s]
  <2>1. /\ v \in Token /\ v.balances = t.balances /\ v.nonces = t.nonces
      /\ v.allowances = [t.allowances EXCEPT ![p.owner][p.spender] = p.amount]
    BY <1>1, Approved, SMTT(90)
  <2>2. t.allowances \in [Holders -> [Holders -> Nat]]
    BY <1>1 DEF Token
  <2>. HIDE DEF v
  <2>. QED BY <1>1, <2>1, <2>2
<1>3. t.nonces \in [Holders -> Nat] /\ t.nonces[p.owner] \in Nat
  BY <1>1 DEF Token
<1>4. nn \in [Holders -> Nat] /\ nn[p.owner] = t.nonces[p.owner] + 1
  BY <1>1, <1>3
<1>5. permitted(t, p) = u
  BY <1>2, Zenon DEF permitted
<1>6. transaction(name, caller, u) /\ permitValid(name, p)
  BY <1>5 DEF permit
<1>. HIDE DEF v, nn
<1>7. u \in Token /\ u.balances = t.balances /\ u.allowances = v.allowances /\ u.nonces = nn
  BY <1>2, <1>4 DEF Token
<1>. HIDE DEF u
<1>8. /\ p.of = name /\ p.deadline >= clock.time /\ p.nonce = t.nonces[p.owner]
      /\ p.domain.chainID = clock.chainID
  BY <1>6 DEF permitValid, domainSeparator, cachedDomainSeparator, buildDomainSeparator
<1>9. /\ \A a \in Addresses : t.balances[a] \in Nat
      /\ \A a, s \in Holders : t.allowances[a][s] \in Nat
  BY <1>1 DEF Token
<1>10. \A a \in Addresses : ~(u.balances[a] < t.balances[a]) /\ u.balances[a] >= t.balances[a]
  BY <1>7, <1>9
<1>11. ASSUME NEW a \in Holders, NEW s \in Holders, u.allowances[a][s] > t.allowances[a][s]
       PROVE  /\ p.of = name /\ p.owner = a /\ p.spender = s /\ p.amount = u.allowances[a][s]
              /\ p.domain.chainID = clock.chainID /\ p.deadline >= clock.time
              /\ p.nonce < u.nonces[a] /\ p.nonce >= t.nonces[a]
  <2>1. p.owner = a /\ p.spender = s /\ p.amount = u.allowances[a][s]
    BY <1>2, <1>7, <1>9, <1>11
  <2>2. p.nonce = t.nonces[a] /\ u.nonces[a] = t.nonces[a] + 1 /\ t.nonces[a] \in Nat
    BY <1>3, <1>4, <1>7, <1>8, <2>1
  <2>. QED BY <1>8, <2>1, <2>2
<1>12. keepsLocked(t.balances, u.balances)
  <2>1. \A a \in lockedAddresses : u.balances[a] >= t.balances[a]
    BY <1>10, LockedAddresses
  <2>. QED BY <1>7, <1>9, <2>1, LockedKept
<1>13. Authorised(name, caller, u)
  BY <1>7, <1>10, <1>11, <1>12 DEF Authorised
<1>. QED BY <1>6, <1>13, TransactionAuthorised


\* transfer, by an address that is not the lockup before its time: in the first
\* year the multisig's recipient is a registered lockup.  (That no factory is set
\* and the call reverts is not used.)
LEMMA TransferStep ==
    ASSUME TokensType, NEW name \in Names, NEW caller \in Addresses, NEW to \in Addresses, NEW amount \in Nat,
           caller = "LockupContract" => clock.time >= lockup.unlockTime,
           transfer(name, caller, to, amount)
    PROVE  TokensType' /\ AuthorisedStep
<1>1. transferable(token[name], caller, to, amount)
      /\ transaction(name, caller, _transfer(token[name], caller, to, amount))
  BY DEF transfer
<1>2. name = "LQTY" => \/ caller \notin lockedAddresses
                       \/ caller = multisig /\ to = "LockupContract" /\ isRegisteredLockup(to)
  <2>. HAVE name = "LQTY"
  <2>1. clock.time \in Nat /\ lockup.unlockTime \in Nat
    BY DEF TokensType
  <2>2. isFirstYear /\ caller = multisig => to = "LockupContract" /\ isRegisteredLockup(to)
    BY DEF transfer, requireRecipientIsRegisteredLC, isRegisteredLockup
  <2>3. clock.time < lockup.unlockTime => caller # "LockupContract"
    BY <2>1
  <2>4. ASSUME caller \in lockedAddresses PROVE isFirstYear /\ caller = multisig
    BY <2>3, <2>4 DEF lockedAddresses
  <2>. QED BY <2>2, <2>4
<1>3. Authorised(name, caller, _transfer(token[name], caller, to, amount))
  BY <1>1, <1>2, TransferAuthorised
<1>. QED BY <1>1, <1>3, TransactionAuthorised

\* approve, increaseAllowance and decreaseAllowance.
LEMMA ApproveStep ==
    ASSUME TokensType, NEW name \in Names, NEW caller \in Holders, NEW spender \in Holders, NEW amount \in Nat,
           \/ approve(name, caller, spender, amount)
           \/ increaseAllowance(name, caller, spender, amount)
           \/ decreaseAllowance(name, caller, spender, amount)
    PROVE  TokensType' /\ AuthorisedStep
<1> DEFINE allowance == token[name].allowances[caller][spender]
<1>1. allowance \in Nat
  BY DEF TokensType, Token
<1>. HIDE DEF allowance
<1>2. PICK new \in Nat : transaction(name, caller, _approve(token[name], caller, spender, new))
  <2>1. CASE approve(name, caller, spender, amount)
    BY <2>1 DEF approve
  <2>2. CASE increaseAllowance(name, caller, spender, amount)
    <3>1. transaction(name, caller, _approve(token[name], caller, spender, allowance + amount))
      BY <2>2 DEF increaseAllowance, allowance
    <3>. allowance + amount \in Nat
      BY <1>1
    <3>. QED BY <3>1
  <2>3. CASE decreaseAllowance(name, caller, spender, amount)
    <3>1. transaction(name, caller, _approve(token[name], caller, spender, allowance - amount)) /\ allowance >= amount
      BY <2>3 DEF decreaseAllowance, allowance
    <3>. allowance - amount \in Nat
      BY <1>1, <3>1
    <3>. QED BY <3>1
  <2>. QED BY <2>1, <2>2, <2>3
<1>3. Authorised(name, caller, _approve(token[name], caller, spender, new))
  BY ApprovalAuthorised
<1>. QED BY <1>2, <1>3, TransactionAuthorised

\* What users call.
LEMMA UserStep == ASSUME TokensType, UserAction PROVE TokensType' /\ AuthorisedStep
<1>1. PICK name \in Names, caller \in Holders :
         \/ \E amount \in Amounts, other \in Holders :
               \/ approve(name, caller, other, amount)
               \/ increaseAllowance(name, caller, other, amount) \/ decreaseAllowance(name, caller, other, amount)
         \/ \E amount \in Amounts, to \in Recipients :
               transfer(name, caller, to, amount) \/ \E from \in Holders : transferFrom(name, caller, from, to, amount)
         \/ \E p \in signed : permit(name, caller, p)
  BY DEF UserAction
<1>2. Amounts \subseteq Nat /\ Recipients \subseteq Addresses
  BY TokensAssumption
<1>3. caller \in Addresses /\ caller # "LockupContract"
  BY LockedAddresses DEF Contracts
<1>4. CASE \E amount \in Amounts, other \in Holders :
              \/ approve(name, caller, other, amount)
              \/ increaseAllowance(name, caller, other, amount) \/ decreaseAllowance(name, caller, other, amount)
  BY <1>2, <1>4, ApproveStep
<1>5. CASE \E amount \in Amounts, to \in Recipients : transfer(name, caller, to, amount)
  BY <1>2, <1>3, <1>5, TransferStep
<1>6. CASE \E amount \in Amounts, to \in Recipients, from \in Holders : transferFrom(name, caller, from, to, amount)
  BY <1>2, <1>6, TransferFromAuthorised
<1>7. CASE \E p \in signed : permit(name, caller, p)
  BY <1>7, PermitAuthorised
<1>. QED BY <1>1, <1>4, <1>5, <1>6, <1>7

\* Minting and burning: LUSD only, by the contracts trusted with it.
LEMMA MintStep ==
    ASSUME TokensType, NEW caller, NEW account \in Addresses, NEW amount \in Nat,
           mint(caller, account, amount) \/ burn(caller, account, amount)
    PROVE  TokensType' /\ AuthorisedStep
<1> DEFINE t == token["LUSD"]
<1>1. t \in Token /\ "LUSD" \in Names
  BY LockedAddresses DEF TokensType
<1>2. PICK u \in Token : /\ transaction("LUSD", caller, u) /\ u.allowances = t.allowances
                         /\ \A a \in Addresses : u.balances[a] < t.balances[a] => caller \in trusted("LUSD")
  <2>1. CASE mint(caller, account, amount)
    <3> DEFINE u == _mint(t, account, amount)
    <3>1. u \in Token /\ u.allowances = t.allowances /\ \A a \in Addresses : u.balances[a] >= t.balances[a]
      BY <1>1, Minted
    <3>2. transaction("LUSD", caller, u)
      BY <2>1 DEF mint
    <3>. HIDE DEF u
    <3>3. \A a \in Addresses : ~(u.balances[a] < t.balances[a])
      BY <1>1, <3>1 DEF Token
    <3>. QED BY <3>1, <3>2, <3>3
  <2>2. CASE burn(caller, account, amount)
    <3> DEFINE u == _burn(t, account, amount)
    <3>1. t.balances[account] >= amount /\ caller \in trusted("LUSD") /\ transaction("LUSD", caller, u)
      BY <2>2 DEF burn, trusted
    <3>2. u \in Token /\ u.allowances = t.allowances
      BY <1>1, <3>1, Burnt
    <3>. HIDE DEF u
    <3>. QED BY <3>1, <3>2
  <2>. QED BY <2>1, <2>2
<1>3. \A a, s \in Holders : ~(u.allowances[a][s] > t.allowances[a][s])
  BY <1>1, <1>2 DEF Token
<1>4. Authorised("LUSD", caller, u)
  BY <1>2, <1>3 DEF Authorised
<1>. QED BY <1>1, <1>2, <1>4, TransactionAuthorised

\* The protocol's contracts move LUSD and LQTY without an allowance.
LEMMA MoveStep ==
    ASSUME TokensType, NEW caller, NEW user \in Holders, NEW pool \in Contracts, NEW amount \in Nat,
           \/ sendToPool(caller, user, pool, amount)
           \/ returnFromPool(caller, pool, user, amount)
           \/ sendToLQTYStaking(caller, user, amount)
    PROVE  TokensType' /\ AuthorisedStep
<1>1. user \in Addresses /\ pool \in Addresses /\ "LQTYStaking" \in Addresses /\ user # "LockupContract"
      /\ "LUSD" \in Names /\ "LQTY" \in Names
  BY LockedAddresses DEF Contracts
<1>2. CASE sendToPool(caller, user, pool, amount)
  <2>1. caller \in trusted("LUSD") /\ transferable(token["LUSD"], user, pool, amount)
        /\ transaction("LUSD", caller, _transfer(token["LUSD"], user, pool, amount))
    BY <1>2 DEF sendToPool, trusted
  <2>2. Authorised("LUSD", caller, _transfer(token["LUSD"], user, pool, amount))
    BY <1>1, <2>1, TransferAuthorised
  <2>. QED BY <1>1, <2>1, <2>2, TransactionAuthorised
<1>3. CASE returnFromPool(caller, pool, user, amount)
  <2>1. caller \in trusted("LUSD") /\ transferable(token["LUSD"], pool, user, amount)
        /\ transaction("LUSD", caller, _transfer(token["LUSD"], pool, user, amount))
    BY <1>3 DEF returnFromPool, trusted
  <2>2. Authorised("LUSD", caller, _transfer(token["LUSD"], pool, user, amount))
    BY <1>1, <2>1, TransferAuthorised
  <2>. QED BY <1>1, <2>1, <2>2, TransactionAuthorised
<1>4. CASE sendToLQTYStaking(caller, user, amount)
  <2>1. caller \in trusted("LQTY") /\ transferable(token["LQTY"], user, "LQTYStaking", amount)
        /\ transaction("LQTY", caller, _transfer(token["LQTY"], user, "LQTYStaking", amount))
    BY <1>4 DEF sendToLQTYStaking, trusted
  <2>2. user \notin lockedAddresses
    BY <1>1, <1>4 DEF sendToLQTYStaking, requireNotMultisig, lockedAddresses
  <2>3. Authorised("LQTY", caller, _transfer(token["LQTY"], user, "LQTYStaking", amount))
    BY <1>1, <2>1, <2>2, TransferAuthorised
  <2>. QED BY <1>1, <2>1, <2>3, TransactionAuthorised
<1>. QED BY <1>2, <1>3, <1>4

\* What the contracts of the protocol call, and what others who try achieve.
LEMMA ProtocolStep == ASSUME TokensType, ProtocolAction PROVE TokensType' /\ AuthorisedStep
<1>1. PICK amount \in Amounts, user \in Holders :
         \/ \E name \in Names : \E contract \in paysOut[name] : transfer(name, contract, user, amount)
         \/ \E caller \in Contracts \cup Holders :
               \/ \E account \in {user, "GasPool", "LQTYStaking"} : mint(caller, account, amount)
               \/ \E account \in {user, "GasPool", "StabilityPool"} : burn(caller, account, amount)
               \/ sendToPool(caller, user, "StabilityPool", amount)
               \/ \E pool \in {"GasPool", "StabilityPool"} : returnFromPool(caller, pool, user, amount)
               \/ sendToLQTYStaking(caller, user, amount)
  BY DEF ProtocolAction
<1>2. /\ amount \in Nat /\ user \in Addresses
      /\ {"GasPool", "StabilityPool", "LQTYStaking", "CommunityIssuance", "Unipool"} \subseteq Contracts
      /\ Contracts \subseteq Addresses
  BY TokensAssumption, LockedAddresses DEF Contracts
<1>3. CASE \E name \in Names : \E contract \in paysOut[name] : transfer(name, contract, user, amount)
  <2>1. PICK name \in Names : \E contract \in paysOut[name] : transfer(name, contract, user, amount)
    BY <1>3
  <2>2. \A contract \in paysOut[name] : contract \in Contracts /\ contract # "LockupContract"
    BY <1>2 DEF paysOut, Names
  <2>3. PICK contract \in paysOut[name] : transfer(name, contract, user, amount)
    BY <2>1
  <2>. QED BY <1>2, <2>2, <2>3, TransferStep
<1>4. CASE \E caller \in Contracts \cup Holders :
              \/ \E account \in {user, "GasPool", "LQTYStaking"} : mint(caller, account, amount)
              \/ \E account \in {user, "GasPool", "StabilityPool"} : burn(caller, account, amount)
  <2>1. PICK caller \in Contracts \cup Holders, account \in {user, "GasPool", "LQTYStaking", "StabilityPool"} :
           mint(caller, account, amount) \/ burn(caller, account, amount)
    BY <1>4
  <2>2. account \in Addresses
    BY <1>2
  <2>. QED BY <1>2, <2>1, <2>2, MintStep
<1>5. CASE \E caller \in Contracts \cup Holders :
              \/ sendToPool(caller, user, "StabilityPool", amount)
              \/ \E pool \in {"GasPool", "StabilityPool"} : returnFromPool(caller, pool, user, amount)
              \/ sendToLQTYStaking(caller, user, amount)
  <2>1. PICK caller \in Contracts \cup Holders, pool \in {"GasPool", "StabilityPool"} :
           \/ sendToPool(caller, user, pool, amount)
           \/ returnFromPool(caller, pool, user, amount)
           \/ sendToLQTYStaking(caller, user, amount)
    BY <1>5
  <2>2. pool \in Contracts
    BY <1>2
  <2>. QED BY <1>2, <2>1, <2>2, MoveStep
<1>. QED BY <1>1, <1>3, <1>4, <1>5

\* A step that leaves the tokens alone takes nothing.
LEMMA TokensUntouched == ASSUME TokensType, token' = token PROVE AuthorisedStep
<1>1. /\ \A name \in Names : /\ \A a \in Addresses : token[name].balances[a] \in Nat
                             /\ \A a, s \in Holders : token[name].allowances[a][s] \in Nat
      /\ lockedAddresses \subseteq Addresses /\ "LQTY" \in Names
  BY LockedAddresses DEF TokensType, Token
<1>2. \A name \in Names : spendsOwn(name)
  BY <1>1 DEF spendsOwn
<1>3. \A name \in Names : grantsOwn(name)
  BY <1>1 DEF grantsOwn
<1>4. keepsLocked(token["LQTY"].balances, token'["LQTY"].balances)
  BY <1>1, LockedKept
<1>. QED BY <1>2, <1>3, <1>4 DEF AuthorisedStep

\* The lockup: it pays its beneficiary after its time, and only then.
LEMMA LockupStep == ASSUME TokensType, LockupAction PROVE TokensType' /\ AuthorisedStep
<1>1. zeroAddress \in Addresses /\ "LQTYToken" \in Addresses /\ "LockupContract" \in Addresses /\ "LQTY" \in Names
      /\ Holders \subseteq Addresses
  BY LockedAddresses DEF Addresses, Contracts
<1>2. ASSUME setLQTYTokenAddress PROVE TokensType' /\ AuthorisedStep
  <2>1. TokensType'
    BY <1>1, <1>2 DEF setLQTYTokenAddress, TokensType
  <2>. QED BY <1>2, <2>1, TokensUntouched DEF setLQTYTokenAddress
<1>3. ASSUME NEW caller \in Holders, NEW user \in Holders, NEW unlockTime \in 0..MaxTokenTime,
             deployLockupContract(caller, user, unlockTime)
      PROVE  TokensType' /\ AuthorisedStep
  <2>1. unlockTime \in Nat
    BY TokensAssumption
  <2>2. TokensType'
    BY <1>1, <1>3, <2>1 DEF deployLockupContract, TokensType
  <2>. QED BY <1>3, <2>2, TokensUntouched DEF deployLockupContract
<1>4. ASSUME NEW caller \in Holders, withdrawLQTY(caller) PROVE TokensType' /\ AuthorisedStep
  <2>1. /\ lockup.beneficiary \in Addresses /\ token["LQTY"].balances["LockupContract"] \in Nat
        /\ clock.time >= lockup.unlockTime
        /\ transfer("LQTY", "LockupContract", lockup.beneficiary, token["LQTY"].balances["LockupContract"])
    BY <1>1, <1>4 DEF withdrawLQTY, TokensType, Token
  <2>. QED BY <1>1, <2>1, TransferStep
<1>. QED BY <1>2, <1>3, <1>4 DEF LockupAction

\* Signing a permit, the passing of time and a split of the chain.
LEMMA SurroundingsStep ==
    ASSUME TokensType, SignAction \/ passTime \/ chainSplits
    PROVE  TokensType' /\ AuthorisedStep
<1>1. CASE SignAction
  <2>1. PICK name \in Names, owner \in Holders, spender \in Holders, amount \in Amounts, nonce \in 0..1,
             deadline \in Deadlines : sign(name, owner, spender, amount, nonce, deadline)
    BY <1>1 DEF SignAction
  <2> DEFINE p == [of |-> name, owner |-> owner, spender |-> spender, amount |-> amount,
                   nonce |-> nonce, deadline |-> deadline, domain |-> domainSeparator(name)]
  <2>2. domainSeparator(name) \in [name : Names, chainID : {1, 2}]
    BY DEF TokensType, domainSeparator, cachedDomainSeparator, buildDomainSeparator
  <2>3. amount \in Nat /\ nonce \in Nat /\ deadline \in Nat
    BY TokensAssumption
  <2>4. p \in Permits
    BY <2>2, <2>3 DEF Permits
  <2>5. signed' = signed \cup {p} /\ token' = token /\ clock' = clock /\ lockup' = lockup
    BY <2>1 DEF sign
  <2>. HIDE DEF p
  <2>6. TokensType'
    BY <2>4, <2>5 DEF TokensType
  <2>. QED BY <2>5, <2>6, TokensUntouched
<1>2. CASE passTime
  <2>1. TokensType' /\ token' = token
    BY <1>2 DEF passTime, TokensType
  <2>. QED BY <2>1, TokensUntouched
<1>3. CASE chainSplits
  <2>1. TokensType' /\ token' = token
    BY <1>3 DEF chainSplits, TokensType
  <2>. QED BY <2>1, TokensUntouched
<1>. QED BY <1>1, <1>2, <1>3

\* The constructor's four entitlements are natural numbers, which it mints.
LEMMA TokensInitially == TokensInit => TokensType
<1>. SUFFICES ASSUME TokensInit PROVE TokensType
  OBVIOUS
<1>1. emptyToken \in Token
  BY DEF emptyToken, Token
<1>2. bountyEntitlement \in Nat /\ depositorsAndFrontEndsEntitlement \in Nat /\ lpRewardsEntitlement \in Nat
      /\ multisigEntitlement \in Nat
  BY TokensAssumption DEF bountyEntitlement, depositorsAndFrontEndsEntitlement, lpRewardsEntitlement, multisigEntitlement
<1>3. bountyAddress \in Addresses /\ multisig \in Addresses /\ "CommunityIssuance" \in Addresses /\ "Unipool" \in Addresses
      /\ zeroAddress \in Addresses
  BY TokensAssumption DEF Addresses, Contracts
<1> DEFINE minted1 == _mint(emptyToken, bountyAddress, bountyEntitlement)
           minted2 == _mint(minted1, "CommunityIssuance", depositorsAndFrontEndsEntitlement)
           minted3 == _mint(minted2, "Unipool", lpRewardsEntitlement)
<1>4. minted1 \in Token
  BY <1>1, <1>2, <1>3, Minted
<1>5. minted2 \in Token
  <2>. HIDE DEF minted1
  <2>. QED BY <1>2, <1>3, <1>4, Minted
<1>6. minted3 \in Token
  <2>. HIDE DEF minted2
  <2>. QED BY <1>2, <1>3, <1>5, Minted
<1>7. _mint(minted3, multisig, multisigEntitlement) \in Token
  <2>. HIDE DEF minted3
  <2>. QED BY <1>2, <1>3, <1>6, Minted
<1>8. allocated \in Token
  BY <1>7 DEF allocated
<1>9. token \in [Names -> Token]
  BY <1>1, <1>8 DEF TokensInit, Names
<1>. QED BY <1>3, <1>9 DEF TokensInit, TokensType, noLockup

\* Nothing leaves an address that its owner did not send, allow or sign for,
\* but to the contracts of the protocol; an allowance grows only by its owner's
\* will, once per permit; and LQTY leaves the multisig in the first year for a
\* registered lockup only, and the lockup not before its time (LUSDToken,
\* LQTYToken, LockupContract).
THEOREM NothingUnauthorised == TokensSpec => OnlyAuthorised
<1>1. TokensInit => TokensType
  BY TokensInitially
<1>2. TokensType /\ [TokensNext]_tokensVars => TokensType' /\ [AuthorisedStep]_tokensVars
  <2>. SUFFICES ASSUME TokensType, [TokensNext]_tokensVars PROVE TokensType' /\ [AuthorisedStep]_tokensVars
    OBVIOUS
  <2>1. CASE TokensNext
    BY <2>1, UserStep, ProtocolStep, LockupStep, SurroundingsStep DEF TokensNext
  <2>2. CASE UNCHANGED tokensVars
    BY <2>2 DEF tokensVars, TokensType
  <2>. QED BY <2>1, <2>2
<1>3. [AuthorisedStep]_tokensVars <=>
         [/\ \A name \in Names : spendsOwn(name) /\ grantsOwn(name)
          /\ keepsLocked(token["LQTY"].balances, token'["LQTY"].balances)]_tokensVars
  BY DEF AuthorisedStep
<1>. QED BY <1>1, <1>2, <1>3, PTL DEF TokensSpec, OnlyAuthorised
================================================================================
