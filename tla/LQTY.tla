---------------------------------- MODULE LQTY ----------------------------------
(***************************************************************************)
(* LQTY between its users, LQTYStaking and the Unipool, and the stake      *)
(* entities the subgraph keeps from LQTYStaking's events.                  *)
(***************************************************************************)
EXTENDS LiquityBase, FiniteSets, FiniteSetsExt

--------------------------------------------------------------------------------
(***************************************************************************)
(* LQTYStaking.  LQTY is staked for a share of the fees.  F.ETH and F.LUSD *)
(* are the fees per staked LQTY so far; a staker's gains follow from the   *)
(* snapshots of the time the stake last changed.                           *)
(***************************************************************************)
CONSTANT Users

VARIABLES
    stakes, totalLQTYStaked,
    F, stakerSnapshots,     \* [ETH, LUSD], and the value of F for each staker
    feesHeld                \* ETH and LUSD the contract holds

stakingVars == <<stakes, totalLQTYStaked, F, stakerSnapshots, feesHeld>>

NoFees == [ETH |-> 0, LUSD |-> 0]

StakingInit ==
    /\ stakes = [u \in Users |-> 0] /\ totalLQTYStaked = 0
    /\ F = NoFees /\ stakerSnapshots = [u \in Users |-> NoFees] /\ feesHeld = NoFees

getPendingGain(u, asset) ==
    (stakes[u] * (F[asset] - stakerSnapshots[u][asset])) \div DECIMAL_PRECISION

PendingGains(u) == [asset \in {"ETH", "LUSD"} |-> getPendingGain(u, asset)]

\* Mutated form: the snapshots are left as they were.
ChangeStake_OldSnapshots(u, change) ==
    /\ \A asset \in DOMAIN feesHeld : feesHeld[asset] >= getPendingGain(u, asset)
    /\ feesHeld' = [asset \in DOMAIN feesHeld |-> feesHeld[asset] - getPendingGain(u, asset)]
    /\ stakes' = [stakes EXCEPT ![u] = @ + change]
    /\ totalLQTYStaked' = totalLQTYStaked + change
    /\ UNCHANGED <<F, stakerSnapshots>>

\* Every change of a stake, by nothing too, pays out the gains.
ChangeStake(u, change) ==
    /\ \A asset \in DOMAIN feesHeld : feesHeld[asset] >= getPendingGain(u, asset)
    /\ feesHeld' = [asset \in DOMAIN feesHeld |-> feesHeld[asset] - getPendingGain(u, asset)]
    /\ stakerSnapshots' = [stakerSnapshots EXCEPT ![u] = F]
    /\ stakes' = [stakes EXCEPT ![u] = @ + change]
    /\ totalLQTYStaked' = totalLQTYStaked + change
    /\ UNCHANGED F

stakeLQTY(u, amount) == amount > 0 /\ ChangeStake(u, amount)

\* If more than the stake is asked for, the entire stake is returned.
unstakeLQTY(u, amount) == stakes[u] > 0 /\ ChangeStake(u, -min(amount, stakes[u]))

\* A fee arrives with increaseF_ETH or increaseF_LUSD.  With nobody staking
\* it stays in the contract and belongs to nobody.
increaseF(asset, fee) ==
    /\ feesHeld' = [feesHeld EXCEPT ![asset] = @ + fee]
    /\ F' = [F EXCEPT ![asset] =
               @ + (IF totalLQTYStaked > 0 THEN (fee * DECIMAL_PRECISION) \div totalLQTYStaked ELSE 0)]
    /\ UNCHANGED <<stakes, totalLQTYStaked, stakerSnapshots>>

--------------------------------------------------------------------------------
(***************************************************************************)
(* Unipool.  Liquidity providers stake LP tokens and share rewardRate LQTY *)
(* per unit of time until periodFinish; the clock stops while nobody       *)
(* stakes.                                                                 *)
(***************************************************************************)
CONSTANTS
    Providers,
    duration,      \* length of the reward period
    lpRewards,     \* LQTY the contract starts with
    MaxTime        \* bound on the time

ASSUME UnipoolAssumption ==
    duration \in Nat \ {0} /\ lpRewards \in Nat \ {0} /\ MaxTime \in Nat

VARIABLES
    now,                        \* block.timestamp
    lpBalance, lpTotalSupply,   \* LPTokenWrapper's _balances and _totalSupply
    periodFinish, rewardRate, lastUpdateTime,
    rewardPerTokenStored, userRewardPerTokenPaid, rewards,
    stakedTime                  \* history: time before periodFinish with a stake

rewardVars == <<lastUpdateTime, rewardPerTokenStored, userRewardPerTokenPaid, rewards>>
unipoolVars == <<now, lpBalance, lpTotalSupply, periodFinish, rewardRate, rewardVars, stakedTime>>

\* After setParams at time 0.
UnipoolInit ==
    /\ now = 0 /\ stakedTime = 0
    /\ lpBalance = [p \in Providers |-> 0] /\ lpTotalSupply = 0
    /\ rewardRate = lpRewards \div duration
    /\ lastUpdateTime = 0 /\ periodFinish = duration
    /\ rewardPerTokenStored = 0
    /\ userRewardPerTokenPaid = [p \in Providers |-> 0] /\ rewards = [p \in Providers |-> 0]

\* The functions that depend on periodFinish take it as a parameter: stake
\* and claimReward prolong the period first.
lastTimeRewardApplicable(finish) == min(now, finish)

rewardPerToken(finish) ==
    rewardPerTokenStored +
    (IF lpTotalSupply = 0 THEN 0
     ELSE ((lastTimeRewardApplicable(finish) - lastUpdateTime) * rewardRate * DECIMAL_PRECISION)
             \div lpTotalSupply)

earned(p, finish) ==
    (lpBalance[p] * (rewardPerToken(finish) - userRewardPerTokenPaid[p])) \div DECIMAL_PRECISION
       + rewards[p]

\* What the client shows as the reward that is left.
getRemainingLiquidityMiningLQTYReward ==
    LET from == IF lpTotalSupply = 0 THEN lastUpdateTime ELSE now
    IN  rewardRate * (IF periodFinish > from THEN periodFinish - from ELSE 0)

\* Mutated form: the period is prolonged whenever somebody stakes or claims.
updatedPeriodFinish_Always == periodFinish + (now - lastUpdateTime)

\* _updatePeriodFinish: prolonged by the time since the last update if
\* nobody staked since then.
updatedPeriodFinish ==
    IF lpTotalSupply = 0 THEN periodFinish + (now - lastUpdateTime) ELSE periodFinish

\* _updateAccountReward, and the reward left to the account afterwards.
UpdateAccountReward(p, finish, reward) ==
    /\ rewardPerTokenStored' = rewardPerToken(finish)
    /\ lastUpdateTime' = lastTimeRewardApplicable(finish)
    /\ rewards' = [rewards EXCEPT ![p] = reward]
    /\ userRewardPerTokenPaid' = [userRewardPerTokenPaid EXCEPT ![p] = rewardPerToken(finish)]
    /\ periodFinish' = finish
    /\ UNCHANGED <<now, rewardRate, stakedTime>>

ChangeLP(p, change) ==
    /\ lpTotalSupply' = lpTotalSupply + change
    /\ lpBalance' = [lpBalance EXCEPT ![p] = @ + change]

stakeLP(p, amount) ==
    /\ amount > 0
    /\ UpdateAccountReward(p, updatedPeriodFinish, earned(p, updatedPeriodFinish))
    /\ ChangeLP(p, amount)

withdrawLP(p, amount) ==
    /\ amount > 0 /\ amount <= lpBalance[p]
    /\ UpdateAccountReward(p, periodFinish, earned(p, periodFinish))
    /\ ChangeLP(p, -amount)

\* What claimReward and withdrawAndClaim pay: the latter updates the account
\* before the stake goes, and then nothing accrues at the same time.
Claimed(p) == earned(p, updatedPeriodFinish)

claimReward(p) ==
    /\ Claimed(p) > 0
    /\ UpdateAccountReward(p, updatedPeriodFinish, 0)
    /\ UNCHANGED <<lpBalance, lpTotalSupply>>

\* With the stake gone, claimReward may prolong the period of an empty pool
\* by the time since the update just made: nothing, before periodFinish.
withdrawAndClaim(p) ==
    LET finish == IF lpTotalSupply = lpBalance[p]
                  THEN periodFinish + (now - lastTimeRewardApplicable(periodFinish))
                  ELSE periodFinish
    IN  /\ lpBalance[p] > 0
        /\ earned(p, periodFinish) > 0
        /\ rewardPerTokenStored' = rewardPerToken(periodFinish)
        /\ lastUpdateTime' = lastTimeRewardApplicable(finish)
        /\ rewards' = [rewards EXCEPT ![p] = 0]
        /\ userRewardPerTokenPaid' = [userRewardPerTokenPaid EXCEPT ![p] = rewardPerToken(periodFinish)]
        /\ periodFinish' = finish
        /\ ChangeLP(p, -lpBalance[p])
        /\ UNCHANGED <<now, rewardRate, stakedTime>>

UnipoolTick ==
    /\ now < MaxTime
    /\ now' = now + 1
    /\ stakedTime' = stakedTime + (IF lpTotalSupply > 0 /\ now < periodFinish THEN 1 ELSE 0)
    /\ UNCHANGED <<lpBalance, lpTotalSupply, periodFinish, rewardRate, rewardVars>>

--------------------------------------------------------------------------------
(***************************************************************************)
(* The two contracts, the token and the subgraph together.                 *)
(***************************************************************************)
CONSTANTS
    bounty,                \* LQTY minted to the first user
    NoStake,               \* a user for whom the subgraph has no stake entity
    LQTYAmounts, LPAmounts, Fees, MaxFees   \* inputs, and how many fees are paid

ASSUME LQTYAssumption ==
    /\ bounty \in Nat /\ MaxFees \in Nat
    /\ LQTYAmounts \subseteq Nat /\ LPAmounts \subseteq Nat /\ Fees \subseteq Nat
    /\ NoStake \notin Nat
    /\ IsFiniteSet(Users) /\ Providers \subseteq Users

VARIABLES
    lqty,                \* balances of the users and of the contracts
    index,               \* the subgraph: [stake, totalStaked, total, active]
    feesPaid             \* number of fees, for the bound

tokenVars == <<lqty, feesPaid>>
lqtyVars == <<stakingVars, unipoolVars, tokenVars, index>>

LQTYInit ==
    /\ StakingInit /\ UnipoolInit
    /\ \E first \in Users :
          lqty = [users |-> [u \in Users |-> IF u = first THEN bounty ELSE 0],
                  staking |-> 0, unipool |-> lpRewards]
    /\ feesPaid = 0
    /\ index = [stake |-> [u \in Users |-> NoStake], totalStaked |-> 0, total |-> 0, active |-> 0]

--------------------------------------------------------------------------------
(***************************************************************************)
(* The subgraph's handlers of StakeChanged and StakingGainsWithdrawn.      *)
(***************************************************************************)
getOperationType(amount, nextStakeAmount) ==
    CASE amount = 0 /\ nextStakeAmount > 0 -> "stakeCreated"
      [] nextStakeAmount > amount /\ amount # 0 -> "stakeIncreased"
      [] nextStakeAmount = 0 /\ amount >= nextStakeAmount -> "stakeRemoved"
      [] OTHER -> "stakeDecreased"

\* Mutated form: a stake that comes back is not counted as active.
updateStake_FirstOnly(i, u, newStake) ==
    LET isUserFirstStake == i.stake[u] = NoStake
        amount == IF isUserFirstStake THEN 0 ELSE i.stake[u]
        operation == getOperationType(amount, newStake)
    IN  [stake |-> [i.stake EXCEPT ![u] = newStake],
         totalStaked |-> i.totalStaked + newStake - amount,
         total |-> i.total + (IF isUserFirstStake THEN 1 ELSE 0),
         active |-> i.active + (IF isUserFirstStake THEN 1
                                ELSE IF operation = "stakeRemoved" THEN -1 ELSE 0)]

\* increaseTotalNumberOfLQTYStakes (with the first stake of a user), and
\* increase- and decreaseNumberOfActiveLQTYStakes.
changeOfActiveLQTYStakes(operation) ==
    CASE operation = "stakeCreated" -> 1
      [] operation = "stakeRemoved" -> -1
      [] OTHER -> 0

\* Counters move when a stake is created or removed; the total only with the
\* first stake of a user.
updateStake(i, u, newStake) ==
    LET isUserFirstStake == i.stake[u] = NoStake
        amount == IF isUserFirstStake THEN 0 ELSE i.stake[u]
        operation == getOperationType(amount, newStake)
    IN  [stake |-> [i.stake EXCEPT ![u] = newStake],
         totalStaked |-> i.totalStaked + newStake - amount,
         total |-> i.total + (IF operation = "stakeCreated" /\ isUserFirstStake THEN 1 ELSE 0),
         active |-> i.active + changeOfActiveLQTYStakes(operation)]

\* A gain without a stake entity creates one of amount 0.
withdrawStakeGains(i, u, gains) ==
    IF gains.ETH + gains.LUSD = 0 \/ i.stake[u] # NoStake THEN i
    ELSE [i EXCEPT !.stake[u] = 0]

--------------------------------------------------------------------------------
\* The LQTY moves with sendToLQTYStaking.
Stake(u, amount) ==
    /\ stakeLQTY(u, amount)
    /\ lqty.users[u] >= amount
    /\ lqty' = [lqty EXCEPT !.users[u] = @ - amount, !.staking = @ + amount]
    /\ index' = withdrawStakeGains(updateStake(index, u, stakes'[u]), u, PendingGains(u))
    /\ UNCHANGED <<unipoolVars, feesPaid>>

\* StakeChanged is emitted only when something is unstaked.
Unstake(u, amount) ==
    LET unstaked == min(amount, stakes[u])
        changed == IF amount > 0 THEN updateStake(index, u, stakes[u] - unstaked) ELSE index
    IN  /\ unstakeLQTY(u, amount)
        /\ lqty' = [lqty EXCEPT !.users[u] = @ + unstaked, !.staking = @ - unstaked]
        /\ index' = withdrawStakeGains(changed, u, PendingGains(u))
        /\ UNCHANGED <<unipoolVars, feesPaid>>

PayFee(asset, fee) ==
    /\ feesPaid < MaxFees
    /\ feesPaid' = feesPaid + 1
    /\ increaseF(asset, fee)
    /\ UNCHANGED <<unipoolVars, lqty, index>>

StakeLP(p, amount) == stakeLP(p, amount) /\ UNCHANGED <<stakingVars, tokenVars, index>>
WithdrawLP(p, amount) == withdrawLP(p, amount) /\ UNCHANGED <<stakingVars, tokenVars, index>>

\* The reward is paid in LQTY, which its owner may stake.
PayReward(p, reward) ==
    /\ lqty.unipool >= reward
    /\ lqty' = [lqty EXCEPT !.users[p] = @ + reward, !.unipool = @ - reward]
    /\ UNCHANGED <<stakingVars, feesPaid, index>>

Claim(p) == claimReward(p) /\ PayReward(p, Claimed(p))
WithdrawAndClaim(p) == withdrawAndClaim(p) /\ PayReward(p, earned(p, periodFinish))

LQTYTime == UnipoolTick /\ UNCHANGED <<stakingVars, tokenVars, index>>

StakerAction ==
    \E u \in Users, amount \in LQTYAmounts : Stake(u, amount) \/ Unstake(u, amount)
FeeAction == \E asset \in DOMAIN feesHeld, fee \in Fees : PayFee(asset, fee)
ProviderAction ==
    \E p \in Providers :
       \/ \E amount \in LPAmounts : StakeLP(p, amount) \/ WithdrawLP(p, amount)
       \/ Claim(p)
       \/ WithdrawAndClaim(p)
LQTYNext == StakerAction \/ FeeAction \/ ProviderAction \/ LQTYTime

LQTYSpec == LQTYInit /\ [][LQTYNext]_lqtyVars

--------------------------------------------------------------------------------
overUsers(f) == MapThenSumSet(LAMBDA u : f[u], Users)
overProviders(f) == MapThenSumSet(LAMBDA p : f[p], Providers)

\* LQTYStaking can always pay every staker: the stakes add up to the recorded
\* total and to its LQTY, and it holds the fees of all pending gains,
\* whatever arrived while nobody or others staked.
StakingSolvent ==
    /\ overUsers(stakes) = totalLQTYStaked
    /\ lqty.staking = totalLQTYStaked
    /\ \A asset \in DOMAIN feesHeld : overUsers([u \in Users |-> getPendingGain(u, asset)]) <= feesHeld[asset]

\* The clock of the Unipool stops while nobody stakes and only then: what the
\* client shows to be left is the reward of the duration less the time with a
\* stake, and the contract can pay all that was earned.
RewardPeriodKept ==
    /\ getRemainingLiquidityMiningLQTYReward = rewardRate * (duration - stakedTime)
    /\ overProviders([p \in Providers |-> earned(p, periodFinish)]) <= lqty.unipool

\* The stake entities and counters of the subgraph follow the contract, with
\* stakes that are removed and created again too.
StakesIndexed ==
    /\ \A u \in Users : stakes[u] = IF index.stake[u] = NoStake THEN 0 ELSE index.stake[u]
    /\ index.totalStaked = totalLQTYStaked
    /\ index.active = Cardinality({u \in Users : stakes[u] > 0})
    /\ index.total = Cardinality({u \in Users : index.stake[u] # NoStake})
================================================================================
