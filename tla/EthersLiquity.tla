----------------------------- MODULE EthersLiquity ------------------------------
(***************************************************************************)
(* lib-ethers: a client of the contracts.  It connects with a Signer or a  *)
(* Provider, with or without a store; BlockPolledLiquityStore fetches      *)
(* the state block by block; PopulatableEthersLiquity reads it (from the   *)
(* store, when the connection has one, or else with calls of its own),     *)
(* prepares a transaction with limits on the fee and on the gas, and the   *)
(* transaction is mined some blocks later.                                 *)
(*                                                                         *)
(* Every read names the block it saw, so a set of reads is a record of     *)
(* block numbers: time for the timestamp, fees for baseRate and            *)
(* lastFeeOperationTime, state for the rest.  Gas is modelled by the work  *)
(* that an operation must do only when some time has passed.               *)
(***************************************************************************)
EXTENDS BaseRate, FiniteSets

CONSTANTS
    NoBlock,                 \* undefined
    TroveRequests,           \* parameters of openTrove and adjustTrove
    Redemptions,             \* amounts of redeemLUSD
    decayToleranceMinutes,   \* defaultBorrowingFeeDecayToleranceMinutes
    Steps,                   \* seconds between blocks
    OtherPrices,             \* prices that may be fetched, and amounts that
    OtherRedemptions,        \* others redeem
    UserTroves, OthersTrove, \* the troves at the start, of the user and of all others,
    InitialRates,            \* and the base rates
    Chains, deployments,     \* the networks, and those where Liquity is deployed
    MaxBlocks, MaxStoreBlocks, \* bounds on the blocks, without and with a store, and
    MaxReadOnlyBlocks,       \* for a client that cannot sign
    MaxEvents,               \* bound on the blocks that others change
    MaxStarts, MaxFetches    \* bounds on how often the store is started, and
                             \* on the fetches under way

ASSUME EthersLiquityAssumption ==
    /\ NoBlock \notin Nat
    /\ Redemptions \subseteq Nat /\ OtherRedemptions \subseteq Nat /\ OtherPrices \subseteq Nat
    /\ Steps \subseteq Nat \ {0} /\ decayToleranceMinutes \in Nat
    /\ deployments \subseteq Chains
    /\ MaxBlocks \in Nat /\ MaxStoreBlocks \in Nat /\ MaxReadOnlyBlocks \in Nat
    /\ MaxEvents \in Nat /\ MaxStarts \in Nat /\ MaxFetches \in Nat
    /\ DECIMAL_PRECISION % 1000 = 0

VARIABLES
    connection, \* [phase, signer, userAddress, useStore]; signer and userAddress
                \* say whether there is one
    blocks,     \* the chain: one state per block
    store,      \* [loaded, blockTag, at]
    polling,    \* [started, latestBlock, timer, initial, fetches, starts]
    tx          \* the transaction of the user

chainVars == <<connection, blocks>>
vars == <<connection, blocks, store, polling, tx>>

latest == blocks[Len(blocks)]
readAt(n) == [time |-> n, fees |-> n, state |-> n]

\* Reads made in parallel; their answers straddle at most one new block.
readsSince(from) ==
    LET answered == from..min(from + 1, Len(blocks))
    IN  [time : answered, fees : answered, state : answered]

\* A session has one transaction.
NoTransaction == [phase |-> "none"]
Settled == [phase |-> "settled"]

--------------------------------------------------------------------------------
(***************************************************************************)
(* Connecting.  A Signer is asked for its address and then its Provider    *)
(* for the network, which decides whether there are contracts to talk to.  *)
(***************************************************************************)
NoConnection == [phase |-> "none", signer |-> FALSE, userAddress |-> FALSE, useStore |-> "undefined"]

\* What one can connect through; a Signer may lack a Provider.
isSigner(signerOrProvider) == signerOrProvider # "provider"
hasProvider(signerOrProvider) == signerOrProvider # "signer without provider"

validStoreOptions == {"blockPolled"}
_usingStore == connection.useStore # "undefined"
useStore == connection.phase = "connected" /\ _usingStore

connectionUnchangedButFor(new) == connection' = new /\ UNCHANGED <<blocks, store, polling, tx>>

_connect(signerOrProvider, userAddress, option) ==
    /\ connection = NoConnection
    /\ connectionUnchangedButFor(
          [phase |-> IF ~hasProvider(signerOrProvider) \/ (isSigner(signerOrProvider) /\ userAddress)
                     THEN "failed" ELSE IF isSigner(signerOrProvider) THEN "address" ELSE "network",
           signer |-> isSigner(signerOrProvider), userAddress |-> userAddress, useStore |-> option])

getAddress ==
    /\ connection.phase = "address"
    /\ connectionUnchangedButFor([connection EXCEPT !.phase = "network", !.userAddress = TRUE])

\* An unknown kind of store is an error.
connectionFrom ==
    [connection EXCEPT !.phase =
        IF _usingStore => connection.useStore \in validStoreOptions THEN "connected" ELSE "failed"]

\* The network is the one of the moment.
_connectByChainId(chainId) ==
    /\ connection.phase = "network"
    /\ connectionUnchangedButFor(
          IF chainId \in deployments THEN connectionFrom ELSE [connection EXCEPT !.phase = "failed"])

\* The wallet or the node does not answer.
connectRejected ==
    /\ connection.phase \in {"address", "network"}
    /\ connectionUnchangedButFor([connection EXCEPT !.phase = "failed"])

ConnectAction ==
    \/ \E by \in {"provider", "signer", "signer without provider"}, userAddress \in BOOLEAN,
          option \in validStoreOptions \cup {"undefined", "unknown"} : _connect(by, userAddress, option)
    \/ getAddress \/ connectRejected
    \/ \E chainId \in Chains : _connectByChainId(chainId)

\* What a method of a connected client may rely on; it throws otherwise.
_requireAddress == connection.userAddress
_requireSigner == connection.signer

--------------------------------------------------------------------------------
(***************************************************************************)
(* The store.  _load and _update put what was fetched in its place; what   *)
(* is derived (trove, fees, rates) is derived from that again.             *)
(***************************************************************************)
load(at, blockTag) == [loaded |-> TRUE, blockTag |-> blockTag, at |-> at]

\* Field by field, what was fetched replaces what was there; an update without a
\* block tag keeps the old one.
updateIfChanged(base, update, field) == IF field \in DOMAIN update THEN update[field] ELSE base[field]
reduce(base, update) == [field \in DOMAIN base |-> updateIfChanged(base, update, field)]
reduceExtra(blockTag, update) == IF update = NoBlock THEN blockTag ELSE update

update(at, blockTag) ==
    [store EXCEPT !.at = reduce(@, at), !.blockTag = reduceExtra(@, blockTag)]

\* What the store, or a client without one, makes of its reads.
feesReadAt(at, seconds) ==
    LET c == blocks[at.fees]
        elapsed == atLeastZero(blocks[at.time].time + seconds - c.lastFeeOperationTime)
    IN  feesBaseRate(c.baseRate, MINUTE_DECAY_FACTOR, elapsed \div SECONDS_IN_ONE_MINUTE)
recoveryModeReadAt(at) ==
    collateralRatioIsBelowCritical(blocks[at.state].total, blocks[at.state].price)

\* start: the state is fetched without a block tag, and blocks are listened to.
startStore ==
    /\ useStore /\ ~polling.started /\ polling.starts < MaxStarts
    /\ polling' = [polling EXCEPT !.started = TRUE, !.latestBlock = NoBlock, !.timer = FALSE,
                                  !.initial = @ \cup {Len(blocks)}, !.starts = @ + 1]
    /\ UNCHANGED <<chainVars, store, tx>>

\* A fetch that is under way goes on.
stopStore ==
    /\ polling.started
    /\ polling' = [polling EXCEPT !.started = FALSE, !.timer = FALSE]
    /\ UNCHANGED <<chainVars, store, tx>>

\* Mutated form: a late answer is not ignored.
initialFetched_Late(from) ==
    /\ from \in polling.initial
    /\ \E at \in readsSince(from) :
          store' = IF store.loaded THEN update(at, NoBlock) ELSE load(at, NoBlock)
    /\ polling' = [polling EXCEPT !.initial = @ \ {from}]
    /\ UNCHANGED <<chainVars, tx>>

\* The first answer; it is ignored when a block was faster.
initialFetched(from) ==
    /\ from \in polling.initial
    /\ IF store.loaded THEN UNCHANGED store
       ELSE \E at \in readsSince(from) : store' = load(at, NoBlock)
    /\ polling' = [polling EXCEPT !.initial = @ \ {from}]
    /\ UNCHANGED <<chainVars, tx>>

\* A block is announced, perhaps late, twice or after the next one; the timer
\* starts again.
blockListener(blockTag) ==
    /\ polling.started /\ blockTag >= Len(blocks) - 1
    /\ polling' = [polling EXCEPT !.timer = TRUE,
                     !.latestBlock = IF @ = NoBlock \/ blockTag > @ THEN blockTag ELSE @]
    /\ UNCHANGED <<chainVars, store, tx>>

timerFires ==
    /\ polling.timer /\ Cardinality(polling.fetches) < MaxFetches
    /\ polling' = [polling EXCEPT !.timer = FALSE, !.fetches = @ \cup {polling.latestBlock}]
    /\ UNCHANGED <<chainVars, store, tx>>

\* Fetches of several blocks may be under way and end in any order.
handleBlock(blockTag) ==
    /\ blockTag \in polling.fetches
    /\ store' = IF store.loaded THEN update(readAt(blockTag), blockTag)
                ELSE load(readAt(blockTag), blockTag)
    /\ polling' = [polling EXCEPT !.fetches = @ \ {blockTag}]
    /\ UNCHANGED <<chainVars, tx>>

\* One read that fails makes the whole fetch fail, and nothing is retried.
fetchFails ==
    /\ \/ \E from \in polling.initial : polling' = [polling EXCEPT !.initial = @ \ {from}]
       \/ \E tag \in polling.fetches : polling' = [polling EXCEPT !.fetches = @ \ {tag}]
    /\ UNCHANGED <<chainVars, store, tx>>

--------------------------------------------------------------------------------
(***************************************************************************)
(* Work that an operation of the contracts does only after some time: the  *)
(* base rate and its clock are written, LQTY is issued, the rewards of the *)
(* Unipool are updated.                                                    *)
(***************************************************************************)
baseRateWork(c) == IF minutesPassedSinceLastFeeOp(c) > 0 THEN {"baseRateUpdate"} ELSE {}
issuanceWork(c) == IF c.time \div SECONDS_IN_ONE_MINUTE > c.minutesIssued THEN {"LQTYIssuance"} ELSE {}
rewardWork(c) == IF c.time > c.rewardTime THEN {"rewardUpdate"} ELSE {}

\* The transactions without parameters of interest: their work on the chain,
\* and the work their gas limit has headroom for.
simple(work, headroom) == [op |-> "other", work |-> work, headroom |-> headroom]

troveClosure == simple("none", {})
\* claimCollateralSurplus, and setPrice on a test deployment
surplusClaim == simple("none", {})
\* liquidate, liquidateUpTo
liquidation == simple("LQTYIssuance", {"LQTYIssuance"})
\* depositLUSDInStabilityPool, withdrawLUSDFromStabilityPool and
\* withdrawGainsFromStabilityPool
stabilityDepositChange == simple("LQTYIssuance", {"LQTYIssuance"})
transferCollateralGainToTrove == simple("LQTYIssuance", {"LQTYIssuance", "listTraversal"})
\* sendLUSD, sendLQTY
tokenTransfer == simple("none", {})
\* stakeLQTY, unstakeLQTY, registerFrontend, approveUniTokens
stakeChange == simple("none", {})
\* stakeUniTokens, unstakeUniTokens, withdrawLQTYReward, exitLiquidityMining
liquidityMining == simple("rewardUpdate", {"rewardUpdate"})

poolTransactions ==
    {troveClosure, liquidation, stabilityDepositChange, transferCollateralGainToTrove}
transferTransactions == {tokenTransfer}
stakeTransactions == {surplusClaim, stakeChange, liquidityMining}

workOf(t, c) ==
    CASE t.work = "LQTYIssuance" -> issuanceWork(c)
      [] t.work = "rewardUpdate" -> rewardWork(c)
      [] t.work = "baseRateUpdate" -> baseRateWork(c)
      [] OTHER -> {}

--------------------------------------------------------------------------------
(***************************************************************************)
(* Populating a transaction.  A request is made, reads are answered, and   *)
(* the transaction is estimated on the latest block: one that would fail   *)
(* now is never sent.                                                      *)
(***************************************************************************)
defaultBorrowingRateSlippageTolerance == ONE \div 200
defaultRedemptionRateSlippageTolerance == ONE \div 1000

decayBorrowingRate(at, seconds) == feesBorrowingRate(feesReadAt(at, seconds), recoveryModeReadAt(at))

maxBorrowingRate(at) == decayBorrowingRate(at, 0) + defaultBorrowingRateSlippageTolerance
decayedRate(at) == decayBorrowingRate(at, decayToleranceMinutes * SECONDS_IN_ONE_MINUTE)

\* Mutated form: the fee is not expected to decay.
openTrove_NoDecay(c, at, p) ==
    /\ openTroveAccepted(c, p, maxBorrowingRate(at))

\* The loan that gives the decayed trove at today's rate is estimated too.
openTrove(c, at, p) ==
    LET decayedTrove == createTrove(p, decayedRate(at))
        simulated == unapplyFee(decayBorrowingRate(at, 0), netDebtOf(decayedTrove))
    IN  /\ decayedTrove.debt >= LUSD_MINIMUM_DEBT
        /\ openTroveAccepted(c, p, maxBorrowingRate(at))
        /\ openTroveAccepted(c, [p EXCEPT !.borrowLUSD = simulated], maxBorrowingRate(at))

\* For a change without a loan there are no rates, and the limit is 0.
adjustTrove(c, at, p) ==
    LET original == blocks[at.state].trove
        decayedTrove == adjust(original, p, decayedRate(at))
        simulated == adjustmentParams(original, decayedTrove, decayBorrowingRate(at, 0)).borrowLUSD
        limit == IF p.borrowLUSD > 0 THEN maxBorrowingRate(at) ELSE 0
    IN  /\ ~isEmpty(original) /\ ~isEmpty(decayedTrove)
        /\ decayedTrove.debt >= LUSD_MINIMUM_DEBT
        /\ adjustTroveAccepted(c, p, limit)
        /\ p.borrowLUSD > 0 /\ simulated > 0 =>
              adjustTroveAccepted(c, [p EXCEPT !.borrowLUSD = simulated], limit)

troveTransaction(c, at, p) ==
    IF isEmpty(blocks[at.state].trove) THEN openTrove(c, at, p) ELSE adjustTrove(c, at, p)

maxRedemptionRate(at, amount) ==
    min(feesRedemptionRate(feesReadAt(at, 0), div(amount, blocks[at.state].total.debt))
          + defaultRedemptionRateSlippageTolerance, ONE)

\* HintHelpers.getRedemptionHints: the part of the amount that can be redeemed
\* depends on the troves of others; 0 makes redeemLUSD throw.
truncations(amount) == {0, amount \div 2, amount}

\* increaseAmountByMinimumNetDebt, for a redemption that was truncated.
increasedAmounts(amount, truncated) ==
    {truncated} \cup (IF truncated < amount THEN {truncated + LUSD_MINIMUM_NET_DEBT} ELSE {})

redeemLUSD(c, at, amount) == redeemCollateralAccepted(c, amount, maxRedemptionRate(at, amount))

\* The user calls a method; a store must have been loaded.
request(kind) ==
    /\ connection.phase = "connected" /\ tx.phase = "none"
    /\ useStore => store.loaded
    /\ tx' = [phase |-> "requested", kind |-> kind, since |-> Len(blocks), at |-> store.at]
    /\ UNCHANGED <<chainVars, store, polling>>

requestTroveChange == request("trove")
requestPoolOperation == request("pool")
requestRedemption == request("redemption")
requestTransfer == request("transfer")
requestStake == request("stake")

\* Reads from the store are those it had at the time; without a store, calls
\* are answered up to now.
storeReads == {tx.at}
callReads == readsSince(tx.since)
reads == IF useStore THEN storeReads ELSE callReads

populated(at, t, p, limit) ==
    [phase |-> "populated", at |-> at, op |-> t.op, params |-> p, limit |-> limit,
     work |-> t.work, gas |-> workOf(t, latest) \cup t.headroom]

redemption == [op |-> "redeemLUSD", work |-> "baseRateUpdate", headroom |-> {"baseRateUpdate"}]
borrowingWork(p) == IF p.borrowLUSD > 0 THEN "baseRateUpdate" ELSE "none"
borrowingHeadroom(p) ==
    IF p.borrowLUSD > 0 THEN {"baseRateUpdate", "listTraversal"} ELSE {"listTraversal"}

populateTroveChange(at) ==
    \E p \in TroveRequests :
       /\ troveTransaction(latest, at, p)
       /\ LET op == IF isEmpty(blocks[at.state].trove) THEN "openTrove" ELSE "adjustTrove"
          IN  tx' = populated(at, [op |-> op, work |-> borrowingWork(p), headroom |-> borrowingHeadroom(p)],
                              p, IF p.borrowLUSD > 0 THEN maxBorrowingRate(at) ELSE 0)

populateRedemption(at) ==
    \E attempted \in Redemptions : \E truncated \in truncations(attempted) :
    \E amount \in increasedAmounts(attempted, truncated) :
       /\ truncated > 0
       /\ redeemLUSD(latest, at, amount)
       /\ tx' = populated(at, redemption, amount, maxRedemptionRate(at, amount))

populateSimple(at, transactions) == \E t \in transactions : tx' = populated(at, t, NoParams, 0)

populate ==
    /\ tx.phase = "requested" /\ _requireAddress
    /\ \E at \in reads :
         \/ tx.kind = "trove" /\ populateTroveChange(at)
         \/ tx.kind = "redemption" /\ populateRedemption(at)
         \/ tx.kind = "pool" /\ populateSimple(at, poolTransactions)
         \/ tx.kind = "transfer" /\ populateSimple(at, transferTransactions)
         \/ tx.kind = "stake" /\ populateSimple(at, stakeTransactions)
    /\ UNCHANGED <<chainVars, store, polling>>

\* The client throws, or the user declines to sign.
abandon ==
    /\ tx.phase \in {"requested", "populated"}
    /\ tx' = Settled
    /\ UNCHANGED <<chainVars, store, polling>>

send ==
    /\ tx.phase = "populated" /\ _requireSigner
    /\ tx' = [tx EXCEPT !.phase = "sent"]
    /\ UNCHANGED <<chainVars, store, polling>>

\* The wallet replaces the transaction by another one.  (One with a new price
\* only is the same transaction here.)
replace ==
    /\ tx.phase = "sent"
    /\ tx' = [phase |-> "replaced"]
    /\ UNCHANGED <<chainVars, store, polling>>

\* waitForReceipt and waitForSuccess: the promise is fulfilled or rejected.
settle ==
    /\ tx.phase \in {"succeeded", "failed", "replaced"}
    /\ tx' = Settled
    /\ UNCHANGED <<chainVars, store, polling>>

--------------------------------------------------------------------------------
(***************************************************************************)
(* The chain, from the connection on.  A block comes some seconds after    *)
(* the last one and holds at most one transaction of interest.             *)
(***************************************************************************)
moreBlocks ==
    /\ connection.phase = "connected"
    /\ Len(blocks) < CASE ~connection.signer -> MaxReadOnlyBlocks
                       [] connection.signer /\ useStore -> MaxStoreBlocks
                       [] OTHER -> MaxBlocks
nextBlock(seconds) == [latest EXCEPT !.time = @ + seconds, !.event = "none"]

accepted(c) ==
    /\ workOf(tx, c) \subseteq tx.gas
    /\ CASE tx.op = "openTrove" -> openTroveAccepted(c, tx.params, tx.limit)
         [] tx.op = "adjustTrove" -> adjustTroveAccepted(c, tx.params, tx.limit)
         [] tx.op = "redeemLUSD" -> redeemCollateralAccepted(c, tx.params, tx.limit)
         [] OTHER -> TRUE

effect(c) ==
    CASE tx.op = "openTrove" -> withTrove(afterBorrowing(c, tx.params.borrowLUSD), openedTrove(c, tx.params))
      [] tx.op = "adjustTrove" ->
            withTrove(afterBorrowing(c, tx.params.borrowLUSD), adjustedTrove(c, tx.params))
      [] tx.op = "redeemLUSD" -> afterRedemption(c, tx.params)
      [] tx.work = "LQTYIssuance" -> [c EXCEPT !.minutesIssued = c.time \div SECONDS_IN_ONE_MINUTE]
      [] tx.work = "rewardUpdate" -> [c EXCEPT !.rewardTime = c.time]
      [] OTHER -> c

mineTransaction(seconds) ==
    LET c == nextBlock(seconds)
    IN  /\ moreBlocks /\ tx.phase = "sent"
        /\ blocks' = Append(blocks, IF accepted(c) THEN [effect(c) EXCEPT !.event = "user"] ELSE c)
        /\ tx' = [phase |-> IF accepted(c) THEN "succeeded" ELSE "failed"]
        /\ UNCHANGED <<connection, store, polling>>

events == Cardinality({n \in 1..Len(blocks) : blocks[n].event = "others"})

\* What others may do in a block.
others(c) ==
    (IF checkRecoveryMode(c) THEN {} ELSE {decayBaseRateFromBorrowing(c)})
    \cup {afterRedemption(c, amount) :
            amount \in {r \in OtherRedemptions : redeemCollateralAccepted(c, r, DECIMAL_PRECISION)}}
    \cup {[c EXCEPT !.price = p] : p \in OtherPrices \ {c.price}}
    \cup {[c EXCEPT !.minutesIssued = c.time \div SECONDS_IN_ONE_MINUTE, !.rewardTime = c.time]}

mineBlock(seconds) ==
    /\ moreBlocks
    /\ \/ blocks' = Append(blocks, nextBlock(seconds))
       \/ /\ events < MaxEvents
          /\ \E c \in others(nextBlock(seconds)) :
                blocks' = Append(blocks, [c EXCEPT !.event = "others"])
    /\ UNCHANGED <<connection, store, polling, tx>>

StoreAction ==
    \/ startStore \/ stopStore \/ timerFires \/ fetchFails
    \/ \E n \in 1..Len(blocks) : initialFetched(n) \/ blockListener(n) \/ handleBlock(n)
RequestAction ==
    requestTroveChange \/ requestPoolOperation \/ requestRedemption \/ requestTransfer \/ requestStake
TransactionAction == RequestAction \/ populate \/ abandon \/ send \/ replace \/ settle
ChainAction == \E seconds \in Steps : mineTransaction(seconds) \/ mineBlock(seconds)

\* Whenever the client starts, there is a state of the chain.
ClientInit ==
    /\ connection = NoConnection
    /\ \E user \in UserTroves, rate \in InitialRates : blocks = <<Genesis(add(OthersTrove, user), user, rate)>>
    /\ store = [loaded |-> FALSE, blockTag |-> NoBlock, at |-> readAt(1)]
    /\ polling = [started |-> FALSE, latestBlock |-> NoBlock, timer |-> FALSE, initial |-> {},
                  fetches |-> {}, starts |-> 0]
    /\ tx = NoTransaction

Next == ConnectAction \/ StoreAction \/ TransactionAction \/ ChainAction

ClientSpec == ClientInit /\ [][Next]_vars

--------------------------------------------------------------------------------
(***************************************************************************)
(* Properties.                                                             *)
(***************************************************************************)

\* The clock of the base rate neither stops nor runs twice: for every minute of
\* decay applied, it moved on by a minute at least and by less than two,
\* however often fee operations come (_updateLastFeeOpTime: "This prevents base
\* rate griefing").
DecayPaced ==
    \A n \in 1..Len(blocks) :
       LET passed == blocks[n].lastFeeOperationTime
           decayed == SECONDS_IN_ONE_MINUTE * blocks[n].decays
       IN  decayed <= passed /\ (passed > 0 => passed < 2 * decayed)

\* Once a block's fetch was applied, everything in the store is of the block
\* whose tag it shows, whatever fetches and stops overlap.
StoreConsistent ==
    store.loaded /\ store.blockTag # NoBlock => store.at = readAt(store.blockTag)

\* Only time has passed since the reads of the transaction, and no more than
\* the tolerance.
onlyTimePassed(now) ==
    LET first == CHOOSE n \in {tx.at.time, tx.at.fees, tx.at.state} :
                    \A m \in {tx.at.time, tx.at.fees, tx.at.state} : n <= m
    IN  /\ \A n \in (first + 1)..Len(blocks) : blocks[n].event = "none"
        /\ now - blocks[tx.at.time].time <= decayToleranceMinutes * SECONDS_IN_ONE_MINUTE

\* A transaction that was populated and has only been waiting since, within the
\* tolerance, is accepted when mined: its fee limit, the minimum debt and its
\* gas still suffice although the fee decayed in the meantime and a minute
\* passed (borrowingFeeDecayToleranceMinutes: "to ensure that it will still
\* succeed, even if it ends up pending for a relatively long time").
PopulatedAccepted ==
    [][tx.phase = "sent" /\ tx'.phase = "failed" => ~onlyTimePassed(blocks'[Len(blocks')].time)]_vars
================================================================================
