# A verification project for Liquity (Hedgehog fork)

TLA+ models of the smart contracts in `packages/contracts/contracts` and of the
programs around them (client libraries, front end, subgraph, fuzzer, providers,
deployment scripts), TLC instances that check them, and TLAPS proofs about them.
Paths below are relative to the repository unless they name a module.

## 1. The system

Borrowers lock Ether in a *trove* and draw LUSD against it. Troves below 110%
(the MCR) may be liquidated by anyone: their debt is cancelled against LUSD in the
Stability Pool and, when that does not suffice, redistributed over the other
troves. Anyone may redeem LUSD for Ether at face value, from the riskiest troves
first. When the whole system falls below 150% (the CCR) it is in *recovery mode*,
with stricter rules for borrowers and wider ones for liquidators.

| part | state | operations | talks to |
|---|---|---|---|
| `BorrowerOperations.sol` | none of its own | openTrove, addColl, withdrawColl, withdrawLUSD, repayLUSD, adjustTrove, moveETHGainToTrove, closeTrove, claimCollateral | TroveManager, pools, SortedTroves, PriceFeed, LUSDToken, LQTYStaking |
| `TroveManager.sol` | Troves, TroveOwners, rewardSnapshots, totalStakes and snapshots, L_ETH, L_LUSDDebt, rounding errors, baseRate and its clock | liquidate, liquidateTroves, batchLiquidateTroves, redeemCollateral, applyPendingRewards | all pools, SortedTroves, PriceFeed, LUSDToken |
| `ActivePool`, `DefaultPool`, `CollSurplusPool`, `GasPool` | recorded ETH and debt; surplus per borrower; LUSD reserve | moves between them | each other |
| `StabilityPool.sol` | deposits, P, S, G, epoch, scale, front ends | registerFrontEnd, provideToSP, withdrawFromSP, withdrawETHGainToTrove, offset | TroveManager, CommunityIssuance |
| `SortedTroves.sol` | doubly linked list by nominal ratio | insert, reInsert, remove | asks TroveManager for ratios |
| `PriceFeed.sol`, `BTCOracle.sol` | status, lastGoodPrice; rounds | fetchPrice, setAddresses; feedBaseFeeValue, getRoundData, latestRoundData | two oracles, their keepers |
| `LUSDToken.sol`, `LQTY/LQTYToken.sol` | supply, balances, allowances, nonces | transfer, approve, permit; mint, burn, sendToPool, returnFromPool, sendToLQTYStaking | everyone |
| `LQTY/*`, `LPRewards/Unipool.sol` | stakes, fee sums, issuance, reward period | stake, unstake, issueLQTY, withdraw, claimReward | StabilityPool, BorrowerOperations, TroveManager |
| `HintHelpers`, `MultiTroveGetter` | none | views | SortedTroves, TroveManager |
| `lib-base`, `lib-ethers`, `lib-react` | a store of the chain's state; transactions under way | fetch, watch, populate, send, await | the contracts over RPC |
| `providers` | listeners, batches, connections | on, once, call, waitForTransaction | nodes |
| `subgraph`, `lib-subgraph` | entities computed from events | one handler per event; queries | the contracts' events |
| `dev-frontend` | the shared transaction state, views, forms, lists | buttons, effects, callbacks | store, wallet, chain |
| `fuzzer`, `examples` | none | random transactions with an expected outcome; a liquidation bot | lib-ethers, lib-subgraph |
| `contracts/deploy`, `lib-ethers/utils/deploy.ts` | records of deployed contracts; a file of addresses | 22 scripts, run whole or by tag; a task that deploys everything anew | midl or ethers, the contracts |
| `contracts/macroModel` | a simulated market | one period after the other | |

What is hard about it. On the chain nothing runs in parallel, but transactions of
mutually unknown users come in any order; values computed for one state (hints,
rates, previous rounds, snapshots) are used in another; liquidations and
redemptions are loops that write storage trove by trove and settle the pools only
at the end, and a failure anywhere undoes all of it; oracle reads fail one by one;
every share is rounded. Off the chain everything is asynchronous: reads, receipts,
renders, timers and events arrive late, out of order or never, and connections and
whole runs are cut off. `hazards` in `PROJECT.json` lists these points at their
lines, with the properties that watch them.

## 2. Modules

| module | models | instance |
|---|---|---|
| `PriceFeed` | the rounds of a BTCOracle; the five-state feed between two of them, keepers and blocks | `MCPriceAndOrder`, `MCPriceFeed` |
| `SortedList`, `SortedTroves` | abstract: a sequence changed by bracketed insertions and removals; the pointers, hints and search loops that implement it | `MCPriceAndOrder` |
| `Hints` | the hints lib-ethers computes with HintHelpers, over `SortedTroves` | `MCPriceAndOrder` |
| `LiquityBase`, `TroveManager`, `BorrowerOperations`, `Liquity` | constants and arithmetic; storage, liquidations, redemptions; what borrowers do; the composition with depositors, transfers and prices | `MCLiquity`, `MCSubgraph` |
| `LibBase` | lib-base's own arithmetic of troves, fees and redistributions | `MCLiquity`, `MCSubgraph`, `MCClient` |
| `TroveEditing` | the forms for a trove: validation, parameters, prediction, over `Liquity` | `MCLiquity` |
| `Fuzzer` | what the fuzzer draws, expects to fail and funds, over `TroveEditing` | `MCLiquity` |
| `Subgraph` | the events of `Liquity` and the handlers that index them | `MCSubgraph` |
| `TroveListing` | readers of troves from both sources, the table of risky troves, the bot, over `Subgraph` | `MCSubgraph` |
| `StabilityPool` | CommunityIssuance's issuance over time; deposits and front ends with P, S, G, epochs and scales | `MCLQTY` |
| `LQTY` | LQTYStaking's fee shares; the Unipool's reward period; the LQTY between them and the subgraph's stakes | `MCLQTY` |
| `Tokens` | LUSDToken and LQTYToken with allowances, permits and lockup | `MCLQTY` |
| `BaseRate`, `EthersLiquity` | the base rate's clock and fees; the connection, store, populating, sending and mining of transactions | `MCClient` |
| `Observable` | the watch methods of ObservableEthersLiquity | `MCClient` |
| `Decimals` | Decimal and Percent from and to text | `MCClient` |
| `TransactionState`, `Panels`, `Frontend` | the shared transaction state and its monitor; the trove, stability and staking panels; the pages with store, chain and React's commits, and the table of risky troves with its paging and reloading | `MCFrontend` |
| `Bonds` | BondViewProvider: views, synchronisation, approvals, transactions, panes | `MCFrontend` |
| `WebSocketAugmented`, `BatchedProvider` | the two-transport provider; both batching providers | `MCInfrastructure` |
| `Deployment` | hardhat deploy, and lib-ethers' deploy task, cut off and repeated | `MCInfrastructure` |
| `MacroModel` | the simulation of the LUSD market | `MCInfrastructure` |
| `PriceFeedProofs`, `SortedTrovesProofs`, `LiquityProofs`, `LiquityPoolProofs`, `LQTYProofs`, `FrontendProofs`, `InfrastructureProofs` | theorems; the last has the providers, the client and the watchers | |
| `Sums` | facts about sums over finite sets, for the proofs about pools | |

**PriceFeed.** `fetchPrice(reverts)` is one call in which the reads in `reverts`
revert. Each branch of the Solidity function is a disjunct whose guard is the
negation of the earlier returns. The previous round number wraps below zero as
`uint256` does (`Word`). The keepers feed any answer of `Answers`.

**SortedTroves.** `insert` and `reInsert` take any two addresses as hints, removed
nodes and `Null` included. The loops take one step per iteration, so that
termination is a property. `ChangeNICR` changes ratios of listed nodes between
operations. `Abstract` maps the walk from `head` to the sequence of `SortedList`.
`Hints` adds what a client would have computed in the same state.

**Liquity.** Operations of `BorrowerOperations` are one step. `liquidateTroves`,
`batchLiquidateTroves` (`liquidate` is a batch of one) and `redeemCollateral` start a
transaction, take one step per trove and end with one that settles the pools
or undoes everything from the copy in `saved` (`Revert`). No other transaction runs
meanwhile (`idle`). `sortedTroves` is here the sequence of `SortedList`: an insertion
takes any position valid for the ratio, which is what `SortedTroves` is proved to do.
A failing requirement of a single-step operation is a guard. Abstractions: `price` is
a variable that changes between transactions; users' LUSD is one account, which
enables every operation that separate balances do; depositors appear by the totals
of the Stability Pool (whoever acts owns any part of it); the base rate decays by any
factor in `DecayFactors`; the caller's fee limits only make a transaction fail
(`RedemptionFails`); the hint of a partial redemption is right (`RedeemPartly`) or out
of date (`CancelPartial`); `LUSD_GAS_COMPENSATION` and `MIN_NET_DEBT` are constants.

**Subgraph** wraps every action of `Liquity` with the events it emits, in the order of
the Solidity code; the handlers run when the transaction ends, and a transaction
that is undone takes its events with it. `TroveListing` reads the contracts (two walks
of MultiTroveGetter, pages) and the index and compares. A list from the subgraph is in the
order of the sort keys, in the direction the query asks for; equal keys come in any order,
so that a query has a set of answers.

**TroveEditing** and **Fuzzer** have no state: in every state of `Liquity` they say what
the client would validate, predict or expect, and the properties compare that with the
guards and effects of the contract. lib-base's reserve of 0.1 LUSD differs from the
contract's 0.5, so `LUSD_LIQUIDATION_RESERVE` is a constant of its own (finding 4).

**StabilityPool** has two depositors, a front end, and inputs for what liquidations
offset. `SCALE_FACTOR` and `DECIMAL_PRECISION` are small, so that a few offsets cross
scales and epochs. `issueLQTY` subtracts what was issued from what is due, which the
curve must not let fall: `IssuanceCurveAssumption` says it does not. It was computed for
the code's factor over a hundred years, because `decPow` rounds to the nearest. The LQTY
of the Unipool is taken to be there at the start.

**Tokens.** Every function of both tokens, called by anybody; a refusal is a guard.
Users sign permits for nonces that are or will be due, anybody hands them in, time
passes and the chain may split. LQTYToken's comments say that in the first year the
multisig may transfer to registered lockups; the address of the factory it asks is never
set, so that the model, like the code, refuses every such transfer (finding 5).

**Observable.** An operation has the events it emits and the quantities it changes. A
StabilityDeposit has two parts: the deposit with its gain, and the LQTY reward, which every
operation of the StabilityPool raises for every depositor.

**EthersLiquity.** `connection` is what the client was given (a signer, a provider, the
chain it is on) and what `_connectByChainId` made of it: without an address or a signer
reads and transactions are refused, and a store is only there when asked for. `blocks` is the chain as a sequence of states, `store` and `polling` what
BlockPolledLiquityStore holds, `tx` one transaction from population to its receipt. A
read is the number of the block it saw. Gas is modelled by the work that is only due
when time has passed (a decay, an issuance, a reward update), for which the client
adds headroom.

**Frontend.** `slot` is the transaction state set last, `monitored` the one of React's last
commit; `commit` draws, runs effects and cleanups. What the wallet, the chain, other
users and the store do happens in between, in any order. The hooks for midl leave out what
was not signed and send the rest; with nothing to send they wait without a hash, which is a
state with `n` 0. `broadcasting` has the liquidations whose Bitcoin transaction
is broadcast after the wait has begun, and may fail then. One of the three panels is
mounted (`panel`); Stability and Staking are not reachable from today's pages and are
modelled as their components are written.

**WebSocketAugmented.** Blocks, lagging nodes, a WebSocket that breaks, its reopening, and
three listeners (`on`, `once`, `waitForTransaction`). **BatchedProvider**: calls, timers
and batches, for both classes. **Deployment**: `records` is what midl has on record,
`deployed` what is on the chain; a run is cut off between any two steps. The deploy task
of lib-ethers has its own state (`task`, `account`, `mined`, `file`): it sends the calls
that connect the contracts all at once, with consecutive nonces, so that some may be
mined after the run that sent them has failed. `sendNext` lets a deployment succeed;
`deploy.ts:35` calls `.midl.deploy` on a factory, a member that ethers 5.7.2 does not have, so
that without an extension of ethers the task throws at its first deployment: the model
allows more than such a build does.

MC modules that hold several parts (`MCPriceAndOrder`, `MCClient`, `MCFrontend`, `MCInfrastructure`, `MCLQTY`)
have a variable `part` that says which one moves: the parts share no state, so that
their interleavings would show nothing.

## 3. Runs

| run | what it asks | result |
|---|---|---|
| `price_and_order` | the feed with failing reads, stale and bad rounds; the list under all hints and changing ratios, its refinement and termination, the client's hints | holds, 0.20 million states |
| `pricefeed_deviation` | may a round that deviates from the one before be stored? | yes, finding 1 |
| `liquity_liquidation` | liquidations with borrowing, redemptions, deposits and price moves; subgraph and readers | holds, 0.67 million |
| `liquity_redemption` | redemptions with adjustments, fees, liquidations, gifts to the GasPool; client arithmetic and fuzzer | holds, 0.70 million |
| `liquity_rewards` | does `hasPendingRewards` notice all pending rewards? | no, finding 2 |
| `liquity_order` | do redistributions preserve the order of the list? | not exactly, finding 3 |
| `troves_validated` | does the contract accept what the front end validates? | no, finding 4 |
| `lqty` | deposits over epochs and scales, issuance, staking, Unipool, tokens | holds, 2.7 million |
| `lqty_vesting` | may the multisig send LQTY to a registered lockup in the first year? | no, finding 5 |
| `client` | connections, the base rate's clock, store, watchers, populated transactions, decimals | holds, 3.2 million |
| `frontend` | panels, transactions, table and bonds under all interleavings | holds, 1.9 million |
| `infrastructure` | providers, both deployments, macro model | holds, 1.9 million |

The properties are stated in comments at their definitions. In short:

- `StoredPriceFresh`: no path of `fetchPrice` stores a zero, negative or stale price
  (`PriceProvenance`, that it is one an oracle reported, is proved and in no run). `ReturnToMainNeedsAgreement`: the main oracle is trusted again only
  when a fresh backup agrees. `Recovery`: no status is a trap.
- `DoublyLinked`, `SortedPreserved`, `SearchEnds`, `ImplementsSortedList`: whatever the hints,
  no node is lost, searches end, and the pointers behave as an abstract list.
  `HintsExact`: hints computed in the same state need no search.
- `SupplyBacked`: supply = debt in the two pools = sum of balances, in every
  intermediate state. `PoolsCover`: pools and troves agree, and pending rewards, surpluses
  and gas compensations can be paid. `TrackedStateAgrees`: owners, indexes and list agree,
  and the totals a liquidation keeps for its mode checks are those the system will have.
  `LiquidationNeverStuck`: a liquidation that decides for a trove can close it, and one
  that liquidated anything can settle.
- `RedemptionInOrder`: the loop is at the riskiest trove above the MCR and can take its
  lot. `NormalModeKept`, `RecoveryTCRKept`: what borrowers cannot do to the others.
- `AdjustmentPredicted`: lib-base computes the very trove the contract stores.
  `FuzzerExpectations`: what the fuzzer expects to fail fails, and its funder gets her LUSD.
- `IndexMatchesSystem`, `ReadsAgree`, `LiquidationsOffered`: the subgraph follows the
  contracts; both sources agree on every trove and total, the contracts' list and the pools
  pass the fuzzer's checks, and the subgraph's list is that of the contracts in exactly the
  opposite order, so that the fuzzer's check of that order fails; the table and the bot
  offer what a liquidation takes.
- `ExcessBounded`: what all deposits have become exceeds the pool by no more than the
  largest error correction. `OthersNeverTake`: nobody else's step lowers a depositor's
  gains. `StakingSolvent`, `RewardPeriodKept`: fees and rewards can be paid, and the reward
  period runs exactly while somebody stakes. `StakesIndexed`: the subgraph knows the stakes.
  `OnlyAuthorised`: nothing leaves an address without its owner's leave; in the first year
  what leaves the multisig goes to a registered lockup, and nothing leaves a lockup before
  its time. It does not depend on the factory never being set.
- `DecayPaced`: the base rate's clock neither stops nor runs twice. `PopulatedAccepted`: a
  transaction that only waited is accepted. `StoreConsistent`: the store is of one block.
  `ChangesReported`: the watchers miss no change of what they listen for. `DisplayFaithful`: text and Decimal agree.
- `ViewCurrent`: a panel is about the position as it is. `TransactionsFollowed`: what waits for
  approval or with a hash is watched, and only what was watched is confirmed. `AnswersCurrent`: no late answer
  stays on the screen. `BondsCatchUp`: the list of bonds becomes that of the chain.
- `OnceDeliversOnce`, `WaitReturns`, `CallsAnswered`, `CompleteRunWires`,
  `SimulationBalances`: as their comments say.

**Bounds.** `PriceFeed`: 3 blocks with `TIMEOUT` 1 make an oracle fresh, at the limit and
frozen; 3 main and 2 backup rounds give each a previous one; the answers are a bad one,
two that agree within 5%, of which the main oracle reports one, and one that deviates. `SortedTroves`: four nodes of which
three fit, so the list gets full and has a middle; three ratios allow ties. `Liquity` and
`Subgraph`: three borrowers (first, last and one between), seven transactions: enough to
open three troves, deposit, move the price, liquidate and act again. The fixed-point
one is 200 so that 0.5% is one unit and divisions round visibly. Prices 200, 120 and 90
put the same trove above, between and below the two ratios; two sizes of collateral
against one loan give troves of different risk. The redeemed amount closes one trove
and reaches the next. Arrays of two may name a trove twice. `tinyDifference` is 8: L is rounded to 1/200 per unit of stake and there are
at most 1400 units. `StabilityPool`: seven operations, `SCALE_FACTOR` 20, three scales and one
new epoch. `LQTY`: two users, seven operations, five units of time against a period of
three. `Tokens`: two holders, of which one is the multisig, four operations, one permit, a
year of one unit. `EthersLiquity`: four blocks one or four seconds apart with a minute of
three seconds, three with a store, two with a connection that cannot send
(`MaxReadOnlyBlocks`); a tolerance of two minutes; one chain with a deployment and one
without; the user's trove, the others' and the base rate at the start are constants. `Frontend`: two of the user's transactions and
others' changes together, so that one meets another. `Bonds`: two bonds, two activities.
The table: two troves on pages of one. `WebSocketAugmented`: four blocks, two
connections. `BatchedProvider`: three calls, of which one target reverts, for an unnamed,
the latest and an old block. `Deployment`: three runs of the scripts; two of the
task, with one transaction that reverts. `MacroModel`: two periods, three troves.
Borrowers, depositors and users are symmetric where a cfg says SYMMETRY; those runs
check no liveness. TLC explores all inputs within the bounds; the proofs have no bounds.

**Deadlock** is not checked: within their bounds on blocks, rounds, transactions or
events the systems rightly stop, and nobody is obliged to act. Where something has begun
and must go on, a property says so: `SearchEnds`, `LiquidationNeverStuck`, `WaitReturns`,
`BondsCatchUp`.

**Fairness.** `PriceFeed`: weak fairness of `fetchPrice({})`, since every operation of the
protocol calls it and anybody may; nothing is assumed of the keepers, `Recovery` has
their agreement as its premise. `SortedTroves`: a transaction in progress goes on (the
EVM runs it to its end), none has to start. `Bonds`: reads of the synchronisation are
answered or fail, its interval timer fires, React commits, and a transaction that was
sent ends one way or the other; the user has to do nothing. `WebSocketAugmented`: blocks
are mined and told of, lagging nodes catch up, timers fire, requests are answered, a
connection attempt opens or fails; one that is open may break at any time and may as well
stay open for ever, so that `WaitReturns` is checked on both transports. The other specifications state no fairness and their
properties are safety properties.

**Limits of what holds.** `DefaultPoolCoversDebt` (in `PoolsCover`) is checked for amounts
where a redistributed collateral is not dust relative to the stakes; otherwise finding 2
lets a later stake update multiply unapplied debt. The theorem `PoolsCoverAll` names that
premise; `DefaultPoolCoversETH` and the rest need none (`PoolsCoveredInETH`).
`RedemptionInOrder` holds where redistributions leave the list sorted: below a hint the
contract looks at one trove, and finding 3 can put a riskier one under it. `RecoveryTCRKept` allows one unit of
the last digit, because `_requireValidAdjustmentInCurrentMode` compares two ratios that
are both rounded down. `AdjustmentPredicted` leaves out the troves of finding 2.
`LiquidationsOffered` leaves out the last trove of the system, which the table offers and
no liquidation takes. `ChangesReported` leaves out `watchTotal` and `watchNumberOfTroves`,
which listen to TroveManager only, reads that fail, which are not retried, and the LQTY
reward of a StabilityDeposit: other depositors' operations raise it and
`watchStabilityDeposit` hears of none of them. `WaitingWatched` leaves out
`useLiquidateUpTo`, whose state stays at waitingForApproval, and a wait without a hash.
No property would fail if a list took more than `maxSize` nodes: that is in the
theorem `TypeCorrect` of SortedTrovesProofs. An underflow of the StabilityPool's error
subtraction is a step that the model cannot take.
In the part about troves `ViewCurrent` leaves out those of which `raced` holds:
`dispatchEvent` steps from the view that is drawn, so a button pressed while the view of an
ended trove is on its way, or a claim of surplus confirmed just then, may bring back the
view of an open one. The second was met in the proof: with two openings, a claim and two
liquidations it needs more activities than the run has.

## 4. Findings

1. `PriceFeed.sol:110` says that neither oracle may deviate by more than 12.5% between
   consecutive blocks. `fetchPrice` compares with the previous round only in some of its
   branches (with 17.6%): it stores the backup's latest round without a comparison
   when the main oracle is broken or frozen, and the main one's when it returns to it.
2. `TroveManager.sol:1402`: `hasPendingRewards` looks at the collateral part only. When
   the collateral per unit staked rounds to zero, pending debt goes unnoticed.
3. README.md:479 and 1308 rely on redistributions preserving the order of troves; the
   floor divisions at `TroveManager.sol:1371` and `1387` break it for nearly equal ratios.
   (`SortedPreserved` and the theorem on `PositionValid` show the list copes with it.)
4. `lib-base/src/constants.ts:22` reserves 0.1 LUSD for the liquidator where the contract
   reserves 0.5, so that a trove can pass `validateTroveChange` and be rejected.
5. `LQTYToken.sol:98`: `lockupContractFactory` is never assigned, so that in the first year
   every transfer by the multisig reverts. The comments at `LQTYToken.sol:29` and `40-41` and
   the test `DuringLockupPeriodTest.js:434` have it transfer to registered lockup contracts.

Met while modelling, and not runs of their own (the first is part of what `ReadsAgree`
shows, the second a state the model of `TransactionsFollowed` reaches):

- *Order of the subgraph's list.* `SubgraphLiquity.ts:304` asks for descending sort keys when
  descending collateral ratios are wanted, but the key (`subgraph/src/entities/Trove.ts:147`,
  debt per stake less the redistributed debt) falls when the ratio rises. The list is the
  wrong way round, `first` and `startingAt` cut off the wrong end, and the fuzzer's check
  (`fuzzer/src/utils.ts:255-259`, "subgraph sorting broken") throws once two troves differ.
- *Waiting without a hash.* `useAdjustTrove.ts:124` (`useOpenTrove`, `useCloseTrove` and,
  without a wallet client, `useLiquidate` alike): when no intention could be signed the state
  waits with an undefined hash, where its type (`Transaction.tsx:51`) has a string;
  `Transaction.tsx:385` then watches nothing, and only another transaction or another
  provider of the store ends the wait.
- *Contracts.* README.md:409 says frozen means 4 hours, the code 69 blocks; README.md:229
  has no redemptions for 14 days, `BOOTSTRAP_PERIOD` is 0 days; the known issue of
  README.md:1686 is gone (`TrackedTotalsExact` confirms it). The comments of
  StabilityPool say that rounding favours the pool; its error correction lets the
  deposits exceed it slightly (`ExcessBounded`). Deploy script 018 gives the multisig as bounty and as
  LP rewards address, so that the Unipool holds no LQTY after deployment.
- *Subgraph.* `updatePrice` does not recompute the stored total collateral ratio.
- *Client.* Fetches that overlap may put the store back to an older block (it stays
  consistent); a stopped store does not cancel its fetches; a watched StabilityDeposit is not
  read again when others' operations raise its LQTY reward (`StabilityPool.sol:341`, `386`, `431`); failed reads are not
  retried; digits beyond the 18th are cut before a positive exponent is applied.
- *Fuzzer.* The converse of `FuzzerExpectations` fails: some transactions it expects to
  succeed are rejected (closing below the CCR, repayments below the MCR, the reserve).
- *Front end.* A signing failure is swallowed, so that a transaction whose main part was
  not signed can be reported as confirmed; TransactionMidl does not count
  waitingForConfirmationMidl as waiting; a second adjustment replaces the first in the
  shared state; a failed read of troves leaves the overlay; `BondViewProvider.tsx:251-269`
  writes the answer about bLUSD into the flag for LUSD; a failed read of bonds is shown as
  no bonds until the next interval.
- *Providers.* A batch fails as a whole when one call reverts; calls less than the delay
  apart postpone it; the mixin batches calls that name a sender.
- *Deployment.* A full run after 019_1 fails at feedBaseFeeValue, which rejects a block it
  has seen, so that recovery needs a tagged run; 019_2 depends on tags no script has.
- *Macro model.* The liquidity pool is recorded before redemptions; liquidated debt is not
  taken out of the stability pool.

## 5. Proofs

Checked by TLAPS for all values of the constants, under the assumptions that the
modules declare: types of the inputs, positive prices, precision and periods, answers
that fit a word, finite sets of users, `SCALE_FACTOR` the root of the precision as in the
code, and the issuance curve of section 2. TLC evaluates them on its instances.

**PriceFeedProofs** (`TypeCorrect`, `FreshOnly`, `Provenance`, `ReturnNeedsAgreement`). `TypeOK` is
inductive because it carries that round *i* is numbered *i* and written in a mined block;
a stored price is then traced, case by case of `fetchPrice`, to a response that is neither
broken nor frozen. For the return to the main oracle the quotient that
`bothOraclesSimilarPrice` compares is turned into a product of the prices.

**SortedTrovesProofs** (`TypeCorrect`, `ListIntact`, `SearchFindsPosition`, `OrderPreserved`,
`Refinement`). The
inductive invariant is `TypeOK /\ DoublyLinked /\ SearchOK`. `SearchOK` is what the loops
keep: the end of the walk that faces the new node bounds its ratio from the right side.
Without it nothing excludes that a walk runs off the list, which `_insert` would take for
an empty list. `DoublyLinked` is proved by exhibiting the new sequence after each link.
`Refinement` is `Spec => ImplementsSortedList`. The mapping is a recursive function, the walk
from `head`; that it has a solution, and that it yields the sequence the pointers spell, is
shown from the least index at which it would not. Each link is then the abstract `InsertAt`
and each unlink `RemoveAt` on that sequence, and every other step leaves it as it is.

**LiquityProofs** (`TypeCorrect`, `SupplyAlwaysBacked`, `NormalMode`, `LastTrove`, `TrackedState`). `IInv`
joins the types, `SnapshotsBehind` (no snapshot is ahead of L, so pending rewards are not
negative), `SupplyBacked`, `InProgress` (one transaction at a time) and `SavedOK` (what a
failing transaction returns to satisfies all this too, and had no fewer owners).
`SupplyBacked` needs the types since subtractions are only meaningful on naturals, and the
types need `SupplyBacked` for a repayment not to exceed a balance. `TrackedState` adds `OInv`:
array, indexes and list name the active troves once each, now and in what is saved.

**LiquityPoolProofs** (`PoolsInvariance`, `PoolsCoveredInETH`, `PoolsCoverAll`, `MinimumDebtKept`,
`RecoveryTCR`). In the middle of a liquidation the troves are closed and the pools not yet
settled, so `PInv` says what pool and troves differ by: the totals of the liquidation or
redemption (`Held`, `Transit`). For pending rewards it sums stake times the distance of L
from the snapshot, before the division, and bounds that by the DefaultPool and the
carried error; the rounded rewards are then covered whatever is rounded. Closed troves
have no stake (`Cleared`), and the saved state satisfies the same (`SavedHeld`), because a
revert returns to it. For the debt, `SInv` says that a snapshot equal to L in ETH is equal
in debt: it is what finding 2 breaks, so `PoolsCoverAll` has `RedistributionMovesBoth` as a
hypothesis, which every behaviour without such a redistribution satisfies. `MInv` is the
minimum debt, needed for `RecoveryTCR`: a trove and the rest of the system are compared
before and after as products, and the last digit is what two floors may lose.

**Sums.** Totals are folds over finite sets, which the provers cannot unfold. The lemmas
are proved by taking a smallest subset for which one fails: inclusion is well-founded on
the subsets of a finite set. What follows is what the proofs use: a sum changes by what
one entry changes by, is monotonic, and distributes over addition.

**LQTYProofs** (`StakingStaysSolvent`, `RewardPeriodStays`, `StakesStayIndexed`, `NobodyTakes`,
`ExcessStaysBounded`, `NothingUnauthorised`). `StakesInv` and `UnipoolInv` count what is owed in units of
1 / `DECIMAL_PRECISION`, where nothing is rounded; `UnipoolInv` adds the rewards of the rest
of the period, and the time that is left, which stands still while nobody stakes. `PoolInv`
says that no snapshot of a deposit is ahead of the pool in epoch or scale and that P and
the issued LQTY only move one way; a gain is then monotonic through each case of an
offset (same scale, next scale, new epoch). For `ExcessStaysBounded` the compounded deposits
are rounded in too many places to be summed as they are. `ExcessInv` instead gives every
deposit a share, a natural number over one common denominator: a share is at least what
the deposit is worth, and the sum of shares is at most the pool and the largest error less
the one now carried (`SharesCover`). An offset scales all shares alike, and what it rounds up
is what `lastError.LUSDLoss` records. For the tokens `TokensType` is enough, with one
lemma per function of what it may change (`Authorised`); that LQTY leaves the multisig for
registered lockups only comes from the guard of `transfer`, whatever the factory's address.

**FrontendProofs** (`NoLateAnswer`, `OneStateForAll`, `DrawnAsShown`). They are about
`FrontendSpec`, the three parts of the pages with all their steps; the run's specification, in
which one part moves, is a restriction of it (`RunsAreFrontend`). `TableInv`: unless a reload is
due, a read that is still mounted, and the rows when nothing is loading, are for what the
effects last ran for. `EstimateInv`: an estimate that is not cancelled was asked for with the
amount in the form. `ApprovalInv`: an allowance that was read, or whose approval was mined, is
on the chain, where none is taken back. `FlowInv`: a state that waits, unless without a hash,
names a transaction that was started, one that awaits a receipt a transaction that was sent; what is watched is
what the last drawn state awaits. So a transaction just sent cannot be the one drawn
already, which is why the next commit watches it. `FormInv`: a form on the page was made from
the amount the store shows; a stake's form may be older while another view is on its way.
`TroveInv`: the views of an open trove are set only while the position of the last commit is
open; it needs that a trove that existed is never `nonExistent` again, for which the
provider has no event.

**InfrastructureProofs** (`DeliveredOnce`, `BatchingUnnoticed`, `DecayIsPaced`, `StoreStaysConsistent`,
`NoChangeMissed`, `CompleteRunsWire`). `DeliveriesInv`: a registered listener has one delivery left, so that
deliveries made and left never exceed registrations. `BatchInv`: the calls of every batch,
open or dispatched, were made for the batch's block. `BlocksInv`: the base rate's clock is
never ahead of its block, without which the minutes that passed might be negative; whole
minutes then give both bounds. `StoreInv`: what the store holds is a triple of reads of one
block. `ObservableInv`: every change since the watch began is reported or on its way, which
rests on `ChangesEmitted`, that each operation that changes a part of what is watched, the
LQTY reward apart, emits an event the watch listens to.
`ChainInv` and `RunInv`, for the deployment scripts: an instance knows only what it was
constructed with, or exactly what is on record, which stays; so a contract that a script
passes over because it has no owner is set up as it should be, whichever run did it, and the
scripts behind a run have done their part. `TaskInv`, for lib-ethers' task: what is left to
do is the end of the plan, and all before it was mined for this run, not for an earlier one.
What a plan or a queue holds is proved element by element; that the recursive definition of
`setUpCalls` has a solution and lists what it should, from the least index at which it fails.

Proved for every instance and therefore in no run: the type invariants, `PositionValid`,
`PriceProvenance`, `MinimumDebt` and `LastTroveStays`.

Only model-checked:

- `Recovery`, `SearchEnds`, `BondsCatchUp`, `WaitReturns`: liveness under fairness;
- `FuzzerExpectations`: it speaks of ENABLED;
- `Hints`, which walks the list with a RECURSIVE operator; `DisplayFaithful`, which is about
  digits;
- `RedemptionInOrder` and `LiquidationNeverStuck`: not true for all constants. The first needs
  a sorted list (finding 3), the second stakes that do not all round to zero;
- `PopulatedAccepted` and `AdjustmentPredicted`, which compare rounded powers and ratios;
- `SimulationBalances`: sums over sequences that are sorted, filtered and cut, that is
  induction over data;
- `IndexMatchesSystem`, `ReadsAgree` and `LiquidationsOffered`: the index is a fold of the
  handlers over the events of a whole transaction, so that an inductive invariant has to say
  for every prefix of a liquidation's events what the fold has made of the index.

## 6. Not modelled, and the plan

`PROJECT.json` lists every part with its status and what is left out of it. Not modelled:

- interfaces, generated ABIs, vendored and third-party code (`console`, Tellor,
  OpenZeppelin, `.yalc`), test contracts, tests, gas measurements and one-off scripts;
- older deployment code (`deploymentHelpers.js`, `mainnetDeploymentHelpers.js`), which
  only tests or nothing calls;
- the Proxy scripts: stateless sequences of modelled operations in one transaction;
- in the client: parsing of logs and receipts' details, watching through
  the subgraph; in the front end: drawing, faucet, simulated prices, treasury figures;
- in the fuzzer: its loop, gas histograms, staking and sweeping; in the macro model: the
  LQTY market and the random paths.

Next, all of it proof:

1. `IndexMatchesSystem`: the index as a function of the storage and the pending events, and
   `ReadsAgree` from it.
2. `LiquidationNeverStuck` for stakes that are not dust, from `PInv` and `TrackedState`.
3. `AdjustmentPredicted`, with bounds for what the client and the contract round.
