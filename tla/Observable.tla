------------------------------- MODULE Observable -------------------------------
(***************************************************************************)
(* ObservableEthersLiquity: a quantity is watched by listening to events   *)
(* of the contracts.  Every event restarts a timer (debounce), and when it *)
(* fires the quantity is read at the highest block an event came from.     *)
(* Calls go through the WebSocketAugmentedProvider, whose nodes may not    *)
(* have that block yet.                                                    *)
(*                                                                         *)
(* A block holds one operation, which emits events and changes quantities; *)
(* of these are kept the ones that are part of what is watched.            *)
(***************************************************************************)
EXTENDS Integers, FiniteSets, Sequences

CONSTANTS
    Watches,            \* quantities a session may watch
    MaxObservedBlocks,  \* bound on the blocks
    MaxReads            \* bound on the reads under way

ASSUME ObservableAssumption ==
    Watches \subseteq {"totalRedistributed", "trove", "numberOfTroves", "total", "stabilityDeposit",
                       "LUSDInStabilityPool", "LUSDBalance"}

VARIABLES
    watch,        \* what is watched
    listening,    \* "no", "yes" or "ended"
    since,        \* the block at which the listeners were attached
    observed,     \* for each block, what of the quantity changed in it
    _seenBlock,   \* the last block the provider heard of
    arriving,     \* blocks whose events have not reached the listener
    debounced,    \* [timer, latestBlock]
    reading,      \* reads under way: [blockTag, retried]
    told, lost    \* the highest block that was reported, or whose read failed

observableVars == <<watch, listening, since, observed, _seenBlock, arriving, debounced, reading, told, lost>>

(***************************************************************************)
(* The operations of the contracts, by the user at the client or by        *)
(* others.  An event is named with its contract and the argument that the  *)
(* filters look at.                                                        *)
(***************************************************************************)
users == {"user", "others"}
ofUser(u, quantity) == IF u = "user" THEN {quantity} ELSE {}

\* A StabilityDeposit is the deposit with its ETH gain, and the LQTY reward.  Every
\* operation of the StabilityPool issues LQTY, which raises the reward of each
\* depositor (_triggerLQTYIssuance).
partsOf(quantity) ==
    IF quantity = "stabilityDeposit" THEN {"depositAndGain", "lqtyReward"} ELSE {quantity}

troveChange(u) ==
    [emits |-> {<<"borrowerOperations", "TroveUpdated", u>>, <<"lusdToken", "Transfer", u>>},
     changes |-> {"total"} \cup ofUser(u, "trove") \cup ofUser(u, "LUSDBalance")]
troveOpenedOrClosed(u) == [troveChange(u) EXCEPT !.changes = @ \cup {"numberOfTroves"}]
collateralChange(u) ==
    [emits |-> {<<"borrowerOperations", "TroveUpdated", u>>}, changes |-> {"total"} \cup ofUser(u, "trove")]

\* Of u's trove, by somebody else; offset, or redistributed.
liquidated(u) ==
    [emits |-> {<<"troveManager", "TroveUpdated", u>>},
     changes |-> {"total", "numberOfTroves"} \cup ofUser(u, "trove")]
offsetLiquidation(u) ==
    [emits |-> liquidated(u).emits \cup {<<"activePool", "EtherSent", "stabilityPool">>,
                                         <<"lusdToken", "Transfer", "stabilityPool">>},
     changes |-> liquidated(u).changes \cup {"depositAndGain", "lqtyReward", "LUSDInStabilityPool"}]
redistribution(u) ==
    [emits |-> liquidated(u).emits \cup {<<"activePool", "EtherSent", "defaultPool">>},
     changes |-> liquidated(u).changes \cup {"totalRedistributed"}]

\* The redeemer u takes from the trove of the other.
redemptionBy(u) ==
    LET redeemed == CHOOSE v \in users : v # u
    IN  [emits |-> {<<"troveManager", "TroveUpdated", redeemed>>, <<"lusdToken", "Transfer", u>>},
         changes |-> {"total"} \cup ofUser(redeemed, "trove") \cup ofUser(u, "LUSDBalance")]
depositChange(u) ==
    [emits |-> {<<"stabilityPool", "UserDepositChanged", u>>, <<"lusdToken", "Transfer", "stabilityPool">>,
                <<"lusdToken", "Transfer", u>>},
     changes |-> {"LUSDInStabilityPool", "lqtyReward"} \cup ofUser(u, "depositAndGain") \cup ofUser(u, "LUSDBalance")]
gainToTrove(u) ==
    [emits |-> collateralChange(u).emits \cup {<<"stabilityPool", "UserDepositChanged", u>>},
     changes |-> collateralChange(u).changes \cup {"lqtyReward"} \cup ofUser(u, "depositAndGain")]
lusdTransfer == [emits |-> {<<"lusdToken", "Transfer", u>> : u \in users}, changes |-> {"LUSDBalance"}]

operationsOf(u) ==
    {troveChange(u), troveOpenedOrClosed(u), collateralChange(u), offsetLiquidation(u), redistribution(u),
     redemptionBy(u), depositChange(u), gainToTrove(u)}
operations == operationsOf("user") \cup operationsOf("others") \cup {lusdTransfer}

(***************************************************************************)
(* What each watch method listens to.                                      *)
(***************************************************************************)
watchTotalRedistributed == {<<"activePool", "EtherSent", "defaultPool">>}
watchTroveWithoutRewards ==
    {<<"troveManager", "TroveUpdated", "user">>, <<"borrowerOperations", "TroveUpdated", "user">>}
watchNumberOfTroves == {<<"troveManager", "TroveUpdated", u>> : u \in users}
watchTotal == {<<"troveManager", "TroveUpdated", u>> : u \in users}
watchStabilityDeposit ==
    {<<"stabilityPool", "UserDepositChanged", "user">>, <<"activePool", "EtherSent", "stabilityPool">>}
watchLUSDInStabilityPool == {<<"lusdToken", "Transfer", "stabilityPool">>}
watchLUSDBalance == {<<"lusdToken", "Transfer", "user">>}

filters ==
    CASE watch = "totalRedistributed" -> watchTotalRedistributed
      [] watch = "trove" -> watchTroveWithoutRewards
      [] watch = "numberOfTroves" -> watchNumberOfTroves
      [] watch = "total" -> watchTotal
      [] watch = "stabilityDeposit" -> watchStabilityDeposit
      [] watch = "LUSDInStabilityPool" -> watchLUSDInStabilityPool
      [] watch = "LUSDBalance" -> watchLUSDBalance

--------------------------------------------------------------------------------
ObservableInit ==
    /\ watch \in Watches
    /\ listening = "no" /\ since = 0 /\ observed = <<>> /\ _seenBlock = 0 /\ arriving = {}
    /\ debounced = [timer |-> FALSE, latestBlock |-> 0]
    /\ reading = {} /\ told = 0 /\ lost = 0

\* Attaching the listeners.
subscribe ==
    /\ listening = "no" /\ listening' = "yes"
    /\ since' = Len(observed)
    /\ UNCHANGED <<watch, observed, _seenBlock, arriving, debounced, reading, told, lost>>

\* What the watch methods return; a timer that runs is not cleared.
unsubscribe ==
    /\ listening = "yes" /\ listening' = "ended"
    /\ arriving' = {}
    /\ UNCHANGED <<watch, since, observed, _seenBlock, debounced, reading, told, lost>>

operationMined(op) ==
    /\ Len(observed) < MaxObservedBlocks
    /\ observed' = Append(observed, op.changes \cap partsOf(watch))
    /\ arriving' = IF listening = "yes" /\ op.emits \cap filters # {} THEN arriving \cup {Len(observed')} ELSE arriving
    /\ UNCHANGED <<watch, listening, since, _seenBlock, debounced, reading, told, lost>>

\* _onBlock; a node that lags may announce an older block.
onBlock(n) ==
    /\ n # _seenBlock /\ _seenBlock' = n
    /\ UNCHANGED <<watch, listening, since, observed, arriving, debounced, reading, told, lost>>

\* Mutated form: the block of the last event.
latestAfter_Last(latestBlock, blockNumber) == blockNumber
latestAfter(latestBlock, blockNumber) == IF blockNumber > latestBlock THEN blockNumber ELSE latestBlock

\* The listener that debounce returns; events arrive in any order.
debounce(n) ==
    /\ n \in arriving /\ arriving' = arriving \ {n}
    /\ debounced' = [timer |-> TRUE, latestBlock |-> latestAfter(debounced.latestBlock, n)]
    /\ UNCHANGED <<watch, listening, since, observed, _seenBlock, reading, told, lost>>

\* call: a read of the block that was seen last is retried as long as it is.
callAt(blockTag) ==
    reading' = reading \cup {[blockTag |-> blockTag, retried |-> blockTag = _seenBlock]}

debounceElapsed ==
    /\ debounced.timer /\ Cardinality(reading) < MaxReads
    /\ debounced' = [debounced EXCEPT !.timer = FALSE]
    /\ callAt(debounced.latestBlock)
    /\ UNCHANGED <<watch, listening, since, observed, _seenBlock, arriving, told, lost>>

later(m, n) == IF m > n THEN m ELSE n

\* Answers may come in any order, the last one not being the newest.
readAnswered(r) ==
    /\ r \in reading /\ reading' = reading \ {r}
    /\ told' = later(told, r.blockTag)
    /\ UNCHANGED <<watch, listening, since, observed, _seenBlock, arriving, debounced, lost>>

\* _retrySeenBlock: a node has not got the header, which only happens to the
\* last block; the error is thrown unless that block is still the last seen.
readRejected(r) ==
    /\ r \in reading /\ r.blockTag = Len(observed)
    /\ ~(r.retried /\ r.blockTag = _seenBlock)
    /\ reading' = reading \ {r}
    /\ lost' = later(lost, r.blockTag)
    /\ UNCHANGED <<watch, listening, since, observed, _seenBlock, arriving, debounced, told>>

ObservableNext ==
    \/ subscribe \/ unsubscribe \/ debounceElapsed
    \/ \E op \in operations : operationMined(op)
    \/ \E n \in 1..Len(observed) : onBlock(n) \/ debounce(n)
    \/ \E r \in reading : readAnswered(r) \/ readRejected(r)

ObservableSpec == ObservableInit /\ [][ObservableNext]_observableVars

--------------------------------------------------------------------------------
changedAt == {n \in since + 1..Len(observed) : observed[n] \ {"lqtyReward"} # {}}

\* The event listeners miss no change of what they watch: when a quantity has
\* changed since it is watched, it was reported as of that block or a later one,
\* or it is going to be, or the read failed.  Left out is what the listeners are
\* not attached to: of a StabilityDeposit the LQTY reward, which others' deposits
\* and withdrawals raise without an event that watchStabilityDeposit hears; and
\* watchTotal and watchNumberOfTroves, which do not hear of BorrowerOperations.
ChangesReported ==
    listening = "yes" /\ watch \notin {"total", "numberOfTroves"} =>
       \A n \in changedAt :
          \/ told >= n \/ lost >= n
          \/ \E m \in arriving : m >= n
          \/ debounced.timer /\ debounced.latestBlock >= n
          \/ \E r \in reading : r.blockTag >= n
================================================================================
