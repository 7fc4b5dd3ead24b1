--------------------------- MODULE WebSocketAugmented ---------------------------
(***************************************************************************)
(* WebSocketAugmentedProvider of the providers package: block events come  *)
(* from a WebSocket while there is one and from the polling provider it    *)
(* augments (the base) otherwise.  A program opens the WebSocket once; it   *)
(* is opened again ten seconds after it broke.  Requests are answered by    *)
(* some node behind a load balancer, which may lag behind the chain.        *)
(*                                                                         *)
(* Three listeners stand for what a program does with blocks: "app" listens *)
(* for blocks, "receipt" for the receipt of a transaction, once, and "wait" *)
(* is the listener waitForTransaction makes in every round of its loop.     *)
(***************************************************************************)
EXTENDS Integers

CONSTANTS
    MaxHeight,       \* the chain's height, this or higher; only lower blocks
                     \* have the transaction
    MaxConnections,  \* bound on how often the WebSocket is opened,
    MaxReceipts,     \* and once() called for the receipt
    MaxAttached      \* a listener is attached so often, or more often

ASSUME WebSocketAssumption ==
    MaxHeight \in Nat /\ MaxConnections \in Nat /\ MaxReceipts \in Nat /\ MaxAttached \in Nat \ {0}

undefined == 0

VARIABLES
    net,        \* [head, lagging, minedAt]: height of the chain and of the
                \* slowest node, block of the transaction (0 if not mined)
    ws,         \* [provider, timer, opened]: _wsProvider, whether a reconnection
                \* is scheduled, how often it was opened
    attached,   \* how often _blockListener is attached to "base" and to "ws"
    blockListeners,  \* keys of _blockListeners
    seenBlock,       \* [block, scheduled]: _seenBlock, _blockListenerScheduled
    receipts,   \* [fetches, called, registered] of the listener "receipt"
    wait        \* [step, latestBlock] of a call of waitForTransaction

wsVars == <<net, ws, attached, blockListeners, seenBlock, receipts, wait>>

WebSocketInit ==
    /\ \E height \in 1..MaxHeight : net = [head |-> height, lagging |-> height, minedAt |-> 0]
    /\ ws = [provider |-> "none", timer |-> FALSE, opened |-> 0]
    /\ attached = [base |-> 0, ws |-> 0]
    /\ blockListeners = {}
    /\ seenBlock = [block |-> 0, scheduled |-> FALSE]
    /\ receipts = [fetches |-> {}, called |-> 0, registered |-> 0]
    /\ wait = [step |-> "none", latestBlock |-> undefined]

--------------------------------------------------------------------------------
(***************************************************************************)
(* Block events.  ethers keeps a listener as often as it was attached, and *)
(* off removes one of them.                                                *)
(***************************************************************************)
attachedOnceMore(n) == IF n = MaxAttached THEN n ELSE n + 1
detached(n) == CASE n = 0 -> {0} [] n = MaxAttached -> {n - 1, n} [] OTHER -> {n - 1}

transport(provider) == IF provider = "none" THEN "base" ELSE "ws"

_startBlockEvents(at, provider) == [at EXCEPT ![transport(provider)] = attachedOnceMore(@)]
_stopBlockEvents(at, provider) ==
    LET t == transport(provider) IN {[at EXCEPT ![t] = n] : n \in detached(at[t])}

\* Off the base when a WebSocket takes over.
_switchover_OnlyForward(at, provider) ==
    IF blockListeners = {} \/ provider = "none" THEN {at}
    ELSE {_startBlockEvents(a, provider) : a \in _stopBlockEvents(at, "none")}
_switchover(at, provider) ==
    IF blockListeners = {} THEN {at}
    ELSE {_startBlockEvents(a, provider) :
             a \in IF provider = "none" THEN {at} ELSE _stopBlockEvents(at, "none")}

connect ==
    /\ ws.opened < MaxConnections
    /\ ws' = [provider |-> "connecting", timer |-> FALSE, opened |-> ws.opened + 1]
    /\ attached' \in _switchover(attached, "connecting")
    /\ UNCHANGED <<net, blockListeners, seenBlock, receipts, wait>>
openWebSocket == ws.opened = 0 /\ connect
reconnectTimer == ws.timer /\ connect

webSocketOpens ==
    /\ ws.provider = "connecting" /\ ws' = [ws EXCEPT !.provider = "open"]
    /\ UNCHANGED <<net, attached, blockListeners, seenBlock, receipts, wait>>

\* A WebSocket takes its listeners with it.  A reconnection that was scheduled
\* is only cleared while there is a WebSocket.
closed(timer) ==
    /\ ws.provider # "none"
    /\ ws' = [ws EXCEPT !.provider = "none", !.timer = timer]
    /\ attached' \in _switchover([attached EXCEPT !.ws = 0], "none")
    /\ UNCHANGED <<net, blockListeners, seenBlock, receipts, wait>>
closeWebSocket == closed(FALSE)
_onWebSocketClose == closed(TRUE)

\* Providers tell of blocks they did not tell of before; the last height stands
\* for all that follow.
_onBlock(n) ==
    /\ attached.base > 0 \/ (ws.provider = "open" /\ attached.ws > 0)
    /\ n # seenBlock.block \/ n = MaxHeight
    /\ seenBlock' = [block |-> n, scheduled |-> TRUE]
    /\ UNCHANGED <<net, ws, attached, blockListeners, receipts, wait>>

\* 50 ms later every listener is called: passOnce takes "wait" out without
\* stopping the events.
listenersCalled ==
    /\ seenBlock.scheduled
    /\ seenBlock' = [seenBlock EXCEPT !.scheduled = FALSE]
    /\ blockListeners' = blockListeners \ {"wait"}
    /\ wait' = IF "wait" \in blockListeners
               THEN [step |-> "fetching", latestBlock |-> seenBlock.block] ELSE wait
    /\ receipts' = IF "receipt" \in blockListeners
                   THEN [receipts EXCEPT !.fetches = @ \cup {seenBlock.block}] ELSE receipts
    /\ UNCHANGED <<net, ws, attached>>

_addBlockListener(key) ==
    /\ blockListeners' = blockListeners \cup {key}
    /\ attached' = IF blockListeners = {} THEN _startBlockEvents(attached, ws.provider) ELSE attached

_removeBlockListener(key) ==
    /\ blockListeners' = blockListeners \ {key}
    /\ attached' \in IF blockListeners = {key} THEN _stopBlockEvents(attached, ws.provider) ELSE {attached}

\* on("block", app), off("block", app) and off(txHash, receipt)
on == _addBlockListener("app") /\ UNCHANGED <<net, ws, seenBlock, receipts, wait>>
off == /\ \E key \in {"app", "receipt"} : _removeBlockListener(key)
       /\ UNCHANGED <<net, ws, seenBlock, receipts, wait>>

--------------------------------------------------------------------------------
(***************************************************************************)
(* Receipts                                                                *)
(***************************************************************************)
minedBy(height) == net.minedAt \in 1..height

\* Whether _getTransactionReceiptFromLatest returns what a node of that height
\* says: it asks again when the node is behind the block that made it ask.
conclusive(latestBlock, height) ==
    IF minedBy(height) THEN latestBlock <= height
                     ELSE latestBlock = undefined \/ net.minedAt # latestBlock

\* once(txHash, receipt) asks at once, and again for every block.
once ==
    /\ receipts.registered < MaxReceipts
    /\ receipts' = [receipts EXCEPT !.registered = @ + 1, !.fetches = @ \cup {undefined}]
    /\ _addBlockListener("receipt")
    /\ UNCHANGED <<net, ws, seenBlock, wait>>

\* isActive of the context of a listener
isActive_Always(key) == TRUE
isActive(key) == key \in blockListeners

waitFor(latestBlock, height) ==
    /\ latestBlock \in receipts.fetches /\ conclusive(latestBlock, height)
    /\ LET calls == minedBy(height) /\ isActive("receipt")
       IN  /\ receipts' = [receipts EXCEPT !.fetches = @ \ {latestBlock}, !.called = @ + IF calls THEN 1 ELSE 0]
           /\ blockListeners' = IF calls THEN blockListeners \ {"receipt"} ELSE blockListeners
    /\ UNCHANGED <<net, ws, attached, seenBlock, wait>>

waitForTransaction ==
    /\ wait.step = "none" /\ wait' = [wait EXCEPT !.step = "fetching"]
    /\ UNCHANGED <<net, ws, attached, blockListeners, seenBlock, receipts>>

receiptFetched(height) ==
    /\ wait.step = "fetching" /\ conclusive(wait.latestBlock, height)
    /\ IF minedBy(height)
       THEN wait' = [wait EXCEPT !.step = "returned"] /\ UNCHANGED <<attached, blockListeners>>
       ELSE wait' = [wait EXCEPT !.step = "listening"] /\ _addBlockListener("wait")
    /\ UNCHANGED <<net, ws, seenBlock, receipts>>

--------------------------------------------------------------------------------
blockMined(m) ==
    /\ net.head < MaxHeight
    /\ net' = [net EXCEPT !.head = @ + 1, !.minedAt = m]
    /\ m = net.minedAt \/ (net.minedAt = 0 /\ m = net.head + 1 /\ m < MaxHeight)
    /\ UNCHANGED <<ws, attached, blockListeners, seenBlock, receipts, wait>>
nodeCatchesUp ==
    /\ net.lagging < net.head /\ net' = [net EXCEPT !.lagging = @ + 1]
    /\ UNCHANGED <<ws, attached, blockListeners, seenBlock, receipts, wait>>

heights == net.lagging..net.head

ConnectionAction == openWebSocket \/ reconnectTimer \/ webSocketOpens \/ closeWebSocket \/ _onWebSocketClose
BlockAction == listenersCalled \/ \E n \in heights : _onBlock(n)
ListenerAction ==
    \/ on \/ off \/ once \/ waitForTransaction
    \/ \E height \in heights : receiptFetched(height) \/ \E latestBlock \in 0..MaxHeight : waitFor(latestBlock, height)
NetworkAction == nodeCatchesUp \/ \E m \in 0..MaxHeight : blockMined(m)

WebSocketNext == ConnectionAction \/ BlockAction \/ ListenerAction \/ NetworkAction

\* Blocks are mined and told of, timers fire and requests are answered, and an
\* attempt to open a WebSocket succeeds or fails.  One that is open may break at
\* any time, or never.
WebSocketFairness ==
    /\ WF_wsVars(\E m \in 0..MaxHeight : blockMined(m)) /\ WF_wsVars(nodeCatchesUp)
    /\ WF_wsVars(ws.provider = "connecting" /\ (webSocketOpens \/ _onWebSocketClose))
    /\ WF_wsVars(\E n \in heights : _onBlock(n)) /\ WF_wsVars(listenersCalled)
    /\ WF_wsVars(\E height \in heights : receiptFetched(height))

WebSocketSpec == WebSocketInit /\ [][WebSocketNext]_wsVars /\ WebSocketFairness

--------------------------------------------------------------------------------
\* A listener registered by once is called once at the most, however many of
\* its requests for the receipt are under way when the first is answered
\* (waitFor asks isActive after the answer).
OnceDeliversOnce == receipts.called <= receipts.registered

\* waitForTransaction returns once the transaction is mined, although blocks
\* are skipped, nodes lag and the WebSocket breaks and comes back between the
\* rounds of its loop, or stays open from then on (_switchover,
\* _addBlockListener).
WaitReturns == (net.minedAt # 0 /\ wait.step # "none") ~> wait.step = "returned"
================================================================================
