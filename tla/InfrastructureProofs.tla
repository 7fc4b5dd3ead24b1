-------------------------- MODULE InfrastructureProofs --------------------------
(***************************************************************************)
(* What is proved of the providers, for every height of the chain, any     *)
(* number of connections, listeners and calls, and any targets and block   *)
(* tags; of the client's store and of the base rate's clock, for every     *)
(* chain of blocks; of the watch methods, in any order of events; and of   *)
(* the deployments, for any number of runs of the scripts and the task.    *)
(***************************************************************************)
EXTENDS WebSocketAugmented, BatchedProvider, EthersLiquity, Observable, Deployment,
        SequenceTheorems, WellFoundedInduction, TLAPS

(***************************************************************************)
(* WebSocketAugmented.  A listener that is still registered has a delivery  *)
(* left, and every call of once registers at most one.                     *)
(***************************************************************************)
deliveriesLeft == IF "receipt" \in blockListeners THEN 1 ELSE 0

ReceiptsType ==
    /\ receipts \in [fetches : SUBSET Int, called : Nat, registered : Nat]
    /\ seenBlock \in [block : Int, scheduled : BOOLEAN]

DeliveriesInv == ReceiptsType /\ receipts.called + deliveriesLeft <= receipts.registered

\* An answer to a request for the receipt calls the listener only while it is
\* registered, and takes it out: the deliveries made and left do not grow.
LEMMA WaitForDelivers ==
    ASSUME DeliveriesInv, NEW latestBlock, NEW height, waitFor(latestBlock, height)
    PROVE  DeliveriesInv'
<1> DEFINE calls == minedBy(height) /\ isActive("receipt")
<1>1. CASE calls
  <2>1. /\ receipts' = [receipts EXCEPT !.fetches = @ \ {latestBlock}, !.called = @ + 1]
        /\ blockListeners' = blockListeners \ {"receipt"} /\ "receipt" \in blockListeners
        /\ seenBlock' = seenBlock
    BY <1>1 DEF waitFor, isActive
  <2>2. deliveriesLeft = 1 /\ deliveriesLeft' = 0
    BY <2>1 DEF deliveriesLeft
  <2>. /\ receipts.called + 1 \in Nat /\ receipts.called + 0 = receipts.called
       /\ receipts.fetches \ {latestBlock} \in SUBSET Int
    BY DEF DeliveriesInv, ReceiptsType
  <2>3. ReceiptsType' /\ receipts'.called = receipts.called + 1 /\ receipts'.registered = receipts.registered
    BY <2>1 DEF DeliveriesInv, ReceiptsType
  <2>. QED BY <2>2, <2>3 DEF DeliveriesInv, ReceiptsType
<1>2. CASE ~calls
  <2>1. /\ receipts' = [receipts EXCEPT !.fetches = @ \ {latestBlock}, !.called = @ + 0]
        /\ blockListeners' = blockListeners /\ seenBlock' = seenBlock
    BY <1>2 DEF waitFor
  <2>2. deliveriesLeft' = deliveriesLeft /\ deliveriesLeft \in {0, 1}
    BY <2>1 DEF deliveriesLeft
  <2>. /\ receipts.called + 1 \in Nat /\ receipts.called + 0 = receipts.called
       /\ receipts.fetches \ {latestBlock} \in SUBSET Int
    BY DEF DeliveriesInv, ReceiptsType
  <2>3. ReceiptsType' /\ receipts'.called = receipts.called /\ receipts'.registered = receipts.registered
    BY <2>1 DEF DeliveriesInv, ReceiptsType
  <2>. QED BY <2>2, <2>3 DEF DeliveriesInv, ReceiptsType
<1>. QED BY <1>1, <1>2

\* Every step of the provider keeps the deliveries within the registrations.
LEMMA DeliveriesInvariance == WebSocketSpec => []DeliveriesInv
<1>1. WebSocketInit => DeliveriesInv
  BY DEF WebSocketInit, DeliveriesInv, ReceiptsType, deliveriesLeft
<1>2. DeliveriesInv /\ [WebSocketNext]_wsVars => DeliveriesInv'
  <2>. SUFFICES ASSUME DeliveriesInv, [WebSocketNext]_wsVars PROVE DeliveriesInv'
    OBVIOUS
  <2>. USE DEF DeliveriesInv, ReceiptsType, deliveriesLeft
  <2>1. CASE ConnectionAction
    BY <2>1 DEF ConnectionAction, openWebSocket, reconnectTimer, connect, webSocketOpens, closeWebSocket, _onWebSocketClose, closed
  <2>2. CASE BlockAction
    <3>1. CASE listenersCalled
      <4>1. /\ blockListeners' = blockListeners \ {"wait"}
            /\ receipts'.called = receipts.called /\ receipts'.registered = receipts.registered
            /\ ReceiptsType'
        BY <3>1 DEF listenersCalled
      <4>. QED BY <4>1
    <3>2. ASSUME NEW n \in heights, _onBlock(n) PROVE DeliveriesInv'
      BY <3>2 DEF _onBlock, heights
    <3>. QED BY <2>2, <3>1, <3>2 DEF BlockAction
  <2>3. CASE ListenerAction
    <3>1. CASE on
      BY <3>1 DEF on, _addBlockListener
    <3>2. CASE off
      BY <3>2 DEF off, _removeBlockListener
    <3>3. CASE once
      <4>. receipts.registered + 1 \in Nat /\ receipts.fetches \cup {0} \in SUBSET Int
        OBVIOUS
      <4>1. ReceiptsType' /\ receipts'.called = receipts.called /\ receipts'.registered = receipts.registered + 1
        BY <3>3 DEF once, undefined
      <4>2. deliveriesLeft' = 1
        BY <3>3 DEF once, _addBlockListener
      <4>. QED BY <4>1, <4>2
    <3>4. CASE waitForTransaction
      BY <3>4 DEF waitForTransaction
    <3>5. ASSUME NEW height \in heights, receiptFetched(height) PROVE DeliveriesInv'
      BY <3>5 DEF receiptFetched, _addBlockListener
    <3>6. ASSUME NEW height \in heights, NEW latestBlock \in 0..MaxHeight, waitFor(latestBlock, height)
          PROVE  DeliveriesInv'
      BY <3>6, WaitForDelivers
    <3>. QED BY <2>3, <3>1, <3>2, <3>3, <3>4, <3>5, <3>6 DEF ListenerAction
  <2>4. CASE NetworkAction
    BY <2>4 DEF NetworkAction, nodeCatchesUp, blockMined
  <2>5. CASE UNCHANGED wsVars
    BY <2>5 DEF wsVars
  <2>. QED BY <2>1, <2>2, <2>3, <2>4, <2>5 DEF WebSocketNext
<1>. QED BY <1>1, <1>2, PTL DEF WebSocketSpec

\* A listener registered by once is called once at the most, however many of
\* its requests for the receipt are under way, however often the WebSocket
\* breaks and however far the nodes lag (once, waitFor, passOnce).
THEOREM DeliveredOnce == WebSocketSpec => []OnceDeliversOnce
<1>1. DeliveriesInv => OnceDeliversOnce
  BY DEF DeliveriesInv, ReceiptsType, deliveriesLeft, OnceDeliversOnce
<1>. QED BY <1>1, DeliveriesInvariance, PTL


--------------------------------------------------------------------------------
(***************************************************************************)
(* BatchedProvider.  A batch only holds calls that were made, and only     *)
(* calls for the block it will be sent for.                                *)
(***************************************************************************)
Request == [target : Targets, blockTag : BlockTags, names : {"nothing", "from", "value"}]
Answer == {noTag} \cup [target : Targets, blockTag : BlockTags \cup {"latest"}]
Call == [request : Request, step : {"requested", "waiting", "resolved", "rejected"}, answer : Answer]

Batches == dispatched \cup {_batched}

BatchType ==
    /\ requests \in Seq(Call)
    /\ \A batch \in Batches : batch.calls \in Seq(Nat)

\* The calls of a batch were made, for the batch's block.
Consistent(batch) ==
    \A i \in 1..Len(batch.calls) :
        /\ batch.calls[i] \in 1..Len(requests)
        /\ orLatest(requests[batch.calls[i]].request.blockTag) = orLatest(batch.blockTag)

BatchInv == BatchType /\ (\A batch \in Batches : Consistent(batch)) /\ CallsAnswered

\* Steps that keep the requests keep a batch consistent.
LEMMA StaysConsistent ==
    ASSUME NEW batch, Consistent(batch), Len(requests) \in Nat,
           Len(requests') \in Nat, Len(requests') >= Len(requests),
           \A c \in 1..Len(requests) : requests'[c].request = requests[c].request
    PROVE  \A i \in 1..Len(batch.calls) :
              /\ batch.calls[i] \in 1..Len(requests')
              /\ orLatest(requests'[batch.calls[i]].request.blockTag) = orLatest(batch.blockTag)
BY DEF Consistent

\* A call that is asked for is in no batch yet, and leaves the others as they are.
LEMMA OneMoreCall ==
    ASSUME BatchInv, NEW r \in Request, callRequested(r)
    PROVE  BatchInv'
<1>. DEFINE new == [request |-> r, step |-> "requested", answer |-> noTag]
<1>1. new \in Call
  BY DEF Call, Answer
<1>2. /\ requests' = Append(requests, new) /\ requests \in Seq(Call)
      /\ Len(requests') = Len(requests) + 1 /\ Len(requests) \in Nat
      /\ \A c \in 1..Len(requests) : requests'[c] = requests[c]
      /\ requests'[Len(requests) + 1] = new
      /\ requests' \in Seq(Call)
      /\ Batches' = Batches /\ _batched' = _batched /\ _timeout' = _timeout /\ dispatched' = dispatched
  BY <1>1 DEF callRequested, BatchInv, BatchType, Batches
<1>3. BatchType'
  BY <1>2 DEF BatchInv, BatchType, Batches
<1>4. ASSUME NEW batch \in Batches' PROVE Consistent(batch)'
  <2>1. Consistent(batch)
    BY <1>2 DEF BatchInv
  <2>. QED BY <2>1, <1>2, StaysConsistent DEF Consistent
<1>5. CallsAnswered'
  BY <1>2 DEF BatchInv, CallsAnswered
<1>. QED BY <1>3, <1>4, <1>5 DEF BatchInv


\* The step of one call changes, its request stays.
LEMMA StepChanged ==
    ASSUME BatchInv, NEW c \in 1..Len(requests), NEW step \in {"waiting", "resolved", "rejected"},
           requests' = [requests EXCEPT ![c].step = step]
    PROVE  /\ requests' \in Seq(Call) /\ Len(requests') = Len(requests) /\ Len(requests) \in Nat
           /\ \A d \in 1..Len(requests) : requests'[d].request = requests[d].request
           /\ \A d \in 1..Len(requests) \ {c} : requests'[d] = requests[d]
           /\ requests'[c].step = step
<1>1. requests \in Seq(Call) /\ Len(requests) \in Nat /\ DOMAIN requests = 1..Len(requests)
  BY DEF BatchInv, BatchType
<1>. DEFINE new == [requests[c] EXCEPT !.step = step]
<1>2. new \in Call /\ new.request = requests[c].request /\ new.step = step
  <2>1. requests[c] \in Call
    BY <1>1
  <2>. QED BY <2>1 DEF Call
<1>3. requests' = [requests EXCEPT ![c] = new]
  OBVIOUS
<1>. HIDE DEF new
<1>4. /\ requests' \in Seq(Call) /\ Len(requests') = Len(requests) /\ requests'[c] = new
      /\ \A d \in 1..Len(requests) \ {c} : requests'[d] = requests[d]
  BY <1>1, <1>2, <1>3
<1>. QED BY <1>1, <1>2, <1>4

\* A call that is made either joins a batch for its block or is sent by itself.
LEMMA CallJoins ==
    ASSUME BatchInv, NEW c \in 1..Len(requests), call(c)
    PROVE  BatchInv'
<1>. DEFINE alone == [calls |-> <<c>>, blockTag |-> requests[c].request.blockTag]
            tag == requests[c].request.blockTag
<1>1. requests' = [requests EXCEPT ![c].step = "waiting"]
  BY DEF call
<1>2. /\ requests' \in Seq(Call) /\ Len(requests') = Len(requests) /\ Len(requests) \in Nat
      /\ \A d \in 1..Len(requests) : requests'[d].request = requests[d].request
      /\ \A d \in 1..Len(requests) \ {c} : requests'[d] = requests[d]
      /\ requests'[c].step = "waiting"
  BY <1>1, StepChanged
<1>3. \A batch : Consistent(batch) => Consistent(batch)'
  BY <1>2, StaysConsistent DEF Consistent
<1>4. CASE toBatch(c)
  <2>1. /\ _batched'.calls = Append(_batched.calls, c) /\ dispatched' = dispatched /\ _timeout'
        /\ _batched'.blockTag = IF _batched.calls = <<>> THEN tag ELSE _batched.blockTag
        /\ _batched.calls \in Seq(Nat) /\ Consistent(_batched)
    BY <1>4 DEF call, _enqueueCall, BatchInv, BatchType, Batches
  <2>. c \in Nat
    BY <1>2
  <2>2. /\ _batched'.calls \in Seq(Nat) /\ Len(_batched'.calls) = Len(_batched.calls) + 1 /\ Len(_batched.calls) \in Nat
        /\ \A i \in 1..Len(_batched.calls) : _batched'.calls[i] = _batched.calls[i]
        /\ _batched'.calls[Len(_batched.calls) + 1] = c
    BY <2>1, <1>2
  <2>3. orLatest(_batched'.blockTag) = orLatest(tag)
    BY <1>4, <2>1 DEF toBatch, _alreadyBatchedCallsConflictWith
  <2>4. Consistent(_batched)'
    <3>. SUFFICES ASSUME NEW i \in 1..Len(_batched'.calls)
                  PROVE  /\ _batched'.calls[i] \in 1..Len(requests')
                         /\ orLatest(requests'[_batched'.calls[i]].request.blockTag) = orLatest(_batched'.blockTag)
      BY DEF Consistent
    <3>1. CASE i = Len(_batched.calls) + 1
      BY <3>1, <2>2, <2>3, <1>2
    <3>2. CASE i \in 1..Len(_batched.calls)
      <4>1. /\ _batched'.calls[i] \in 1..Len(requests)
            /\ orLatest(requests[_batched'.calls[i]].request.blockTag) = orLatest(_batched.blockTag)
        BY <3>2, <2>1, <2>2 DEF Consistent
      <4>2. _batched'.blockTag = _batched.blockTag
        BY <3>2, <2>1, <2>2
      <4>. QED BY <4>1, <4>2, <1>2
    <3>. QED BY <3>1, <3>2, <2>2
  <2>5. ASSUME NEW batch \in Batches' PROVE batch.calls \in Seq(Nat) /\ Consistent(batch)'
    <3>1. CASE batch = _batched'
      BY <3>1, <2>2, <2>4 DEF Consistent
    <3>2. CASE batch \in dispatched
      BY <3>2, <1>3 DEF BatchInv, BatchType, Batches
    <3>. QED BY <3>1, <3>2, <2>1 DEF Batches
  <2>6. CallsAnswered'
    <3>1. Contains(_batched'.calls, c)
      BY <2>2 DEF Contains
    <3>2. ASSUME NEW d, Contains(_batched.calls, d) PROVE Contains(_batched'.calls, d)
      <4>1. PICK i \in 1..Len(_batched.calls) : _batched.calls[i] = d
        BY <3>2 DEF Contains
      <4>2. i \in 1..Len(_batched'.calls) /\ _batched'.calls[i] = d
        BY <4>1, <2>2
      <4>. QED BY <4>2 DEF Contains
    <3>. QED BY <1>2, <2>1, <3>1, <3>2 DEF CallsAnswered, BatchInv
  <2>. QED BY <1>2, <2>5, <2>6 DEF BatchInv, BatchType
<1>5. CASE ~toBatch(c)
  <2>1. /\ dispatched' = dispatched \cup {alone} /\ _batched' = _batched /\ _timeout' = _timeout
    BY <1>5 DEF call
  <2>2. alone.calls = <<c>> /\ alone.blockTag = tag /\ Len(<<c>>) = 1 /\ <<c>>[1] = c /\ <<c>> \in Seq(Nat)
    BY <1>2
  <2>3. Consistent(alone)
    BY <2>2, <1>2 DEF Consistent
  <2>4. ASSUME NEW batch \in Batches' PROVE batch.calls \in Seq(Nat) /\ Consistent(batch)'
    BY <1>3, <2>1, <2>2, <2>3 DEF BatchInv, BatchType, Batches
  <2>5. CallsAnswered'
    <3>1. Contains(alone.calls, c)
      BY <2>2 DEF Contains
    <3>. QED BY <1>2, <2>1, <3>1 DEF CallsAnswered, BatchInv
  <2>. QED BY <1>2, <2>4, <2>5 DEF BatchInv, BatchType
<1>. QED BY <1>4, <1>5

\* The batch that is sent is the batch that was collected.
LEMMA BatchSent ==
    ASSUME BatchInv, timeout
    PROVE  BatchInv'
<1>1. /\ requests' = requests /\ dispatched' = dispatched \cup {_batched}
      /\ _batched'.calls = <<>> /\ ~_timeout'
  BY DEF timeout, _dispatchCalls, emptyBatch
<1>2. \A batch : Consistent(batch) => Consistent(batch)'
  BY <1>1 DEF Consistent
<1>3. Consistent(_batched)' /\ _batched'.calls \in Seq(Nat)
  BY <1>1 DEF Consistent
<1>4. ASSUME NEW batch \in Batches' PROVE batch.calls \in Seq(Nat) /\ Consistent(batch)'
  <2>1. CASE batch = _batched'
    BY <2>1, <1>1, <1>3 DEF Consistent
  <2>2. CASE batch \in Batches
    BY <2>2, <1>2 DEF BatchInv, BatchType
  <2>. QED BY <2>1, <2>2, <1>1 DEF Batches
<1>5. CallsAnswered'
  BY <1>1 DEF CallsAnswered, BatchInv
<1>. QED BY <1>1, <1>4, <1>5 DEF BatchInv, BatchType


\* What batchAnswered and batchFailed have in common: the calls of the batch are
\* settled, the others and the requests stay.
LEMMA CallsSettled ==
    ASSUME BatchInv, NEW batch \in dispatched, NEW step \in {"resolved", "rejected"},
           NEW settled,
           \A c \in 1..Len(requests) : Contains(batch.calls, c) =>
              settled[c] \in Call /\ settled[c].request = requests[c].request /\ settled[c].step = step,
           requests' = [c \in 1..Len(requests) |-> IF Contains(batch.calls, c) THEN settled[c] ELSE requests[c]],
           dispatched' = dispatched \ {batch}, UNCHANGED <<_batched, _timeout>>,
           step = "resolved" =>
              \A c \in 1..Len(requests) : Contains(batch.calls, c) =>
                 settled[c].answer = [target |-> requests[c].request.target, blockTag |-> orLatest(requests[c].request.blockTag)]
    PROVE  BatchInv'
<1>1. requests \in Seq(Call) /\ Len(requests) \in Nat /\ \A c \in 1..Len(requests) : requests[c] \in Call
  BY DEF BatchInv, BatchType
<1>2. /\ requests' \in Seq(Call) /\ Len(requests') = Len(requests)
      /\ \A c \in 1..Len(requests) : requests'[c] = IF Contains(batch.calls, c) THEN settled[c] ELSE requests[c]
  BY <1>1
<1>3. \A c \in 1..Len(requests) : requests'[c].request = requests[c].request
  BY <1>2
<1>4. \A b : Consistent(b) => Consistent(b)'
  BY <1>1, <1>2, <1>3, StaysConsistent DEF Consistent
<1>5. ASSUME NEW b \in Batches' PROVE b.calls \in Seq(Nat) /\ Consistent(b)'
  <2>1. b \in Batches
    BY DEF Batches
  <2>. QED BY <2>1, <1>4 DEF BatchInv, BatchType
<1>6. CallsAnswered'
  <2>. SUFFICES ASSUME NEW c \in 1..Len(requests)
                PROVE  /\ requests'[c].step = "resolved" =>
                             requests'[c].answer = [target |-> requests'[c].request.target,
                                                    blockTag |-> orLatest(requests'[c].request.blockTag)]
                       /\ requests'[c].step = "waiting" =>
                             \/ _timeout' /\ Contains(_batched'.calls, c)
                             \/ \E b \in dispatched' : Contains(b.calls, c)
    BY <1>2 DEF CallsAnswered
  <2>1. CASE Contains(batch.calls, c)
    BY <2>1, <1>2, <1>3
  <2>2. CASE ~Contains(batch.calls, c)
    BY <2>2, <1>2 DEF BatchInv, CallsAnswered
  <2>. QED BY <2>1, <2>2
<1>. QED BY <1>2, <1>5, <1>6 DEF BatchInv, BatchType

\* A batch that fails rejects its calls, with no answer.
LEMMA BatchFails ==
    ASSUME BatchInv, NEW batch \in dispatched, batchFailed(batch)
    PROVE  BatchInv'
<1>. DEFINE settled == [c \in 1..Len(requests) |-> [requests[c] EXCEPT !.step = "rejected"]]
<1>1. \A c \in 1..Len(requests) : requests[c] \in Call
  BY DEF BatchInv, BatchType
<1>2. \A c \in 1..Len(requests) :
         settled[c] \in Call /\ settled[c].request = requests[c].request /\ settled[c].step = "rejected"
  BY <1>1 DEF Call
<1>3. requests' = [c \in 1..Len(requests) |-> IF Contains(batch.calls, c) THEN settled[c] ELSE requests[c]]
  BY DEF batchFailed
<1>4. dispatched' = dispatched \ {batch} /\ UNCHANGED <<_batched, _timeout>>
  BY DEF batchFailed
<1>. HIDE DEF settled
<1>. QED BY <1>2, <1>3, <1>4, CallsSettled

\* Every call of a batch gets the result at its own place, for its own block.
LEMMA BatchAnswers ==
    ASSUME BatchInv, NEW batch \in dispatched, batchAnswered(batch)
    PROVE  BatchInv'
<1>. DEFINE settled == [c \in 1..Len(requests) |->
                           [requests[c] EXCEPT !.step = "resolved", !.answer = resultFor(batch, c)]]
            own(c) == [target |-> requests[c].request.target, blockTag |-> orLatest(requests[c].request.blockTag)]
<1>1. Consistent(batch) /\ \A c \in 1..Len(requests) : requests[c] \in Call
  BY DEF BatchInv, BatchType, Batches
<1>2. ASSUME NEW c \in 1..Len(requests), Contains(batch.calls, c)
      PROVE  /\ settled[c] \in Call /\ settled[c].request = requests[c].request
             /\ settled[c].step = "resolved" /\ settled[c].answer = own(c)
  <2>. DEFINE place == CHOOSE i \in 1..Len(batch.calls) : batch.calls[i] = c
  <2>1. place \in 1..Len(batch.calls) /\ batch.calls[place] = c
    BY <1>2 DEF Contains
  <2>2. resultFor(batch, c) = own(c)
    <3>1. resultFor(batch, c) = results(batch)[place]
      BY DEF resultFor
    <3>. HIDE DEF place
    <3>. QED BY <3>1, <2>1, <1>1 DEF results, Consistent
  <2>3. own(c) \in Answer
    BY <1>1 DEF Call, Request, Answer, orLatest
  <2>4. settled[c] = [requests[c] EXCEPT !.step = "resolved", !.answer = own(c)]
    BY <2>2
  <2>. HIDE DEF settled, own
  <2>. QED BY <2>3, <2>4, <1>1 DEF Call
<1>3. requests' = [c \in 1..Len(requests) |-> IF Contains(batch.calls, c) THEN settled[c] ELSE requests[c]]
  BY DEF batchAnswered
<1>4. dispatched' = dispatched \ {batch} /\ UNCHANGED <<_batched, _timeout>>
  BY DEF batchAnswered
<1>. HIDE DEF settled
<1>. QED BY <1>2, <1>3, <1>4, CallsSettled

\* Every step of the provider keeps its batches consistent and its calls answered.
LEMMA BatchInvariance == BatchedSpec => []BatchInv
<1>1. BatchedInit => BatchInv
  BY DEF BatchedInit, BatchInv, BatchType, Batches, Consistent, CallsAnswered, emptyBatch
<1>2. BatchInv /\ [BatchedNext]_batchVars => BatchInv'
  <2>. SUFFICES ASSUME BatchInv, [BatchedNext]_batchVars PROVE BatchInv'
    OBVIOUS
  <2>1. CASE setChainId \/ UNCHANGED batchVars
    <3>1. UNCHANGED <<requests, _batched, _timeout, dispatched>>
      BY <2>1 DEF setChainId, batchVars
    <3>. QED BY <3>1 DEF BatchInv, BatchType, Batches, Consistent, CallsAnswered
  <2>2. CASE timeout
    BY <2>2, BatchSent
  <2>3. ASSUME NEW r \in Request, callRequested(r) PROVE BatchInv'
    BY <2>3, OneMoreCall
  <2>4. ASSUME NEW c \in 1..Len(requests), call(c) PROVE BatchInv'
    BY <2>4, CallJoins
  <2>5. ASSUME NEW batch \in dispatched, batchAnswered(batch) \/ batchFailed(batch) PROVE BatchInv'
    BY <2>5, BatchAnswers, BatchFails
  <2>. QED BY <2>1, <2>2, <2>3, <2>4, <2>5 DEF BatchedNext, Request
<1>. QED BY <1>1, <1>2, PTL DEF BatchedSpec

\* No caller notices the batching: with any targets, block tags and number of
\* calls, an answer is the answer to the caller's own call at the block it
\* named, and a call without one waits in a batch that is scheduled or under
\* way (_alreadyBatchedCallsConflictWith, _enqueueCall, _dispatchCalls).
THEOREM BatchingUnnoticed == BatchedSpec => []CallsAnswered
<1>1. BatchInv => CallsAnswered
  BY DEF BatchInv
<1>. QED BY <1>1, BatchInvariance, PTL


--------------------------------------------------------------------------------
(***************************************************************************)
(* EthersLiquity.  The clock of the base rate is never ahead of the block, *)
(* and is the time of a block in which minutes of decay were applied.      *)
(***************************************************************************)
Clocked(c) ==
    /\ {"time", "lastFeeOperationTime", "decays"} \subseteq DOMAIN c
    /\ c.time \in Nat /\ c.lastFeeOperationTime \in Nat /\ c.decays \in Nat
    /\ c.lastFeeOperationTime <= c.time
    /\ SECONDS_IN_ONE_MINUTE * c.decays <= c.lastFeeOperationTime
    /\ c.lastFeeOperationTime > 0 => c.lastFeeOperationTime < 2 * (SECONDS_IN_ONE_MINUTE * c.decays)

\* d is c, perhaps later, as far as the clock is concerned.
SameClock(c, d) ==
    /\ DOMAIN c \subseteq DOMAIN d
    /\ d.time \in Nat /\ d.time >= c.time
    /\ d.lastFeeOperationTime = c.lastFeeOperationTime /\ d.decays = c.decays

BlocksInv ==
    /\ \E B : blocks \in Seq(B)
    /\ Len(blocks) > 0
    /\ \A n \in 1..Len(blocks) : Clocked(blocks[n])

\* A state with the same clock, decays and time is as good.
LEMMA ClockKept == ASSUME NEW c, NEW d, Clocked(c), SameClock(c, d) PROVE Clocked(d)
BY DEF Clocked, SameClock

\* Whole minutes: what was decayed is no longer than the time that passed, and
\* more than half of it as soon as a minute has.
LEMMA Minutes ==
    ASSUME NEW s \in Nat \ {0}, NEW x \in Nat, NEW d \in Nat
    PROVE  LET m == x \div s
           IN  /\ m \in Nat /\ s * (d + m) = s * d + s * m
               /\ s * m \in Nat /\ s * d \in Nat /\ s * m <= x
               /\ x >= s => x < 2 * (s * m)
               /\ x < s => s * m = 0
<1> DEFINE m == x \div s
<1>1. m \in Nat
  BY SMT
<1>. PICK r \in Nat : r = x % s /\ r < s
  <2>1. x % s \in 0..(s - 1)
    BY SMT
  <2>. QED BY <2>1
<1>0. x = m * s + r /\ m * s = s * m
  <2>1. x = (x \div s) * s + (x % s)
    BY SMT
  <2>2. m * s = s * m
    BY <1>1, SMT
  <2>. QED BY <2>1, <2>2
<1>2. s * m \in Nat /\ s * d \in Nat /\ s * (d + m) = s * d + s * m
  BY <1>1, SMT
<1>3. x >= s => s * m >= s
  <2>. SUFFICES ASSUME x >= s PROVE s * m >= s
    OBVIOUS
  <2>1. m # 0
    <3>. SUFFICES ASSUME m = 0 PROVE FALSE
      OBVIOUS
    <3>1. s * m = 0
      BY SMT
    <3>. HIDE DEF m
    <3>. QED BY <1>0, <3>1
  <2>2. s * m = s + s * (m - 1) /\ s * (m - 1) \in Nat
    BY <1>1, <2>1, SMT
  <2>. HIDE DEF m
  <2>. QED BY <1>2, <2>2
<1>4. x < s => s * m = 0
  <2>. SUFFICES ASSUME x < s PROVE s * m = 0
    OBVIOUS
  <2>1. m = 0
    BY SMT
  <2>. QED BY <2>1, SMT
<1>. PICK sm \in Nat : sm = s * m
  BY <1>2
<1>5. sm <= x /\ (x >= s => x < 2 * sm)
  <2>. HIDE DEF m
  <2>1. x = sm + r
    BY <1>0
  <2>2. x >= s => sm >= s
    BY <1>3
  <2>. QED BY <2>1, <2>2
<1>. HIDE DEF m
<1>6. s * m <= x /\ (x >= s => x < 2 * (s * m))
  BY <1>5
<1>. QED BY <1>1, <1>2, <1>4, <1>6 DEF m

\* A fee operation advances the clock by the minutes it decays and the rest of
\* a minute, or leaves both.
LEMMA FeeOperationClocked ==
    ASSUME NEW c, NEW rate, Clocked(c)
    PROVE  Clocked(feeOperation(c, rate))
<1> DEFINE f == feeOperation(c, rate)
           s == SECONDS_IN_ONE_MINUTE
<1>. PICK x \in Nat : x = c.time - c.lastFeeOperationTime
  BY DEF Clocked
<1>. PICK last \in Nat, time \in Nat, d \in Nat : last = c.lastFeeOperationTime /\ time = c.time /\ d = c.decays
  BY DEF Clocked
<1>0. x = time - last /\ last <= time
  BY DEF Clocked
<1>1. s \in Nat \ {0}
  BY BaseRateAssumption
<1> DEFINE m == x \div s
<1>2. /\ m \in Nat /\ s * (d + m) = s * d + s * m
      /\ s * m \in Nat /\ s * d \in Nat /\ s * m <= x
      /\ x >= s => x < 2 * (s * m)
      /\ x < s => s * m = 0
  BY <1>1, Minutes
<1>3. /\ DOMAIN f = DOMAIN c /\ f.time = time /\ f.decays = d + m
      /\ f.lastFeeOperationTime = IF x >= s THEN time ELSE last
  BY DEF feeOperation, updateLastFeeOpTime, minutesPassedSinceLastFeeOp, Clocked
<1>4. s * d <= last /\ (last > 0 => last < 2 * (s * d))
  BY DEF Clocked
<1>. HIDE DEF m, f
<1>. PICK sm \in Nat, sd \in Nat, sdm \in Nat : sm = s * m /\ sd = s * d /\ sdm = s * (d + m) /\ sdm = sd + sm
  <2>1. s * (d + m) \in Nat
    BY <1>2
  <2>. QED BY <1>2, <2>1
<1>5. /\ sdm <= f.lastFeeOperationTime
      /\ f.lastFeeOperationTime > 0 => f.lastFeeOperationTime < 2 * sdm
  <2>1. CASE x >= s
    <3>1. f.lastFeeOperationTime = time
      BY <1>3, <2>1
    <3>2. sm <= x /\ x < 2 * sm /\ sd <= last /\ (last > 0 => last < 2 * sd)
      BY <1>2, <1>4, <2>1
    <3>. QED BY <1>0, <3>1, <3>2
  <2>2. CASE x < s
    <3>1. f.lastFeeOperationTime = last
      BY <1>1, <1>3, <2>2
    <3>2. sm = 0 /\ sd <= last /\ (last > 0 => last < 2 * sd)
      BY <1>2, <1>4, <2>2
    <3>. QED BY <3>1, <3>2
  <2>. QED BY <1>1, <2>1, <2>2
<1>6. s * f.decays <= f.lastFeeOperationTime
      /\ (f.lastFeeOperationTime > 0 => f.lastFeeOperationTime < 2 * (s * f.decays))
  BY <1>3, <1>5
<1>7. f.lastFeeOperationTime \in Nat /\ f.lastFeeOperationTime <= f.time /\ f.time \in Nat /\ f.decays \in Nat
  BY <1>0, <1>1, <1>2, <1>3
<1>8. {"time", "lastFeeOperationTime", "decays"} \subseteq DOMAIN f
  BY <1>3 DEF Clocked
<1>9. Clocked(f)
  BY <1>6, <1>7, <1>8 DEF Clocked
<1>. QED BY <1>9 DEF f


\* What a transaction of the user, or what others do, makes of a block.
LEMMA BorrowingClocked ==
    ASSUME NEW c, NEW amount, NEW newTrove, Clocked(c)
    PROVE  Clocked(withTrove(afterBorrowing(c, amount), newTrove)) /\ Clocked(decayBaseRateFromBorrowing(c))
<1>1. Clocked(decayBaseRateFromBorrowing(c))
  BY FeeOperationClocked DEF decayBaseRateFromBorrowing
<1>2. Clocked(afterBorrowing(c, amount))
  BY <1>1 DEF afterBorrowing
<1>3. ASSUME NEW d, Clocked(d) PROVE Clocked(withTrove(d, newTrove))
  <2>1. SameClock(d, withTrove(d, newTrove))
    BY <1>3 DEF withTrove, SameClock, Clocked
  <2>. QED BY <1>3, <2>1, ClockKept
<1>. QED BY <1>1, <1>2, <1>3

\* A redemption decays the base rate and then only changes amounts.
LEMMA RedemptionClocked == ASSUME NEW c, NEW amount, Clocked(c) PROVE Clocked(afterRedemption(c, amount))
<1> DEFINE f == feeOperation(c, baseRateAfterRedemption(c, ETHDrawnFor(c, amount)))
<1>1. Clocked(f)
  BY FeeOperationClocked
<1>. HIDE DEF f
<1>2. SameClock(f, [f EXCEPT !.total = trove(c.total.collateral - ETHDrawnFor(c, amount), c.total.debt - amount)])
  BY <1>1 DEF SameClock, Clocked
<1>3. Clocked([f EXCEPT !.total = trove(c.total.collateral - ETHDrawnFor(c, amount), c.total.debt - amount)])
  BY <1>1, <1>2, ClockKept
<1>. QED BY <1>3 DEF afterRedemption, f

\* Whatever transaction of the client is mined, the clock is right after it.
LEMMA EffectClocked == ASSUME NEW c, Clocked(c) PROVE Clocked(effect(c))
<1>1. Clocked([c EXCEPT !.minutesIssued = c.time \div SECONDS_IN_ONE_MINUTE])
  <2>1. SameClock(c, [c EXCEPT !.minutesIssued = c.time \div SECONDS_IN_ONE_MINUTE])
    BY DEF SameClock, Clocked
  <2>. QED BY <2>1, ClockKept
<1>2. Clocked([c EXCEPT !.rewardTime = c.time])
  <2>1. SameClock(c, [c EXCEPT !.rewardTime = c.time])
    BY DEF SameClock, Clocked
  <2>. QED BY <2>1, ClockKept
<1>. QED BY <1>1, <1>2, BorrowingClocked, RedemptionClocked DEF effect

\* So it is after whatever others do.
LEMMA OthersClocked == ASSUME NEW c, Clocked(c), NEW d \in others(c) PROVE Clocked(d)
<1>1. CASE d = decayBaseRateFromBorrowing(c)
  BY <1>1, BorrowingClocked
<1>2. CASE \E amount : d = afterRedemption(c, amount)
  BY <1>2, RedemptionClocked
<1>3. CASE \E p : d = [c EXCEPT !.price = p]
  <2>1. SameClock(c, d)
    BY <1>3 DEF SameClock, Clocked
  <2>. QED BY <2>1, ClockKept
<1>4. CASE d = [c EXCEPT !.minutesIssued = c.time \div SECONDS_IN_ONE_MINUTE, !.rewardTime = c.time]
  <2>1. SameClock(c, d)
    BY <1>4 DEF SameClock, Clocked
  <2>. QED BY <2>1, ClockKept
<1>. QED BY <1>1, <1>2, <1>3, <1>4 DEF others

\* The chain grows by blocks whose clocks are right.
LEMMA BlockAdded == ASSUME BlocksInv, NEW c, Clocked(c), blocks' = Append(blocks, c) PROVE BlocksInv'
<1>1. PICK B : blocks \in Seq(B)
  BY DEF BlocksInv
<1>2. blocks \in Seq(B \cup {c}) /\ c \in B \cup {c}
  BY <1>1
<1>3. blocks' \in Seq(B \cup {c}) /\ Len(blocks') = Len(blocks) + 1 /\ Len(blocks) \in Nat
      /\ \A n \in 1..Len(blocks') : blocks'[n] = IF n <= Len(blocks) THEN blocks[n] ELSE c
  BY <1>2
<1>4. \A n \in 1..Len(blocks') : Clocked(blocks'[n])
  BY <1>3 DEF BlocksInv
<1>. QED BY <1>3, <1>4 DEF BlocksInv

\* The chain grows by blocks whose clocks are right.
LEMMA ChainClocked == ASSUME BlocksInv, ChainAction PROVE BlocksInv'
<1>1. PICK seconds \in Steps : mineTransaction(seconds) \/ mineBlock(seconds)
  BY DEF ChainAction
<1>2. seconds \in Nat
  BY EthersLiquityAssumption
<1> DEFINE c == nextBlock(seconds)
<1>3. Clocked(c)
  <2>1. Clocked(latest)
    <3>1. PICK B : blocks \in Seq(B)
      BY DEF BlocksInv
    <3>2. Len(blocks) \in 1..Len(blocks)
      BY <3>1 DEF BlocksInv
    <3>. QED BY <3>2 DEF BlocksInv, latest
  <2>2. SameClock(latest, c)
    BY <1>2, <2>1 DEF nextBlock, SameClock, Clocked
  <2>. QED BY <2>1, <2>2, ClockKept
<1>. HIDE DEF c
<1>4. CASE mineTransaction(seconds)
  <2>1. blocks' = Append(blocks, IF accepted(c) THEN [effect(c) EXCEPT !.event = "user"] ELSE c)
    BY <1>4 DEF mineTransaction, c
  <2>2. Clocked(effect(c))
    BY <1>3, EffectClocked
  <2>3. SameClock(effect(c), [effect(c) EXCEPT !.event = "user"])
    BY <2>2 DEF SameClock, Clocked
  <2>4. Clocked([effect(c) EXCEPT !.event = "user"])
    BY <2>2, <2>3, ClockKept
  <2>. QED BY <1>3, <2>1, <2>4, BlockAdded
<1>5. CASE mineBlock(seconds)
  <2>1. CASE blocks' = Append(blocks, c)
    BY <1>3, <2>1, BlockAdded
  <2>2. CASE \E d \in others(c) : blocks' = Append(blocks, [d EXCEPT !.event = "others"])
    <3>1. PICK d \in others(c) : blocks' = Append(blocks, [d EXCEPT !.event = "others"])
      BY <2>2
    <3>2. Clocked(d)
      BY <1>3, OthersClocked
    <3>3. SameClock(d, [d EXCEPT !.event = "others"])
      BY <3>2 DEF SameClock, Clocked
    <3>4. Clocked([d EXCEPT !.event = "others"])
      BY <3>2, <3>3, ClockKept
    <3>. QED BY <3>1, <3>4, BlockAdded
  <2>. QED BY <1>5, <2>1, <2>2 DEF mineBlock, c
<1>. QED BY <1>1, <1>4, <1>5

\* Only the chain writes blocks.
LEMMA OnlyChainMines == ASSUME Next, ~ChainAction PROVE blocks' = blocks
<1>1. CASE ConnectAction
  BY <1>1 DEF ConnectAction, _connect, getAddress, connectRejected, _connectByChainId, connectionUnchangedButFor
<1>2. CASE StoreAction
  BY <1>2 DEF StoreAction, startStore, stopStore, timerFires, fetchFails, initialFetched, blockListener,
              handleBlock, chainVars
<1>3. CASE TransactionAction
  BY <1>3 DEF TransactionAction, RequestAction, requestTroveChange, requestPoolOperation, requestRedemption,
              requestTransfer, requestStake, request, populate, abandon, send, replace, settle, chainVars
<1>. QED BY <1>1, <1>2, <1>3 DEF Next

\* However often fee operations come, for every minute of decay applied the
\* clock of the base rate moved on by a minute at least and by less than two
\* (TroveManager._updateLastFeeOpTime, _minutesPassedSinceLastFeeOp).
THEOREM DecayIsPaced == ClientSpec => []DecayPaced
<1>1. ClientInit => BlocksInv
  <2>. SUFFICES ASSUME ClientInit PROVE BlocksInv
    OBVIOUS
  <2>1. PICK user \in UserTroves, rate \in InitialRates : blocks = <<Genesis(add(OthersTrove, user), user, rate)>>
    BY DEF ClientInit
  <2> DEFINE g == Genesis(add(OthersTrove, user), user, rate)
  <2>2. Clocked(g)
    <3>1. {"time", "lastFeeOperationTime", "decays"} \subseteq DOMAIN g
          /\ g.time = 0 /\ g.lastFeeOperationTime = 0 /\ g.decays = 0
      BY DEF Genesis
    <3>2. SECONDS_IN_ONE_MINUTE * 0 = 0
      BY BaseRateAssumption
    <3>. HIDE DEF g
    <3>. QED BY <3>1, <3>2 DEF Clocked
  <2>. HIDE DEF g
  <2>3. blocks = <<g>>
    BY <2>1 DEF g
  <2>4. blocks \in Seq({g}) /\ Len(blocks) = 1 /\ blocks[1] = g
    BY <2>3
  <2>. QED BY <2>2, <2>4 DEF BlocksInv
<1>2. BlocksInv /\ [Next]_vars => BlocksInv'
  <2>. SUFFICES ASSUME BlocksInv, [Next]_vars PROVE BlocksInv'
    OBVIOUS
  <2>1. CASE Next /\ ChainAction
    BY <2>1, ChainClocked
  <2>2. CASE Next /\ ~ChainAction
    BY <2>2, OnlyChainMines DEF BlocksInv
  <2>3. CASE UNCHANGED vars
    BY <2>3 DEF vars, BlocksInv
  <2>. QED BY <2>1, <2>2, <2>3
<1>3. BlocksInv => DecayPaced
  <2>. SUFFICES ASSUME BlocksInv, NEW n \in 1..Len(blocks)
                PROVE  LET passed == blocks[n].lastFeeOperationTime
                           decayed == SECONDS_IN_ONE_MINUTE * blocks[n].decays
                       IN  decayed <= passed /\ (passed > 0 => passed < 2 * decayed)
    BY DEF DecayPaced
  <2>. QED BY DEF BlocksInv, Clocked
<1>. QED BY <1>1, <1>2, <1>3, PTL DEF ClientSpec

--------------------------------------------------------------------------------
(***************************************************************************)
(* The store.                                                              *)
(***************************************************************************)
Reads == [time : Nat, fees : Nat, state : Nat]

StoreInv ==
    /\ store \in [loaded : BOOLEAN, blockTag : Nat \cup {NoBlock}, at : Reads]
    /\ StoreConsistent

\* A fetched block replaces all that the store had, and its tag.
LEMMA BlockHandled ==
    ASSUME StoreInv, NEW n \in Nat, handleBlock(n)
    PROVE  StoreInv'
<1>1. n # NoBlock /\ readAt(n) \in Reads
  BY EthersLiquityAssumption DEF readAt, Reads
<1>2. reduce(store.at, readAt(n)) = readAt(n)
  BY DEF StoreInv, Reads, reduce, updateIfChanged, readAt
<1>3. store' = [loaded |-> TRUE, blockTag |-> n, at |-> readAt(n)]
  <2>1. CASE store.loaded
    <3>1. store' = update(readAt(n), n)
      BY <2>1 DEF handleBlock
    <3>2. store' = [store EXCEPT !.at = readAt(n), !.blockTag = n]
      BY <1>1, <1>2, <3>1 DEF update, reduceExtra
    <3>. QED BY <2>1, <3>2 DEF StoreInv
  <2>2. CASE ~store.loaded
    BY <2>2 DEF handleBlock, load
  <2>. QED BY <2>1, <2>2
<1>. QED BY <1>1, <1>3 DEF StoreInv, StoreConsistent

\* The first answer is of no one block, and taken only by an empty store.
LEMMA InitialHandled ==
    ASSUME StoreInv, NEW n \in Nat, initialFetched(n)
    PROVE  StoreInv'
<1>1. CASE store.loaded
  BY <1>1 DEF initialFetched, StoreInv, StoreConsistent
<1>2. CASE ~store.loaded
  <2>1. PICK at \in readsSince(n) : store' = [loaded |-> TRUE, blockTag |-> NoBlock, at |-> at]
    BY <1>2 DEF initialFetched, load
  <2>2. at \in Reads
    BY DEF readsSince, Reads
  <2>. QED BY <2>1, <2>2 DEF StoreInv, StoreConsistent
<1>. QED BY <1>1, <1>2

\* Once a block's fetch was applied, the store is of the block whose tag it
\* shows, whatever fetches, stops and restarts overlap
\* (BlockPolledLiquityStore._doStart, LiquityStore._load and _update).
THEOREM StoreStaysConsistent == ClientSpec => []StoreConsistent
<1>1. ClientInit => StoreInv
  BY DEF ClientInit, StoreInv, StoreConsistent, readAt, Reads
<1>2. StoreInv /\ [Next]_vars => StoreInv'
  <2>. SUFFICES ASSUME StoreInv, [Next]_vars PROVE StoreInv'
    OBVIOUS
  <2>1. CASE store' = store
    BY <2>1 DEF StoreInv, StoreConsistent
  <2>2. CASE ConnectAction
    <3>1. store' = store
      BY <2>2 DEF ConnectAction, _connect, getAddress, connectRejected, _connectByChainId, connectionUnchangedButFor
    <3>. QED BY <2>1, <3>1
  <2>3. CASE StoreAction
    <3>1. CASE startStore \/ stopStore \/ timerFires \/ fetchFails \/ \E n \in 1..Len(blocks) : blockListener(n)
      <4>1. store' = store
        BY <3>1 DEF startStore, stopStore, timerFires, fetchFails, blockListener
      <4>. QED BY <2>1, <4>1
    <3>2. CASE \E n \in 1..Len(blocks) : initialFetched(n)
      BY <3>2, InitialHandled
    <3>3. CASE \E n \in 1..Len(blocks) : handleBlock(n)
      BY <3>3, BlockHandled
    <3>. QED BY <2>3, <3>1, <3>2, <3>3 DEF StoreAction
  <2>4. CASE TransactionAction
    <3>1. store' = store
      BY <2>4 DEF TransactionAction, RequestAction, requestTroveChange, requestPoolOperation, requestRedemption,
                  requestTransfer, requestStake, request, populate, abandon, send, replace, settle
    <3>. QED BY <2>1, <3>1
  <2>5. CASE ChainAction
    <3>1. store' = store
      BY <2>5 DEF ChainAction, mineTransaction, mineBlock
    <3>. QED BY <2>1, <3>1
  <2>6. CASE UNCHANGED vars
    BY <2>1, <2>6 DEF vars
  <2>. QED BY <2>2, <2>3, <2>4, <2>5, <2>6 DEF Next
<1>3. StoreInv => StoreConsistent
  BY DEF StoreInv
<1>. QED BY <1>1, <1>2, <1>3, PTL DEF ClientSpec


--------------------------------------------------------------------------------
(***************************************************************************)
(* Observable.  A change of what is watched moves from the events to the   *)
(* timer, to a read and to a report, and a newer one may take its place.   *)
(***************************************************************************)
Parts ==
    {"totalRedistributed", "trove", "numberOfTroves", "total", "depositAndGain", "lqtyReward",
     "LUSDInStabilityPool", "LUSDBalance"}

ObservableType ==
    /\ watch \in Watches
    /\ observed \in Seq(SUBSET Parts) /\ since \in Nat /\ arriving \subseteq Nat
    /\ debounced \in [timer : BOOLEAN, latestBlock : Nat]
    /\ reading \subseteq [blockTag : Nat, retried : BOOLEAN]
    /\ told \in Nat /\ lost \in Nat

\* The change of block n was reported, or is on its way.
Reported(n) ==
    \/ told >= n \/ lost >= n
    \/ \E m \in arriving : m >= n
    \/ debounced.timer /\ debounced.latestBlock >= n
    \/ \E r \in reading : r.blockTag >= n

ObservableInv == ObservableType /\ ChangesReported

\* Every operation that changes a quantity, by more than the LQTY reward, emits an
\* event that its watch method listens to (but for the two that do not listen to
\* BorrowerOperations).
LEMMA ChangesEmitted ==
    ASSUME watch \in Watches, watch \notin {"total", "numberOfTroves"}, NEW op \in operations,
           (op.changes \cap partsOf(watch)) \ {"lqtyReward"} # {}
    PROVE  op.emits \cap filters # {}
<1>1. watch \in {"totalRedistributed", "trove", "stabilityDeposit", "LUSDInStabilityPool", "LUSDBalance"}
  BY ObservableAssumption
<1>2. PICK u \in users : op \in operationsOf(u) \cup {lusdTransfer}
  BY DEF operations, users
<1>. watch # "stabilityDeposit" => watch \in op.changes
  BY DEF partsOf
<1>. watch = "stabilityDeposit" => "depositAndGain" \in op.changes
  BY DEF partsOf
<1>3. CASE watch = "totalRedistributed"
  <2>1. filters = watchTotalRedistributed
    BY <1>3 DEF filters
  <2>2. op = redistribution(u)
    BY <1>2, <1>3 DEF operationsOf, users, ofUser, troveChange, troveOpenedOrClosed, collateralChange, liquidated,
                      offsetLiquidation, redistribution, redemptionBy, depositChange, gainToTrove, lusdTransfer
  <2>. QED BY <2>1, <2>2 DEF watchTotalRedistributed, redistribution
<1>4. CASE watch = "trove"
  <2>1. filters = watchTroveWithoutRewards
    BY <1>4 DEF filters
  <2>2. \/ <<"borrowerOperations", "TroveUpdated", "user">> \in op.emits
        \/ <<"troveManager", "TroveUpdated", "user">> \in op.emits
    BY <1>2, <1>4 DEF operationsOf, users, ofUser, troveChange, troveOpenedOrClosed, collateralChange, liquidated,
                      offsetLiquidation, redistribution, redemptionBy, depositChange, gainToTrove, lusdTransfer
  <2>. QED BY <2>1, <2>2 DEF watchTroveWithoutRewards
<1>5. CASE watch = "stabilityDeposit"
  <2>1. filters = watchStabilityDeposit
    BY <1>5 DEF filters
  <2>2. \/ <<"stabilityPool", "UserDepositChanged", "user">> \in op.emits
        \/ <<"activePool", "EtherSent", "stabilityPool">> \in op.emits
    BY <1>2, <1>5 DEF operationsOf, users, ofUser, troveChange, troveOpenedOrClosed, collateralChange, liquidated,
                      offsetLiquidation, redistribution, redemptionBy, depositChange, gainToTrove, lusdTransfer
  <2>. QED BY <2>1, <2>2 DEF watchStabilityDeposit
<1>6. CASE watch = "LUSDInStabilityPool"
  <2>1. filters = watchLUSDInStabilityPool
    BY <1>6 DEF filters
  <2>2. <<"lusdToken", "Transfer", "stabilityPool">> \in op.emits
    BY <1>2, <1>6 DEF operationsOf, users, ofUser, troveChange, troveOpenedOrClosed, collateralChange, liquidated,
                      offsetLiquidation, redistribution, redemptionBy, depositChange, gainToTrove, lusdTransfer
  <2>. QED BY <2>1, <2>2 DEF watchLUSDInStabilityPool
<1>7. CASE watch = "LUSDBalance"
  <2>1. filters = watchLUSDBalance
    BY <1>7 DEF filters
  <2>2. <<"lusdToken", "Transfer", "user">> \in op.emits
    BY <1>2, <1>7 DEF operationsOf, users, ofUser, troveChange, troveOpenedOrClosed, collateralChange, liquidated,
                      offsetLiquidation, redistribution, redemptionBy, depositChange, gainToTrove, lusdTransfer
  <2>. QED BY <2>1, <2>2 DEF watchLUSDBalance
<1>. QED BY <1>1, <1>3, <1>4, <1>5, <1>6, <1>7

\* A step that makes no block keeps the property if it loses no report.
LEMMA ReportsKept ==
    ASSUME ObservableInv, ObservableType', \A n \in Nat : Reported(n) => Reported(n)',
           UNCHANGED <<watch, observed, since>>, listening' = "yes" => listening = "yes"
    PROVE  ObservableInv'
<1>1. changedAt \subseteq Nat /\ changedAt' = changedAt
  BY DEF changedAt, ObservableInv, ObservableType
<1>2. ChangesReported <=>
         (listening = "yes" /\ watch \notin {"total", "numberOfTroves"} => \A n \in changedAt : Reported(n))
  BY DEF ChangesReported, Reported
<1>3. ChangesReported' <=>
         (listening' = "yes" /\ watch' \notin {"total", "numberOfTroves"} => \A n \in changedAt' : Reported(n)')
  BY DEF ChangesReported, Reported
<1>. QED BY <1>1, <1>2, <1>3 DEF ObservableInv

\* A block with an operation in it.
LEMMA MinedReported ==
    ASSUME ObservableInv, NEW op \in operations, operationMined(op)
    PROVE  ObservableInv'
<1> DEFINE last == Len(observed) + 1
<1>1. /\ observed' = Append(observed, op.changes \cap partsOf(watch))
      /\ arriving' = IF listening = "yes" /\ op.emits \cap filters # {} THEN arriving \cup {Len(observed')} ELSE arriving
      /\ UNCHANGED <<watch, listening, since, debounced, reading, told, lost>>
  BY DEF operationMined
<1>2. /\ observed' \in Seq(SUBSET Parts) /\ Len(observed') = last /\ last \in Nat
      /\ \A n \in 1..Len(observed) : observed'[n] = observed[n]
      /\ observed'[last] = op.changes \cap partsOf(watch)
  <2>1. partsOf(watch) \subseteq Parts
    BY ObservableAssumption DEF ObservableInv, ObservableType, partsOf, Parts
  <2>. QED BY <1>1, <2>1 DEF ObservableInv, ObservableType
<1>3. ObservableType'
  BY <1>1, <1>2 DEF ObservableInv, ObservableType
<1>4. ASSUME listening = "yes", watch \notin {"total", "numberOfTroves"}, NEW n \in changedAt'
      PROVE  Reported(n)'
  <2>1. n \in (since + 1)..last /\ observed'[n] \ {"lqtyReward"} # {}
    BY <1>1, <1>2 DEF changedAt
  <2>2. CASE n = last
    <3>1. (op.changes \cap partsOf(watch)) \ {"lqtyReward"} # {}
      BY <1>2, <2>1, <2>2
    <3>2. op.emits \cap filters # {}
      BY <1>4, <3>1, ChangesEmitted DEF ObservableInv, ObservableType
    <3>3. n \in arriving' /\ n >= n
      BY <1>1, <1>2, <1>4, <2>2, <3>2
    <3>. QED BY <3>3 DEF Reported
  <2>3. CASE n # last
    <3>1. n \in 1..Len(observed) /\ n \in (since + 1)..Len(observed)
      BY <1>2, <2>1, <2>3 DEF ObservableInv, ObservableType
    <3>2. n \in changedAt
      BY <1>2, <2>1, <3>1 DEF changedAt
    <3>3. Reported(n)
      BY <1>4, <3>2 DEF ObservableInv, ChangesReported, Reported
    <3>4. arriving \subseteq arriving'
      BY <1>1
    <3>. QED BY <1>1, <3>3, <3>4 DEF Reported
  <2>. QED BY <2>2, <2>3
<1>5. ChangesReported'
  BY <1>1, <1>4 DEF ChangesReported, Reported
<1>. QED BY <1>3, <1>5 DEF ObservableInv

\* An event reaches the listener: the timer has its block, or a later one.
LEMMA DebounceReports == ASSUME ObservableInv, NEW n \in Nat, debounce(n) PROVE ObservableInv'
<1> DEFINE latestBlock == latestAfter(debounced.latestBlock, n)
<1>1. /\ latestBlock \in Nat /\ latestBlock >= n /\ latestBlock >= debounced.latestBlock
  BY DEF latestAfter, ObservableInv, ObservableType
<1>2. /\ debounced' = [timer |-> TRUE, latestBlock |-> latestBlock] /\ arriving' = arriving \ {n}
      /\ UNCHANGED <<watch, listening, since, observed, reading, told, lost>>
  BY DEF debounce
<1>. HIDE DEF latestBlock
<1>3. ObservableType'
  BY <1>1, <1>2 DEF ObservableInv, ObservableType
<1>4. ASSUME NEW k \in Nat, Reported(k) PROVE Reported(k)'
  <2>1. debounced'.timer /\ debounced'.latestBlock = latestBlock
    BY <1>2
  <2>2. CASE told >= k \/ lost >= k \/ \E r \in reading : r.blockTag >= k
    BY <1>2, <2>2 DEF Reported
  <2>3. CASE \E m \in arriving : m >= k
    <3>1. PICK m \in arriving : m >= k
      BY <2>3
    <3>2. CASE m = n
      BY <1>1, <2>1, <3>1, <3>2 DEF Reported
    <3>3. CASE m # n
      BY <1>2, <3>1, <3>3 DEF Reported
    <3>. QED BY <3>2, <3>3
  <2>4. CASE debounced.timer /\ debounced.latestBlock >= k
    <3>1. latestBlock >= k
      BY <1>1, <2>4 DEF ObservableInv, ObservableType
    <3>. QED BY <2>1, <3>1 DEF Reported
  <2>. QED BY <1>4, <2>2, <2>3, <2>4 DEF Reported
<1>. QED BY <1>2, <1>3, <1>4, ReportsKept

\* The timer fires: a read of its block is under way.
LEMMA ElapsedReports == ASSUME ObservableInv, debounceElapsed PROVE ObservableInv'
<1> DEFINE r == [blockTag |-> debounced.latestBlock, retried |-> debounced.latestBlock = _seenBlock]
<1>1. /\ reading' = reading \cup {r} /\ debounced' = [debounced EXCEPT !.timer = FALSE]
      /\ UNCHANGED <<watch, listening, since, observed, arriving, told, lost>>
  BY DEF debounceElapsed, callAt
<1>2. r \in [blockTag : Nat, retried : BOOLEAN] /\ r.blockTag = debounced.latestBlock
  BY DEF ObservableInv, ObservableType
<1>. HIDE DEF r
<1>3. ObservableType'
  BY <1>1, <1>2 DEF ObservableInv, ObservableType
<1>4. \A k \in Nat : Reported(k) => Reported(k)'
  BY <1>1, <1>2 DEF Reported
<1>. QED BY <1>1, <1>3, <1>4, ReportsKept

\* A read ends: its block, or a later one, is the last that was told or lost.
LEMMA ReadReports == ASSUME ObservableInv, NEW r \in reading, readAnswered(r) \/ readRejected(r) PROVE ObservableInv'
<1>1. /\ reading' = reading \ {r}
      /\ \/ told' = later(told, r.blockTag) /\ lost' = lost
         \/ lost' = later(lost, r.blockTag) /\ told' = told
      /\ UNCHANGED <<watch, listening, since, observed, arriving, debounced>>
  BY DEF readAnswered, readRejected
<1>2. r.blockTag \in Nat /\ told \in Nat /\ lost \in Nat
  BY DEF ObservableInv, ObservableType
<1>3. /\ told' \in Nat /\ lost' \in Nat /\ told' >= told /\ lost' >= lost
      /\ told' >= r.blockTag \/ lost' >= r.blockTag
  BY <1>1, <1>2 DEF later
<1>4. ObservableType'
  BY <1>1, <1>3 DEF ObservableInv, ObservableType
<1>5. ASSUME NEW k \in Nat, Reported(k) PROVE Reported(k)'
  <2>1. CASE told >= k \/ lost >= k
    <3>1. told' >= k \/ lost' >= k
      BY <1>2, <1>3, <2>1
    <3>. QED BY <3>1 DEF Reported
  <2>2. CASE (\E m \in arriving : m >= k) \/ (debounced.timer /\ debounced.latestBlock >= k)
    BY <1>1, <2>2 DEF Reported
  <2>3. CASE \E q \in reading : q.blockTag >= k
    <3>1. PICK q \in reading : q.blockTag >= k
      BY <2>3
    <3>2. CASE q = r
      <4>1. told' >= k \/ lost' >= k
        BY <1>2, <1>3, <3>1, <3>2
      <4>. QED BY <4>1 DEF Reported
    <3>3. CASE q # r
      BY <1>1, <3>1, <3>3 DEF Reported
    <3>. QED BY <3>2, <3>3
  <2>. QED BY <1>5, <2>1, <2>2, <2>3 DEF Reported
<1>. QED BY <1>1, <1>4, <1>5, ReportsKept

\* The watch methods miss no change that some event tells: it is reported as of its
\* block or a later one, in whatever order events and answers come, unless the read
\* fails (ObservableEthersLiquity, debounce).  What no event tells is left out, as
\* ChangesReported says: the LQTY reward, and watchTotal and watchNumberOfTroves.
THEOREM NoChangeMissed == ObservableSpec => []ChangesReported
<1>1. ObservableInit => ObservableInv
  <2>. SUFFICES ASSUME ObservableInit PROVE ObservableInv
    OBVIOUS
  <2>1. ObservableType
    BY DEF ObservableInit, ObservableType
  <2>2. ChangesReported
    BY DEF ObservableInit, ChangesReported
  <2>. QED BY <2>1, <2>2 DEF ObservableInv
<1>2. ObservableInv /\ [ObservableNext]_observableVars => ObservableInv'
  <2>. SUFFICES ASSUME ObservableInv, [ObservableNext]_observableVars PROVE ObservableInv'
    OBVIOUS
  <2>1. CASE subscribe
    <3>1. ObservableType'
      BY <2>1 DEF subscribe, ObservableInv, ObservableType
    <3>2. changedAt' = {}
      BY <2>1 DEF subscribe, changedAt, ObservableInv, ObservableType
    <3>3. ChangesReported'
      BY <3>2 DEF ChangesReported
    <3>. QED BY <3>1, <3>3 DEF ObservableInv
  <2>2. CASE unsubscribe
    <3>1. ObservableType' /\ listening' = "ended"
      BY <2>2 DEF unsubscribe, ObservableInv, ObservableType
    <3>. QED BY <3>1 DEF ObservableInv, ChangesReported
  <2>3. CASE debounceElapsed
    BY <2>3, ElapsedReports
  <2>4. CASE \E op \in operations : operationMined(op)
    BY <2>4, MinedReported
  <2>5. CASE \E n \in 1..Len(observed) : onBlock(n)
    <3>1. UNCHANGED <<watch, listening, since, observed, arriving, debounced, reading, told, lost>>
      BY <2>5 DEF onBlock
    <3>. QED BY <3>1 DEF ObservableInv, ObservableType, ChangesReported, changedAt
  <2>6. CASE \E n \in 1..Len(observed) : debounce(n)
    BY <2>6, DebounceReports
  <2>7. CASE \E r \in reading : readAnswered(r) \/ readRejected(r)
    BY <2>7, ReadReports
  <2>8. CASE UNCHANGED observableVars
    BY <2>8 DEF observableVars, ObservableInv, ObservableType, ChangesReported, changedAt
  <2>. QED BY <2>1, <2>2, <2>3, <2>4, <2>5, <2>6, <2>7, <2>8 DEF ObservableNext
<1>3. ObservableInv => ChangesReported
  BY DEF ObservableInv
<1>. QED BY <1>1, <1>2, <1>3, PTL DEF ObservableSpec

(***************************************************************************)
(* The deployment scripts.  What an instance of a contract knows is nothing *)
(* more than what it was constructed with until it is set up, and from then *)
(* on exactly what is on record, and what is on record stays.  So a script  *)
(* that passes over a contract that has no owner leaves it as it should be, *)
(* and the scripts that a run has behind it have done their part, whichever *)
(* run it was that did it.                                                  *)
(***************************************************************************)
\* A function from 1..n is a sequence.
LEMMA FunctionIsSequence ==
    ASSUME NEW S, NEW n \in Nat, NEW f, f = [i \in 1..n |-> f[i]], \A i \in 1..n : f[i] \in S
    PROVE  f \in Seq(S) /\ Len(f) = n
  OBVIOUS

\* The elements of a sequence.
LEMMA Elements == ASSUME NEW S, NEW s \in Seq(S), NEW n, Len(s) = n PROVE \A i \in 1..n : s[i] \in S
  OBVIOUS

\* A set of natural numbers has a least one.
LEMMA LeastNumber == ASSUME NEW T, T \subseteq Nat, T # {} PROVE \E m \in T : \A k \in T : ~(k < m)
<1>1. PICK R : R = {ss \in Nat \X Nat : ss[1] < ss[2]}
  OBVIOUS
<1>2. IsWellFoundedOn(R, Nat)
  BY <1>1, NatLessThanWellFounded DEF OpToRel
<1>3. PICK m \in T : \A y \in T : ~(<<y, m>> \in R)
  BY <1>2, WFMin
<1>4. \A y \in Nat : y < m => <<y, m>> \in R
  BY <1>1
<1>. QED BY <1>3, <1>4

\* F[i] lists the values v[1], ..., v[i], without those that are skipped.
Listing(F, n, skip, v) ==
    F = [i \in 0..n |-> IF i = 0 THEN <<>> ELSE IF skip[i] THEN F[i - 1] ELSE Append(F[i - 1], v[i])]

\* There is such a list for every n: the recursive definition has a solution.
LEMMA ListingExists == ASSUME NEW n \in Nat, NEW skip, NEW v PROVE \E F : Listing(F, n, skip, v)
<1> DEFINE Bad == {k \in Nat : ~ \E F : Listing(F, k, skip, v)}
<1>1. SUFFICES ASSUME n \in Bad PROVE FALSE
  OBVIOUS
<1>2. PICK m \in Bad : \A k \in Bad : ~(k < m)
  <2>1. Bad \subseteq Nat /\ Bad # {}
    BY <1>1
  <2>. HIDE DEF Bad
  <2>. QED BY <2>1, LeastNumber
<1>3. CASE m = 0
  <2>1. Listing([i \in 0..0 |-> <<>>], 0, skip, v)
    BY DEF Listing
  <2>. QED BY <1>2, <1>3, <2>1
<1>4. CASE m # 0
  <2>1. m - 1 \in Nat /\ m - 1 < m /\ m \in Nat
    BY <1>2, <1>4
  <2>2. PICK G : Listing(G, m - 1, skip, v)
    BY <1>2, <2>1
  <2> DEFINE F == [i \in 0..m |-> IF i = m THEN IF skip[m] THEN G[m - 1] ELSE Append(G[m - 1], v[m]) ELSE G[i]]
  <2>3. \A i \in 0..(m - 1) : F[i] = G[i]
    BY <2>1
  <2>4. \A i \in 0..(m - 1) : G[i] = IF i = 0 THEN <<>> ELSE IF skip[i] THEN G[i - 1] ELSE Append(G[i - 1], v[i])
    BY <2>2 DEF Listing
  <2>5. \A i \in 0..m : F[i] = IF i = 0 THEN <<>> ELSE IF skip[i] THEN F[i - 1] ELSE Append(F[i - 1], v[i])
    <3>. SUFFICES ASSUME NEW i \in 0..m
                  PROVE  F[i] = IF i = 0 THEN <<>> ELSE IF skip[i] THEN F[i - 1] ELSE Append(F[i - 1], v[i])
      OBVIOUS
    <3>1. CASE i = m
      <4>1. F[m] = IF skip[m] THEN G[m - 1] ELSE Append(G[m - 1], v[m])
        BY <2>1
      <4>2. F[m - 1] = G[m - 1]
        BY <2>1, <2>3
      <4>. QED BY <1>4, <3>1, <4>1, <4>2
    <3>2. CASE i # m
      <4>1. i \in 0..(m - 1) /\ (i # 0 => i - 1 \in 0..(m - 1))
        BY <2>1, <3>2
      <4>. QED BY <2>3, <2>4, <4>1
    <3>. QED BY <3>1, <3>2
  <2>6. Listing(F, m, skip, v)
    <3>1. F = [i \in 0..m |-> F[i]]
      OBVIOUS
    <3>. HIDE DEF F
    <3>. QED BY <2>5, <3>1 DEF Listing
  <2>. QED BY <1>2, <2>6
<1>. QED BY <1>3, <1>4

\* It lists nothing else, and leaves nothing out.
ListsValues(s, i, skip, v, T) ==
    /\ s \in Seq(T)
    /\ \A k \in 1..Len(s) : \E j \in 1..i : ~skip[j] /\ s[k] = v[j]
    /\ \A j \in 1..i : skip[j] \/ \E k \in 1..Len(s) : s[k] = v[j]

\* Each of its lists holds exactly the values up to its index that are not skipped.
LEMMA ListingLists ==
    ASSUME NEW n \in Nat, NEW skip, NEW v, NEW T, \A j \in 1..n : v[j] \in T, NEW F, Listing(F, n, skip, v)
    PROVE  \A i \in 0..n : ListsValues(F[i], i, skip, v, T)
<1> DEFINE Bad == {i \in 0..n : ~ListsValues(F[i], i, skip, v, T)}
<1>1. SUFFICES ASSUME Bad # {} PROVE FALSE
  OBVIOUS
<1>2. PICK m \in Bad : \A k \in Bad : ~(k < m)
  <2>1. Bad \subseteq Nat
    OBVIOUS
  <2>. HIDE DEF Bad
  <2>. QED BY <1>1, <2>1, LeastNumber
<1>3. F[m] = IF m = 0 THEN <<>> ELSE IF skip[m] THEN F[m - 1] ELSE Append(F[m - 1], v[m])
  BY <1>2 DEF Listing
<1>4. CASE m = 0
  <2>1. F[m] = <<>>
    BY <1>3, <1>4
  <2>2. ListsValues(<<>>, 0, skip, v, T)
    BY DEF ListsValues
  <2>. QED BY <1>2, <1>4, <2>1, <2>2
<1>5. CASE m # 0
  <2>1. m \in Nat /\ m \in 1..n /\ m - 1 \in 0..n /\ m - 1 < m
    BY <1>2, <1>5
  <2>2. PICK p : p = m - 1
    OBVIOUS
  <2>3. ListsValues(F[p], p, skip, v, T)
    BY <1>2, <2>1, <2>2
  <2>4. PICK s \in Seq(T), x \in T : s = F[p] /\ x = v[m]
    BY <2>1, <2>3 DEF ListsValues
  <2>5. \A j : j \in 1..m <=> j \in 1..p \/ j = m
    BY <2>1, <2>2
  <2>6. CASE skip[m]
    <3>1. F[m] = s
      BY <1>3, <1>5, <2>2, <2>4, <2>6
    <3>. QED BY <1>2, <2>3, <2>4, <2>5, <2>6, <3>1, ZenonT(60) DEF ListsValues
  <2>7. CASE ~skip[m]
    <3>1. PICK t : t = Append(s, x)
      OBVIOUS
    <3>2. F[m] = t
      BY <1>3, <1>5, <2>2, <2>4, <2>7, <3>1
    <3>3. /\ t \in Seq(T) /\ Len(s) \in Nat /\ Len(t) = Len(s) + 1 /\ t[Len(s) + 1] = x
          /\ \A k \in 1..Len(s) : t[k] = s[k]
      BY <3>1
    <3>4. \A k : k \in 1..Len(t) <=> k \in 1..Len(s) \/ k = Len(s) + 1
      BY <3>3
    <3>5. ASSUME NEW k \in 1..Len(t) PROVE \E j \in 1..m : ~skip[j] /\ t[k] = v[j]
      <4>1. CASE k \in 1..Len(s)
        <5>1. PICK j \in 1..p : ~skip[j] /\ s[k] = v[j]
          BY <2>3, <2>4, <4>1 DEF ListsValues
        <5>2. j \in 1..m /\ t[k] = v[j]
          BY <2>5, <3>3, <4>1, <5>1
        <5>. QED BY <5>1, <5>2
      <4>2. CASE k = Len(s) + 1
        <5>1. m \in 1..m /\ ~skip[m] /\ t[k] = v[m]
          BY <2>1, <2>4, <2>5, <2>7, <3>3, <4>2
        <5>. QED BY <5>1
      <4>. QED BY <3>4, <4>1, <4>2
    <3>6. ASSUME NEW j \in 1..m, ~skip[j] PROVE \E k \in 1..Len(t) : t[k] = v[j]
      <4>1. CASE j \in 1..p
        <5>1. PICK k \in 1..Len(s) : s[k] = v[j]
          BY <2>3, <2>4, <3>6, <4>1 DEF ListsValues
        <5>. QED BY <3>3, <3>4, <5>1
      <4>2. CASE j = m
        <5>1. t[Len(s) + 1] = v[j] /\ Len(s) + 1 \in 1..Len(t)
          BY <2>4, <3>3, <3>4, <4>2
        <5>. QED BY <5>1
      <4>. QED BY <2>5, <4>1, <4>2
    <3>. QED BY <1>2, <3>2, <3>3, <3>5, <3>6 DEF ListsValues
  <2>. QED BY <2>6, <2>7
<1>. QED BY <1>4, <1>5

\* What is queued for a script that sets contracts up.
QueuedFor(q, cs, failed) ==
    /\ \A k \in 1..Len(q) :
          \E j \in 1..Len(cs) : ~isOwnershipRenounced(cs[j], cs[j] \in failed) /\ q[k] = setUpCall(cs[j])
    /\ \A j \in 1..Len(cs) :
          isOwnershipRenounced(cs[j], cs[j] \in failed) \/ \E k \in 1..Len(q) : q[k] = setUpCall(cs[j])

\* setUpCalls queues, in their order, the calls for the contracts that are not set up.
LEMMA QueuedCalls ==
    ASSUME NEW S, NEW cs \in Seq(S), NEW failed, NEW T, \A j \in 1..Len(cs) : setUpCall(cs[j]) \in T,
           NEW q, q = setUpCalls(cs, failed)
    PROVE  q \in Seq(T) /\ QueuedFor(q, cs, failed)
<1>1. PICK n \in Nat : n = Len(cs)
  OBVIOUS
<1>2. PICK skip, v : /\ skip = [i \in 1..n |-> isOwnershipRenounced(cs[i], cs[i] \in failed)]
                     /\ v = [i \in 1..n |-> setUpCall(cs[i])]
  OBVIOUS
<1>3. \A i \in 1..n : /\ skip[i] = isOwnershipRenounced(cs[i], cs[i] \in failed)
                      /\ v[i] = setUpCall(cs[i]) /\ v[i] \in T
  BY <1>1, <1>2
<1> DEFINE listed(F) ==
        F = [i \in 0..Len(cs) |->
                IF i = 0 THEN <<>>
                ELSE IF isOwnershipRenounced(cs[i], cs[i] \in failed) THEN F[i - 1]
                ELSE Append(F[i - 1], setUpCall(cs[i]))]
<1>4. ASSUME NEW F PROVE Listing(F, n, skip, v) <=> listed(F)
  <2>1. \A i \in 0..n : i # 0 => i \in 1..n
    OBVIOUS
  <2>2. [i \in 0..n |-> IF i = 0 THEN <<>> ELSE IF skip[i] THEN F[i - 1] ELSE Append(F[i - 1], v[i])]
          = [i \in 0..Len(cs) |->
                IF i = 0 THEN <<>>
                ELSE IF isOwnershipRenounced(cs[i], cs[i] \in failed) THEN F[i - 1]
                ELSE Append(F[i - 1], setUpCall(cs[i]))]
    BY <1>1, <1>3, <2>1
  <2>. QED BY <2>2 DEF Listing
<1>5. q = (CHOOSE F : listed(F))[n]
  BY <1>1 DEF setUpCalls
<1>6. PICK F : F = (CHOOSE G : listed(G))
  OBVIOUS
<1>7. \E G : listed(G)
  BY <1>4, ListingExists
<1>8. listed(F)
  BY <1>6, <1>7
<1> HIDE DEF listed
<1>9. Listing(F, n, skip, v)
  BY <1>4, <1>8
<1>10. ListsValues(F[n], n, skip, v, T)
  <2>1. n \in 0..n
    OBVIOUS
  <2>. QED BY <1>3, <1>9, <2>1, ListingLists
<1>11. q = F[n]
  BY <1>5, <1>6
<1>12. /\ q \in Seq(T)
       /\ \A k \in 1..Len(q) : \E j \in 1..n : ~skip[j] /\ q[k] = v[j]
       /\ \A j \in 1..n : skip[j] \/ \E k \in 1..Len(q) : q[k] = v[j]
  BY <1>10, <1>11 DEF ListsValues
<1>13. ASSUME NEW k \in 1..Len(q)
       PROVE  \E j \in 1..n : ~isOwnershipRenounced(cs[j], cs[j] \in failed) /\ q[k] = setUpCall(cs[j])
  <2>1. PICK j \in 1..n : ~skip[j] /\ q[k] = v[j]
    BY <1>12
  <2>. QED BY <1>3, <2>1
<1>14. ASSUME NEW j \in 1..n, ~isOwnershipRenounced(cs[j], cs[j] \in failed)
       PROVE  \E k \in 1..Len(q) : q[k] = setUpCall(cs[j])
  <2>1. PICK k \in 1..Len(q) : q[k] = v[j]
    BY <1>3, <1>12, <1>14
  <2>. QED BY <1>3, <2>1
<1>. QED BY <1>1, <1>12, <1>13, <1>14 DEF QueuedFor

\* The scripts, what they construct contracts with, and what they set up.
Scripts == {deploy_BTCOracle, deploy_PriceFeed, deploy_SortedTroves, deploy_TroveManager, deploy_ActivePool,
            deploy_StabilityPool, deploy_GasPool, deploy_DefaultPool, deploy_CollSurplusPool,
            deploy_BorrowerOperations, deploy_HintHelpers, deploy_LUSD_token, deploy_CommunityIssuance,
            deploy_MultiTroveGetter, deploy_LQTYStaking, deploy_LQTYToken, set_Oracle, set_CoreContracts,
            set_LQTYContracts, openPosition, deploy_Unipool, set_Unipool}
constructedWith(c) ==
    IF c = "LUSDToken" THEN {"TroveManager", "StabilityPool", "BorrowerOperations"}
    ELSE IF c = "MultiTroveGetter" THEN {"TroveManager", "SortedTroves"}
    ELSE IF c = "LQTYToken" THEN {"CommunityIssuance", "LQTYStaking"} ELSE {}
AllContracts ==
    {"BTCOracle", "PriceFeed", "SortedTroves", "TroveManager", "ActivePool", "StabilityPool", "GasPool", "DefaultPool",
     "CollSurplusPool", "BorrowerOperations", "HintHelpers", "LUSDToken", "CommunityIssuance", "MultiTroveGetter",
     "LQTYStaking", "LQTYToken", "Unipool"}

\* The scripts of the main run, by their place in it.
LEMMA MainScripts ==
    /\ main \in Seq(Scripts) /\ Len(main) = 22
    /\ main[1] = deploy_BTCOracle /\ main[2] = deploy_PriceFeed /\ main[3] = deploy_SortedTroves
    /\ main[4] = deploy_TroveManager /\ main[5] = deploy_ActivePool /\ main[6] = deploy_StabilityPool
    /\ main[7] = deploy_GasPool /\ main[8] = deploy_DefaultPool /\ main[9] = deploy_CollSurplusPool
    /\ main[10] = deploy_BorrowerOperations /\ main[11] = deploy_HintHelpers /\ main[12] = deploy_LUSD_token
    /\ main[13] = deploy_CommunityIssuance /\ main[14] = deploy_MultiTroveGetter /\ main[15] = deploy_LQTYStaking
    /\ main[16] = deploy_LQTYToken /\ main[17] = set_Oracle /\ main[18] = set_CoreContracts
    /\ main[19] = set_LQTYContracts /\ main[20] = openPosition /\ main[21] = deploy_Unipool /\ main[22] = set_Unipool
<1>1. main \in Seq(Scripts) /\ Len(main) = 22
  BY DEF main, Scripts
<1>. QED BY <1>1 DEF main

\* Every tag runs some of these scripts.
LEMMA TaggedScripts == \A tag \in DOMAIN Tagged : Tagged[tag] \in Seq(Scripts)
<1>1. setCoreContracts \in Seq(Scripts)
  BY DEF setCoreContracts, Scripts
<1>2. updateLQTYTokenContracts \in Seq(Scripts)
  BY DEF updateLQTYTokenContracts, Scripts
<1>3. setOracle \in Seq(Scripts)
  BY DEF setOracle, Scripts
<1>. QED BY <1>1, <1>2, <1>3, MainScripts, SMTT(30) DEF Tagged

ScriptOk(s) ==
    /\ s.does \in {"deploy", "feed", "setUp"}
    /\ s.does = "deploy" => s.contract \in AllContracts /\ s.args = constructedWith(s.contract)
    /\ s.does = "feed" => s.blocks \in Seq(Nat)
    /\ s.does = "setUp" => s.contracts \in Seq(DOMAIN setUpWith)

\* What each script is: a deployment, the feed of the oracle, or the setting up of contracts.
LEMMA ScriptsOk == \A s \in Scripts : ScriptOk(s)
<1>1. \A c \in AllContracts : \A args : args = constructedWith(c) => ScriptOk(deploying(c, args))
  BY DEF ScriptOk, deploying
<1>2. /\ ScriptOk(deploy_BTCOracle) /\ ScriptOk(deploy_PriceFeed) /\ ScriptOk(deploy_SortedTroves)
      /\ ScriptOk(deploy_TroveManager) /\ ScriptOk(deploy_ActivePool) /\ ScriptOk(deploy_StabilityPool)
      /\ ScriptOk(deploy_GasPool) /\ ScriptOk(deploy_DefaultPool) /\ ScriptOk(deploy_CollSurplusPool)
      /\ ScriptOk(deploy_BorrowerOperations) /\ ScriptOk(deploy_HintHelpers)
      /\ ScriptOk(deploy_CommunityIssuance) /\ ScriptOk(deploy_LQTYStaking) /\ ScriptOk(deploy_Unipool)
  BY <1>1 DEF deploy_BTCOracle, deploy_PriceFeed, deploy_SortedTroves, deploy_TroveManager, deploy_ActivePool,
      deploy_StabilityPool, deploy_GasPool, deploy_DefaultPool, deploy_CollSurplusPool, deploy_BorrowerOperations,
      deploy_HintHelpers, deploy_CommunityIssuance, deploy_LQTYStaking, deploy_Unipool, AllContracts, constructedWith
<1>3. ScriptOk(deploy_LUSD_token) /\ ScriptOk(deploy_MultiTroveGetter) /\ ScriptOk(deploy_LQTYToken)
  BY <1>1 DEF deploy_LUSD_token, deploy_MultiTroveGetter, deploy_LQTYToken, AllContracts, constructedWith
<1>4. ScriptOk(set_Oracle)
  BY DEF ScriptOk, set_Oracle
<1>5. \A cs \in Seq(DOMAIN setUpWith) : ScriptOk(settingUp(cs))
  BY DEF ScriptOk, settingUp
<1>6. /\ <<>> \in Seq(DOMAIN setUpWith)
      /\ <<"CommunityIssuance">> \in Seq(DOMAIN setUpWith) /\ <<"Unipool">> \in Seq(DOMAIN setUpWith)
      /\ <<"SortedTroves", "TroveManager", "PriceFeed", "BorrowerOperations", "StabilityPool",
            "ActivePool", "DefaultPool", "CollSurplusPool", "HintHelpers", "LQTYStaking">> \in Seq(DOMAIN setUpWith)
  BY DEF setUpWith
<1>7. ScriptOk(openPosition) /\ ScriptOk(set_LQTYContracts) /\ ScriptOk(set_Unipool) /\ ScriptOk(set_CoreContracts)
  BY <1>5, <1>6 DEF openPosition, set_LQTYContracts, set_Unipool, set_CoreContracts
<1>. QED BY <1>2, <1>3, <1>4, <1>7 DEF Scripts

\* Every contract is deployed by one of the scripts, with the same arguments by all.
LEMMA ScriptOfContract ==
    \A c \in AllContracts : \E i \in 1..22 : main[i].does = "deploy" /\ main[i].contract = c
<1>1. \A c, args : deploying(c, args).does = "deploy" /\ deploying(c, args).contract = c
  BY DEF deploying
<1>2. /\ main[1].contract = "BTCOracle" /\ main[2].contract = "PriceFeed" /\ main[3].contract = "SortedTroves"
      /\ main[4].contract = "TroveManager" /\ main[5].contract = "ActivePool" /\ main[6].contract = "StabilityPool"
      /\ main[7].contract = "GasPool" /\ main[8].contract = "DefaultPool" /\ main[9].contract = "CollSurplusPool"
      /\ main[10].contract = "BorrowerOperations" /\ main[11].contract = "HintHelpers"
      /\ main[12].contract = "LUSDToken" /\ main[13].contract = "CommunityIssuance"
      /\ main[14].contract = "MultiTroveGetter" /\ main[15].contract = "LQTYStaking"
      /\ main[16].contract = "LQTYToken" /\ main[21].contract = "Unipool"
      /\ \A i \in 1..16 : main[i].does = "deploy"
      /\ main[21].does = "deploy"
  <2>. USE DEF deploy_BTCOracle, deploy_PriceFeed, deploy_SortedTroves, deploy_TroveManager, deploy_ActivePool,
      deploy_StabilityPool, deploy_GasPool, deploy_DefaultPool, deploy_CollSurplusPool, deploy_BorrowerOperations,
      deploy_HintHelpers, deploy_CommunityIssuance, deploy_LQTYStaking, deploy_Unipool, deploy_LUSD_token,
      deploy_MultiTroveGetter, deploy_LQTYToken
  <2>1. /\ main[1].contract = "BTCOracle" /\ main[2].contract = "PriceFeed" /\ main[3].contract = "SortedTroves"
        /\ main[4].contract = "TroveManager" /\ main[5].contract = "ActivePool" /\ main[6].contract = "StabilityPool"
        /\ main[7].contract = "GasPool" /\ main[8].contract = "DefaultPool" /\ main[9].contract = "CollSurplusPool"
    BY <1>1, MainScripts
  <2>2. /\ main[10].contract = "BorrowerOperations" /\ main[11].contract = "HintHelpers"
        /\ main[12].contract = "LUSDToken" /\ main[13].contract = "CommunityIssuance"
        /\ main[14].contract = "MultiTroveGetter" /\ main[15].contract = "LQTYStaking"
        /\ main[16].contract = "LQTYToken" /\ main[21].contract = "Unipool"
    BY <1>1, MainScripts
  <2>3. /\ main[1].does = "deploy" /\ main[2].does = "deploy" /\ main[3].does = "deploy" /\ main[4].does = "deploy"
        /\ main[5].does = "deploy" /\ main[6].does = "deploy" /\ main[7].does = "deploy" /\ main[8].does = "deploy"
        /\ main[9].does = "deploy" /\ main[10].does = "deploy" /\ main[11].does = "deploy" /\ main[12].does = "deploy"
        /\ main[13].does = "deploy" /\ main[14].does = "deploy" /\ main[15].does = "deploy" /\ main[16].does = "deploy"
        /\ main[21].does = "deploy"
    BY <1>1, MainScripts
  <2>. QED BY <2>1, <2>2, <2>3
<1>. QED BY <1>2 DEF AllContracts

\* The contracts are those of the deploying scripts, and arguments name contracts.
LEMMA ContractsKnown ==
    /\ Contracts = AllContracts
    /\ \A c \in Contracts : Constructed[c] = constructedWith(c) /\ constructedWith(c) \subseteq Contracts
    /\ \A c \in DOMAIN setUpWith :
          c \in Contracts /\ setUpWith[c] \subseteq Contracts /\ setUpWith[c] # {} /\ constructedWith(c) = {}
<1>1. \A s : s \in ToSet(main) <=> \E i \in 1..22 : s = main[i]
  BY MainScripts DEF ToSet
<1>2. ToSet(main) \subseteq Scripts
  <2>1. \A i \in 1..22 : main[i] \in Scripts
    BY MainScripts, Elements
  <2>. QED BY <1>1, <2>1
<1>3. Contracts = AllContracts
  <2>1. \A c : c \in Contracts <=> \E s \in ToSet(main) : s.does = "deploy" /\ c = s.contract
    BY DEF Contracts
  <2>2. \A c \in Contracts : c \in AllContracts
    BY <1>2, <2>1, ScriptsOk DEF ScriptOk
  <2>3. \A c \in AllContracts : c \in Contracts
    BY <1>1, <2>1, ScriptOfContract
  <2>. QED BY <2>2, <2>3
<1>4. ASSUME NEW c \in Contracts PROVE Constructed[c] = constructedWith(c)
  <2>1. PICK s : s = CHOOSE x \in ToSet(main) : x.does = "deploy" /\ x.contract = c
    OBVIOUS
  <2>2. \E x \in ToSet(main) : x.does = "deploy" /\ x.contract = c
    BY <1>1, <1>3, ScriptOfContract
  <2>3. s \in ToSet(main) /\ s.does = "deploy" /\ s.contract = c
    BY <2>1, <2>2
  <2>4. Constructed[c] = s.args
    BY <2>1 DEF Constructed
  <2>. QED BY <1>2, <2>3, <2>4, ScriptsOk DEF ScriptOk
<1>5. \A c : constructedWith(c) \subseteq Contracts
  BY <1>3 DEF constructedWith, AllContracts
<1>6. DOMAIN setUpWith = {"SortedTroves", "TroveManager", "PriceFeed", "BorrowerOperations", "StabilityPool", "ActivePool",
          "DefaultPool", "CollSurplusPool", "HintHelpers", "LQTYStaking", "CommunityIssuance", "Unipool"}
  BY DEF setUpWith
<1>7. \A c \in DOMAIN setUpWith : c \in Contracts /\ constructedWith(c) = {}
  BY <1>3, <1>6 DEF constructedWith, AllContracts
<1>8. \A c \in DOMAIN setUpWith : setUpWith[c] \subseteq Contracts /\ setUpWith[c] # {}
  <2>1. /\ setParams_SortedTroves \subseteq Contracts /\ setAddresses_TroveManager \subseteq Contracts
        /\ setAddresses_PriceFeed \subseteq Contracts /\ setAddresses_BorrowerOperations \subseteq Contracts
        /\ setAddresses_StabilityPool \subseteq Contracts /\ setAddresses_ActivePool \subseteq Contracts
        /\ setAddresses_DefaultPool \subseteq Contracts /\ setAddresses_CollSurplusPool \subseteq Contracts
        /\ setAddresses_HintHelpers \subseteq Contracts /\ setAddresses_LQTYStaking \subseteq Contracts
        /\ setAddresses_CommunityIssuance \subseteq Contracts /\ setParams_Unipool \subseteq Contracts
    BY <1>3 DEF AllContracts, setParams_SortedTroves, setAddresses_TroveManager, setAddresses_PriceFeed,
        setAddresses_BorrowerOperations, setAddresses_StabilityPool, setAddresses_ActivePool, setAddresses_DefaultPool,
        setAddresses_CollSurplusPool, setAddresses_HintHelpers, setAddresses_LQTYStaking,
        setAddresses_CommunityIssuance, setParams_Unipool
  <2>2. /\ setParams_SortedTroves # {} /\ setAddresses_TroveManager # {} /\ setAddresses_PriceFeed # {}
        /\ setAddresses_BorrowerOperations # {} /\ setAddresses_StabilityPool # {} /\ setAddresses_ActivePool # {}
        /\ setAddresses_DefaultPool # {} /\ setAddresses_CollSurplusPool # {} /\ setAddresses_HintHelpers # {}
        /\ setAddresses_LQTYStaking # {} /\ setAddresses_CommunityIssuance # {} /\ setParams_Unipool # {}
    BY DEF setParams_SortedTroves, setAddresses_TroveManager, setAddresses_PriceFeed,
        setAddresses_BorrowerOperations, setAddresses_StabilityPool, setAddresses_ActivePool, setAddresses_DefaultPool,
        setAddresses_CollSurplusPool, setAddresses_HintHelpers, setAddresses_LQTYStaking,
        setAddresses_CommunityIssuance, setParams_Unipool
  <2>. QED BY <1>6, <2>1, <2>2 DEF setUpWith
<1>. QED BY <1>3, <1>4, <1>5, <1>7, <1>8

\* Every contract that is set up is set up by one of the scripts.
LEMMA ScriptOfSetUp ==
    \A c \in DOMAIN setUpWith : \E i \in 1..22 : main[i].does = "setUp" /\ c \in ToSet(main[i].contracts)
<1>1. DOMAIN setUpWith = {"SortedTroves", "TroveManager", "PriceFeed", "BorrowerOperations", "StabilityPool", "ActivePool",
          "DefaultPool", "CollSurplusPool", "HintHelpers", "LQTYStaking", "CommunityIssuance", "Unipool"}
  BY DEF setUpWith
<1>2. /\ main[18].does = "setUp" /\ main[19].does = "setUp" /\ main[22].does = "setUp"
      /\ main[18].contracts = <<"SortedTroves", "TroveManager", "PriceFeed", "BorrowerOperations", "StabilityPool",
            "ActivePool", "DefaultPool", "CollSurplusPool", "HintHelpers", "LQTYStaking">>
      /\ main[19].contracts = <<"CommunityIssuance">> /\ main[22].contracts = <<"Unipool">>
  BY MainScripts DEF set_CoreContracts, set_LQTYContracts, set_Unipool, settingUp
<1>3. /\ ToSet(<<"CommunityIssuance">>) = {"CommunityIssuance"} /\ ToSet(<<"Unipool">>) = {"Unipool"}
      /\ ToSet(<<"SortedTroves", "TroveManager", "PriceFeed", "BorrowerOperations", "StabilityPool", "ActivePool",
                 "DefaultPool", "CollSurplusPool", "HintHelpers", "LQTYStaking">>)
           = {"SortedTroves", "TroveManager", "PriceFeed", "BorrowerOperations", "StabilityPool", "ActivePool",
              "DefaultPool", "CollSurplusPool", "HintHelpers", "LQTYStaking"}
  BY DEF ToSet
<1>. QED BY <1>1, <1>2, <1>3

Knowledge == UNION {[A -> Nat] : A \in SUBSET Contracts}
Calls == [does : {"deploy"}, contract : Contracts, args : Knowledge]
           \cup [does : {"setUp"}, contract : DOMAIN setUpWith, args : Knowledge] \cup [does : {"feed"}, block : Nat]

\* k is all that a contract is to be set up with.
Wired(c, k) == recorded(setUpWith[c]) /\ k = addresses(setUpWith[c])
SetUp(c) == records[c] # 0 /\ Wired(c, knows[c][records[c]])

\* What an instance of a contract may know: what it was constructed with, and
\* what it was set up with when it was.
InstanceOk(c, k) ==
    IF c \in DOMAIN setUpWith THEN DOMAIN k = {} \/ Wired(c, k)
    ELSE recorded(constructedWith(c)) /\ k = addresses(constructedWith(c))

InstancesOk == \A c \in Contracts : \A i \in 1..deployed[c] : InstanceOk(c, knows[c][i])
ChainInv ==
    /\ records \in [Contracts -> Nat] /\ deployed \in [Contracts -> Nat] /\ knows \in [Contracts -> Seq(Knowledge)]
    /\ \A c \in Contracts : records[c] <= deployed[c] /\ Len(knows[c]) = deployed[c]
    /\ InstancesOk

ScriptDone(s) ==
    /\ s.does = "deploy" => records[s.contract] # 0
    /\ s.does = "setUp" => \A c \in ToSet(s.contracts) : SetUp(c)

\* A call that a script has queued, and a script whose calls are being sent.
CallOk(q, s) ==
    /\ q.does = s.does
    /\ q.does = "deploy" => /\ q.contract = s.contract /\ recorded(constructedWith(q.contract))
                            /\ q.args = addresses(constructedWith(q.contract))
    /\ q.does = "setUp" => records[q.contract] # 0 /\ Wired(q.contract, q.args)
UnderWay(s, queue) ==
    /\ \A j \in 1..Len(queue) : CallOk(queue[j], s)
    /\ s.does = "deploy" => queue # <<>> \/ deployed[s.contract] # 0
    /\ s.does = "setUp" => \A c \in ToSet(s.contracts) : SetUp(c) \/ \E j \in 1..Len(queue) : queue[j].contract = c

\* What is left of all the scripts, when the others are done.
MainLeft(todo) == \E k \in 0..22 : todo = SubSeq(main, k + 1, 22) /\ \A i \in 1..k : ScriptDone(main[i])

RunInv ==
    /\ run \in [number : {run.number}, tag : {run.tag}, todo : Seq(Scripts), step : {"idle", "script", "execute"},
                queue : Seq(Calls)]
    /\ run.step # "execute" => run.queue = <<>>
    /\ run.step = "execute" => run.todo # <<>> /\ UnderWay(Head(run.todo), run.queue)
    /\ run.tag = "main" /\ run.step # "idle" => MainLeft(run.todo)

\* What is on record stays, and with it what contracts were set up with.
RecordsKept == \A c \in Contracts : records[c] # 0 => records'[c] = records[c]

\* A complete set of addresses on record stays what it is.
LEMMA AddressesKept ==
    ASSUME RecordsKept, NEW A, A \subseteq Contracts, recorded(A)
    PROVE  recorded(A)' /\ addresses(A)' = addresses(A)
<1>1. \A c \in A : records[c] # 0 /\ records'[c] = records[c]
  BY DEF RecordsKept, recorded
<1>. QED BY <1>1 DEF recorded, addresses

\* What a contract was set up with stays what is on record.
LEMMA WiredKept == ASSUME RecordsKept, NEW c \in DOMAIN setUpWith, NEW k, Wired(c, k) PROVE Wired(c, k)'
  BY AddressesKept, ContractsKnown DEF Wired

\* So does what an instance was constructed with.
LEMMA InstanceKept == ASSUME RecordsKept, NEW c \in Contracts, NEW k, InstanceOk(c, k) PROVE InstanceOk(c, k)'
<1>1. CASE c \in DOMAIN setUpWith
  BY <1>1, WiredKept DEF InstanceOk
<1>2. CASE c \notin DOMAIN setUpWith
  BY <1>2, AddressesKept, ContractsKnown DEF InstanceOk
<1>. QED BY <1>1, <1>2

\* A contract that is set up stays so, unless what it knows changes.
LEMMA SetUpKept ==
    ASSUME RecordsKept, NEW c \in DOMAIN setUpWith, SetUp(c), knows'[c][records[c]] = knows[c][records[c]]
    PROVE  SetUp(c)'
<1>1. c \in Contracts /\ records'[c] = records[c] /\ records[c] # 0
  BY ContractsKnown DEF RecordsKept, SetUp
<1>2. PICK k : k = knows[c][records[c]]
  OBVIOUS
<1>3. Wired(c, k)'
  BY <1>2, WiredKept DEF SetUp
<1>4. knows'[c][records'[c]] = k
  BY <1>1, <1>2
<1>. QED BY <1>1, <1>3, <1>4 DEF SetUp, Wired, recorded, addresses

\* What a script achieved is not undone.
LEMMA ScriptDoneKept ==
    ASSUME RecordsKept, \A c \in DOMAIN setUpWith : SetUp(c) => SetUp(c)', NEW s \in Scripts, ScriptDone(s)
    PROVE  ScriptDone(s)'
<1>1. ScriptOk(s)
  BY ScriptsOk
<1>2. CASE s.does = "deploy"
  BY <1>1, <1>2, ContractsKnown DEF ScriptOk, ScriptDone, RecordsKept
<1>3. CASE s.does = "setUp"
  <2>1. \A c \in ToSet(s.contracts) : c \in DOMAIN setUpWith
    BY <1>1, <1>3 DEF ScriptOk, ToSet
  <2>. QED BY <1>3, <2>1 DEF ScriptDone
<1>4. CASE s.does = "feed"
  BY <1>4 DEF ScriptDone
<1>. QED BY <1>1, <1>2, <1>3, <1>4 DEF ScriptOk

\* Nor is what the scripts achieved that the run has behind it.
LEMMA MainLeftKept ==
    ASSUME RecordsKept, \A c \in DOMAIN setUpWith : SetUp(c) => SetUp(c)', NEW todo, MainLeft(todo)
    PROVE  MainLeft(todo)'
<1>1. PICK k \in 0..22 : todo = SubSeq(main, k + 1, 22) /\ \A i \in 1..k : ScriptDone(main[i])
  BY DEF MainLeft
<1>2. \A i \in 1..22 : main[i] \in Scripts
  BY MainScripts, Elements
<1>3. \A i \in 1..k : ScriptDone(main[i])'
  <2>1. \A i \in 1..k : main[i] \in Scripts
    BY <1>2
  <2>. QED BY <1>1, <2>1, ScriptDoneKept
<1>. QED BY <1>1, <1>3 DEF MainLeft

\* Steps that change nothing on the chain or on record.
LEMMA ChainSame ==
    ASSUME ChainInv, UNCHANGED <<records, deployed, knows>>
    PROVE  /\ ChainInv' /\ RecordsKept
           /\ \A c : SetUp(c) => SetUp(c)'
           /\ \A s, q : UnderWay(s, q) => UnderWay(s, q)'
<1>1. RecordsKept
  BY DEF RecordsKept
<1>2. \A c, k : (Wired(c, k)' <=> Wired(c, k)) /\ (InstanceOk(c, k)' <=> InstanceOk(c, k)) /\ (SetUp(c)' <=> SetUp(c))
  BY DEF Wired, InstanceOk, SetUp, recorded, addresses
<1>3. \A s, q : CallOk(q, s)' <=> CallOk(q, s)
  BY <1>2 DEF CallOk, recorded, addresses
<1>4. ChainInv'
  BY <1>2 DEF ChainInv, InstancesOk
<1>. QED BY <1>1, <1>2, <1>3, <1>4 DEF UnderWay

\* A run that stops has nothing left to do.
LEMMA RunStopped == ASSUME RunInv, run' = stopped PROVE RunInv'
<1>1. <<>> \in Seq(Scripts) /\ <<>> \in Seq(Calls)
  OBVIOUS
<1>2. /\ run' \in [number : {run'.number}, tag : {run'.tag}, todo : Seq(Scripts), step : {"idle", "script", "execute"},
                    queue : Seq(Calls)]
      /\ run'.step = "idle" /\ run'.queue = <<>>
  BY <1>1 DEF RunInv, stopped
<1>. QED BY <1>2 DEF RunInv

\* A script whose calls are queued.
LEMMA Executing ==
    ASSUME ChainInv, RunInv, UNCHANGED <<records, deployed, knows>>, run.step = "script", run.todo # <<>>,
           NEW s, s = Head(run.todo), NEW queue \in Seq(Calls),
           run' = [run EXCEPT !.step = "execute", !.queue = queue], UnderWay(s, queue)
    PROVE  RunInv'
<1>1. /\ run' \in [number : {run'.number}, tag : {run'.tag}, todo : Seq(Scripts), step : {"idle", "script", "execute"},
                    queue : Seq(Calls)]
      /\ run'.step = "execute" /\ run'.queue = queue /\ run'.todo = run.todo /\ run'.tag = run.tag
  BY DEF RunInv
<1>2. UnderWay(s, queue)'
  BY ChainSame
<1>3. PICK todo : todo = run.todo
  OBVIOUS
<1>4. run.tag = "main" => MainLeft(todo)'
  <2>1. run.tag = "main" => MainLeft(todo)
    BY <1>3 DEF RunInv
  <2>. QED BY <2>1, ChainSame, MainLeftKept
<1>5. UnderWay(Head(run.todo), run.queue)'
  <2>1. Head(run'.todo) = s /\ run'.queue = queue
    BY <1>1
  <2>. QED BY <1>2, <2>1
<1>6. run.tag = "main" => MainLeft(run.todo)'
  BY <1>1, <1>3, <1>4 DEF MainLeft
<1>. QED BY <1>1, <1>5, <1>6 DEF RunInv

\* Addresses on record are what a contract can be given.
LEMMA KnownAddresses ==
    ASSUME ChainInv, NEW A, A \subseteq Contracts PROVE addresses(A) \in Knowledge /\ DOMAIN addresses(A) = A
<1>1. addresses(A) \in [A -> Nat]
  BY DEF ChainInv, addresses
<1>2. A \in SUBSET Contracts
  OBVIOUS
<1>. QED BY <1>1, <1>2 DEF Knowledge

\* A script that deploys a contract queues its deployment, unless it is on record.
LEMMA DeployScriptRuns ==
    ASSUME ChainInv, RunInv, UNCHANGED <<records, deployed, knows>>, run.step = "script", run.todo # <<>>,
           NEW s \in Scripts, s = Head(run.todo), deployScript(s)
    PROVE  RunInv'
<1>1. s.does = "deploy" /\ s.contract \in Contracts /\ s.args = constructedWith(s.contract) /\ s.args \subseteq Contracts
  BY ScriptsOk, ContractsKnown DEF deployScript, ScriptOk
<1>2. CASE records[s.contract] # 0
  <2>1. <<>> \in Seq(Calls) /\ run' = [run EXCEPT !.step = "execute", !.queue = <<>>]
    BY <1>2 DEF deployScript, RunInv
  <2>2. deployed[s.contract] # 0
    BY <1>1, <1>2 DEF ChainInv
  <2>3. UnderWay(s, <<>>)
    BY <1>1, <2>2 DEF UnderWay
  <2>. QED BY <2>1, <2>3, Executing
<1>3. CASE records[s.contract] = 0 /\ recorded(s.args)
  <2>1. PICK q : q = deployCall(s)
    OBVIOUS
  <2>2. q = [does |-> "deploy", contract |-> s.contract, args |-> addresses(s.args)] /\ addresses(s.args) \in Knowledge
    BY <1>1, <2>1, KnownAddresses DEF deployCall
  <2>3. q \in Calls /\ CallOk(q, s)
    BY <1>1, <1>3, <2>2 DEF Calls, CallOk
  <2>4. <<q>> \in Seq(Calls) /\ run' = [run EXCEPT !.step = "execute", !.queue = <<q>>]
    BY <1>3, <2>1, <2>3 DEF deployScript
  <2>5. Len(<<q>>) = 1 /\ <<q>>[1] = q /\ <<q>> # <<>> /\ \A j \in 1..1 : j = 1
    OBVIOUS
  <2>6. UnderWay(s, <<q>>)
    BY <1>1, <2>3, <2>5 DEF UnderWay
  <2>. QED BY <2>4, <2>6, Executing
<1>4. CASE records[s.contract] = 0 /\ ~recorded(s.args)
  BY <1>4, RunStopped DEF deployScript
<1>. QED BY <1>2, <1>3, <1>4

\* The script that feeds the oracle queues one call for each block.
LEMMA FeedScriptRuns ==
    ASSUME ChainInv, RunInv, UNCHANGED <<records, deployed, knows>>, run.step = "script", run.todo # <<>>,
           NEW s \in Scripts, s = Head(run.todo), feedScript(s)
    PROVE  RunInv'
<1>1. s.does = "feed" /\ s.blocks \in Seq(Nat)
  BY ScriptsOk DEF feedScript, ScriptOk
<1>2. CASE recorded({"BTCOracle"})
  <2>1. PICK bs \in Seq(Nat) : bs = s.blocks
    BY <1>1
  <2>2. PICK n \in Nat : n = Len(bs)
    OBVIOUS
  <2>3. PICK q : q = [i \in 1..n |-> [does |-> "feed", block |-> bs[i]]]
    OBVIOUS
  <2>4. ASSUME NEW i \in 1..n PROVE q[i] \in Calls /\ CallOk(q[i], s)
    <3>1. PICK b \in Nat : b = bs[i]
      BY <2>2
    <3>2. q[i] = [does |-> "feed", block |-> b]
      BY <2>3, <3>1
    <3>. QED BY <1>1, <3>2 DEF Calls, CallOk
  <2>5. q \in Seq(Calls) /\ Len(q) = n
    <3>1. q = [i \in 1..n |-> q[i]]
      BY <2>3
    <3>. QED BY <2>4, <3>1, FunctionIsSequence
  <2>6. run' = [run EXCEPT !.step = "execute", !.queue = q]
    <3>1. DOMAIN bs = 1..n
      BY <2>2
    <3>. QED BY <1>2, <2>1, <2>3, <3>1 DEF feedScript
  <2>7. UnderWay(s, q)
    BY <1>1, <2>4, <2>5 DEF UnderWay
  <2>. QED BY <2>5, <2>6, <2>7, Executing
<1>3. CASE ~recorded({"BTCOracle"})
  BY <1>3, RunStopped DEF feedScript
<1>. QED BY <1>2, <1>3

\* A script that sets contracts up queues a call for each that is not set up; the others
\* know what is on record, because that is all an instance on record can know.
LEMMA SetUpScriptRuns ==
    ASSUME ChainInv, RunInv, UNCHANGED <<records, deployed, knows>>, run.step = "script", run.todo # <<>>,
           NEW s \in Scripts, s = Head(run.todo), NEW failed, setUpScript(s, failed)
    PROVE  RunInv'
<1>1. s.does = "setUp" /\ s.contracts \in Seq(DOMAIN setUpWith)
  BY ScriptsOk DEF setUpScript, ScriptOk
<1>2. PICK cs \in Seq(DOMAIN setUpWith) : cs = s.contracts
  BY <1>1
<1>3. \A c : c \in ToSet(cs) <=> \E j \in 1..Len(cs) : c = cs[j]
  BY DEF ToSet
<1>4. \A j \in 1..Len(cs) : cs[j] \in DOMAIN setUpWith
  BY Elements
<1>5. CASE \A c \in ToSet(cs) : isOwnershipRenounced(c, c \in failed) \/ recorded({c} \cup setUpWith[c])
  <2>1. PICK q : q = setUpCalls(cs, failed)
    OBVIOUS
  <2>2. ASSUME NEW c \in DOMAIN setUpWith
        PROVE  /\ setUpCall(c) = [does |-> "setUp", contract |-> c, args |-> addresses(setUpWith[c])]
               /\ setUpCall(c) \in Calls
    BY ContractsKnown, KnownAddresses DEF setUpCall, Calls
  <2>3. /\ q \in Seq(Calls)
        /\ \A k \in 1..Len(q) : \E j \in 1..Len(cs) : ~isOwnershipRenounced(cs[j], cs[j] \in failed)
                                                        /\ q[k] = setUpCall(cs[j])
        /\ \A j \in 1..Len(cs) : isOwnershipRenounced(cs[j], cs[j] \in failed)
                                   \/ \E k \in 1..Len(q) : q[k] = setUpCall(cs[j])
    <3>1. \A j \in 1..Len(cs) : setUpCall(cs[j]) \in Calls
      BY <1>4, <2>2
    <3>2. q \in Seq(Calls) /\ QueuedFor(q, cs, failed)
      BY <2>1, <3>1, QueuedCalls
    <3>. QED BY <3>2 DEF QueuedFor
  <2>4. ASSUME NEW k \in 1..Len(q) PROVE CallOk(q[k], s)
    <3>1. PICK j \in 1..Len(cs) : ~isOwnershipRenounced(cs[j], cs[j] \in failed) /\ q[k] = setUpCall(cs[j])
      BY <2>3
    <3>2. PICK c \in DOMAIN setUpWith : c = cs[j]
      BY <1>4
    <3>3. recorded({c} \cup setUpWith[c])
      BY <1>3, <1>5, <3>1, <3>2
    <3>4. records[c] # 0 /\ recorded(setUpWith[c])
      BY <3>3 DEF recorded
    <3>5. q[k] = [does |-> "setUp", contract |-> c, args |-> addresses(setUpWith[c])]
      BY <2>2, <3>1, <3>2
    <3>. QED BY <1>1, <3>4, <3>5 DEF CallOk, Wired
  <2>5. ASSUME NEW c \in ToSet(cs) PROVE SetUp(c) \/ \E k \in 1..Len(q) : q[k].contract = c
    <3>1. PICK j \in 1..Len(cs) : c = cs[j]
      BY <1>3
    <3>2. c \in DOMAIN setUpWith /\ c \in Contracts
      BY <1>4, <3>1, ContractsKnown
    <3>3. CASE isOwnershipRenounced(c, c \in failed)
      <4>1. records[c] # 0 /\ DOMAIN knows[c][records[c]] # {}
        BY <3>3 DEF isOwnershipRenounced
      <4>2. records[c] \in 1..deployed[c]
        BY <3>2, <4>1 DEF ChainInv
      <4>3. InstanceOk(c, knows[c][records[c]])
        BY <3>2, <4>2 DEF ChainInv, InstancesOk
      <4>. QED BY <3>2, <4>1, <4>3 DEF InstanceOk, SetUp
    <3>4. CASE ~isOwnershipRenounced(c, c \in failed)
      <4>1. PICK k \in 1..Len(q) : q[k] = setUpCall(c)
        BY <2>3, <3>1, <3>4
      <4>2. q[k].contract = c
        BY <2>2, <3>2, <4>1
      <4>. QED BY <4>2
    <3>. QED BY <3>3, <3>4
  <2>6. UnderWay(s, q)
    BY <1>1, <1>2, <2>4, <2>5 DEF UnderWay
  <2>7. run' = [run EXCEPT !.step = "execute", !.queue = q]
    BY <1>2, <1>5, <2>1 DEF setUpScript
  <2>. QED BY <2>3, <2>6, <2>7, Executing
<1>6. CASE ~ \A c \in ToSet(cs) : isOwnershipRenounced(c, c \in failed) \/ recorded({c} \cup setUpWith[c])
  <2>1. run' = stopped
    BY <1>2, <1>6 DEF setUpScript
  <2>. QED BY <2>1, RunStopped
<1>. QED BY <1>5, <1>6

\* A call has been sent; what the script is to achieve is achieved or queued.
LEMMA CallSent ==
    ASSUME RunInv, RecordsKept, records' = records, \A c \in DOMAIN setUpWith : SetUp(c) => SetUp(c)',
           run.step = "execute", run.queue # <<>>, run' = [run EXCEPT !.queue = Tail(@)],
           NEW s \in Scripts, s = Head(run.todo), NEW q, q = Head(run.queue),
           \A c \in Contracts : deployed[c] # 0 => deployed'[c] # 0,
           q.does = "deploy" => deployed'[q.contract] # 0, q.does = "setUp" => SetUp(q.contract)'
    PROVE  RunInv'
<1>1. PICK queue \in Seq(Calls) : queue = run.queue
  BY DEF RunInv
<1>2. /\ queue # <<>> /\ q = queue[1] /\ Len(queue) \in Nat /\ 1 \in 1..Len(queue)
      /\ Tail(queue) \in Seq(Calls) /\ Len(Tail(queue)) = Len(queue) - 1
      /\ \A j \in 1..Len(Tail(queue)) : Tail(queue)[j] = queue[j + 1]
  BY <1>1
<1>3. PICK rest \in Seq(Calls) : rest = Tail(queue)
  BY <1>2
<1>4. /\ Len(rest) = Len(queue) - 1
      /\ \A j \in 1..Len(rest) : rest[j] = queue[j + 1] /\ j + 1 \in 1..Len(queue)
  BY <1>2, <1>3
<1>5. \A j \in 1..Len(queue) : j = 1 \/ (j - 1 \in 1..Len(rest) /\ queue[j] = rest[j - 1])
  BY <1>2, <1>4
<1>6. /\ run' \in [number : {run'.number}, tag : {run'.tag}, todo : Seq(Scripts), step : {"idle", "script", "execute"},
                    queue : Seq(Calls)]
      /\ run'.step = "execute" /\ run'.queue = rest /\ run'.todo = run.todo /\ run'.tag = run.tag /\ run.todo # <<>>
  BY <1>1, <1>3 DEF RunInv
<1>7. UnderWay(s, queue) /\ ScriptOk(s)
  BY <1>1, ScriptsOk DEF RunInv
<1>8. ASSUME NEW j \in 1..Len(rest) PROVE CallOk(rest[j], s)'
  <2>1. PICK x : x = rest[j]
    OBVIOUS
  <2>2. CallOk(x, s)
    BY <1>4, <1>7, <2>1 DEF UnderWay
  <2>3. CallOk(x, s)'
    BY <2>2 DEF CallOk, Wired, recorded, addresses
  <2>. QED BY <2>1, <2>3
<1>9. CallOk(q, s)
  BY <1>2, <1>7 DEF UnderWay
<1>10. ASSUME s.does = "deploy" PROVE deployed'[s.contract] # 0
  BY <1>9, <1>10 DEF CallOk
<1>11. ASSUME s.does = "setUp", NEW c \in ToSet(s.contracts)
       PROVE  SetUp(c)' \/ \E j \in 1..Len(rest) : rest[j].contract = c
  <2>1. c \in DOMAIN setUpWith
    BY <1>7, <1>11 DEF ScriptOk, ToSet
  <2>2. CASE SetUp(c)
    BY <2>1, <2>2
  <2>3. CASE ~SetUp(c)
    <3>1. PICK j \in 1..Len(queue) : queue[j].contract = c
      BY <1>7, <1>11, <2>3 DEF UnderWay
    <3>2. CASE j = 1
      <4>1. q.contract = c /\ q.does = "setUp"
        BY <1>2, <1>9, <1>11, <3>1, <3>2 DEF CallOk
      <4>. QED BY <4>1
    <3>3. CASE j # 1
      <4>1. j - 1 \in 1..Len(rest) /\ rest[j - 1].contract = c
        BY <1>5, <3>1, <3>3
      <4>. QED BY <4>1
    <3>. QED BY <3>2, <3>3
  <2>. QED BY <2>2, <2>3
<1>12. UnderWay(s, rest)'
  BY <1>8, <1>10, <1>11 DEF UnderWay
<1>13. UnderWay(Head(run.todo), run.queue)'
  <2>1. Head(run'.todo) = s /\ run'.queue = rest
    BY <1>6
  <2>. QED BY <1>12, <2>1
<1>14. PICK todo : todo = run.todo
  OBVIOUS
<1>15. run.tag = "main" => MainLeft(todo)'
  <2>1. run.tag = "main" => MainLeft(todo)
    BY <1>14 DEF RunInv
  <2>. QED BY <2>1, MainLeftKept
<1>16. run.tag = "main" => MainLeft(run.todo)'
  BY <1>6, <1>14, <1>15 DEF MainLeft
<1>. QED BY <1>6, <1>13, <1>16 DEF RunInv

\* A contract is deployed once more: another instance, which is not on record yet.
LEMMA DeploySent ==
    ASSUME ChainInv, records' = records, NEW c \in Contracts, NEW args, args = addresses(constructedWith(c)),
           recorded(constructedWith(c)), deployed' = [deployed EXCEPT ![c] = @ + 1],
           knows' = [knows EXCEPT ![c] = Append(@, args)]
    PROVE  /\ ChainInv' /\ RecordsKept /\ deployed'[c] # 0
           /\ \A x \in Contracts : deployed[x] # 0 => deployed'[x] # 0
           /\ \A x \in DOMAIN setUpWith : SetUp(x) => SetUp(x)'
<1>1. RecordsKept
  BY DEF RecordsKept
<1>2. args \in Knowledge /\ DOMAIN args = constructedWith(c)
  BY ContractsKnown, KnownAddresses
<1>3. PICK n \in Nat, old \in Seq(Knowledge) : n = deployed[c] /\ old = knows[c] /\ Len(old) = n
  BY DEF ChainInv
<1>4. PICK new : /\ new = Append(old, args) /\ new \in Seq(Knowledge) /\ Len(new) = n + 1 /\ new[n + 1] = args
                 /\ \A i \in 1..n : new[i] = old[i]
  <2>. HIDE DEF Knowledge
  <2>1. PICK new : new = Append(old, args)
    OBVIOUS
  <2>2. new \in Seq(Knowledge) /\ Len(new) = n + 1 /\ new[n + 1] = args /\ \A i \in 1..n : new[i] = old[i]
    BY <1>2, <1>3, <2>1
  <2>. QED BY <2>1, <2>2
<1>5. /\ deployed' \in [Contracts -> Nat] /\ deployed'[c] = n + 1 /\ \A x \in Contracts : x # c => deployed'[x] = deployed[x]
      /\ knows' \in [Contracts -> Seq(Knowledge)] /\ knows'[c] = new /\ \A x \in Contracts : x # c => knows'[x] = knows[x]
  BY <1>3, <1>4 DEF ChainInv
<1>6. InstanceOk(c, args)
  <2>1. CASE c \in DOMAIN setUpWith
    BY <1>2, <2>1, ContractsKnown DEF InstanceOk
  <2>. QED BY <2>1 DEF InstanceOk
<1>7. InstancesOk'
  <2>. SUFFICES ASSUME NEW x \in Contracts, NEW i \in 1..deployed'[x] PROVE InstanceOk(x, knows[x][i])'
    BY DEF InstancesOk
  <2>1. PICK k : k = knows'[x][i]
    OBVIOUS
  <2>2. InstanceOk(x, k)
    <3>1. CASE x = c /\ i = n + 1
      BY <1>4, <1>5, <1>6, <2>1, <3>1
    <3>2. CASE x = c /\ i # n + 1
      <4>1. i \in 1..n
        BY <1>3, <1>5, <3>2
      <4>2. k = knows[c][i]
        BY <1>3, <1>4, <1>5, <2>1, <3>2, <4>1
      <4>. QED BY <1>3, <3>2, <4>1, <4>2 DEF ChainInv, InstancesOk
    <3>3. CASE x # c
      BY <1>5, <2>1, <3>3 DEF ChainInv, InstancesOk
    <3>. QED BY <3>1, <3>2, <3>3
  <2>3. InstanceOk(x, k)'
    BY <1>1, <2>2, InstanceKept
  <2>. QED BY <2>1, <2>3
<1>8. ASSUME NEW x \in Contracts PROVE records'[x] <= deployed'[x] /\ Len(knows'[x]) = deployed'[x]
  <2>1. CASE x = c
    <3>1. records[c] \in Nat /\ records[c] <= n
      BY <1>3 DEF ChainInv
    <3>. QED BY <1>4, <1>5, <2>1, <3>1
  <2>2. CASE x # c
    BY <1>5, <2>2 DEF ChainInv
  <2>. QED BY <2>1, <2>2
<1>9. ChainInv'
  BY <1>5, <1>7, <1>8 DEF ChainInv
<1>10. ASSUME NEW x \in DOMAIN setUpWith, SetUp(x) PROVE SetUp(x)'
  <2>1. x \in Contracts /\ records[x] # 0 /\ records[x] \in Nat /\ records[x] <= deployed[x] /\ deployed[x] \in Nat
    BY <1>10, ContractsKnown DEF SetUp, ChainInv
  <2>2. records[x] \in 1..deployed[x]
    BY <2>1
  <2>3. knows'[x][records[x]] = knows[x][records[x]]
    BY <1>3, <1>4, <1>5, <2>1, <2>2
  <2>. QED BY <1>1, <1>10, <2>3, SetUpKept
<1>11. \A x \in Contracts : deployed[x] # 0 => deployed'[x] # 0
  BY <1>3, <1>5
<1>. QED BY <1>1, <1>3, <1>5, <1>9, <1>10, <1>11

\* A contract is set up: it was not before, and knows what is on record from now on.
LEMMA SetUpSent ==
    ASSUME ChainInv, records' = records, deployed' = deployed, NEW c \in DOMAIN setUpWith, NEW args, Wired(c, args),
           records[c] # 0, DOMAIN knows[c][records[c]] = {}, knows' = [knows EXCEPT ![c][records[c]] = args]
    PROVE  /\ ChainInv' /\ RecordsKept /\ SetUp(c)'
           /\ \A x \in DOMAIN setUpWith : SetUp(x) => SetUp(x)'
<1>1. RecordsKept
  BY DEF RecordsKept
<1>2. c \in Contracts /\ setUpWith[c] \subseteq Contracts /\ setUpWith[c] # {}
  BY ContractsKnown
<1>3. args \in Knowledge /\ DOMAIN args = setUpWith[c]
  BY <1>2, KnownAddresses DEF Wired
<1>4. PICK n \in Nat, old \in Seq(Knowledge) : n = deployed[c] /\ old = knows[c] /\ Len(old) = n
  BY <1>2 DEF ChainInv
<1>5. PICK r \in 1..n : r = records[c]
  BY <1>2, <1>4 DEF ChainInv
<1>6. PICK new : /\ new = [old EXCEPT ![r] = args] /\ new \in Seq(Knowledge) /\ Len(new) = n /\ new[r] = args
                 /\ \A i \in 1..n : i # r => new[i] = old[i]
  <2>1. PICK new : new = [old EXCEPT ![r] = args]
    OBVIOUS
  <2>2. DOMAIN old = 1..n
    BY <1>4
  <2>3. /\ new = [i \in 1..n |-> new[i]] /\ new[r] = args
        /\ \A i \in 1..n : i # r => new[i] = old[i]
    BY <2>1, <2>2
  <2>4. \A i \in 1..n : old[i] \in Knowledge
    BY <1>4, Elements
  <2>5. \A i \in 1..n : new[i] \in Knowledge
    BY <1>3, <2>3, <2>4
  <2>6. new \in Seq(Knowledge) /\ Len(new) = n
    BY <2>3, <2>5, FunctionIsSequence
  <2>. QED BY <2>1, <2>3, <2>6
<1>7. /\ knows' \in [Contracts -> Seq(Knowledge)] /\ knows'[c] = new
      /\ \A x \in Contracts : x # c => knows'[x] = knows[x]
  <2>1. knows' = [knows EXCEPT ![c] = new]
    BY <1>4, <1>5, <1>6
  <2>. QED BY <1>2, <1>6, <2>1 DEF ChainInv
<1>8. InstancesOk'
  <2>. SUFFICES ASSUME NEW x \in Contracts, NEW i \in 1..deployed'[x] PROVE InstanceOk(x, knows[x][i])'
    BY DEF InstancesOk
  <2>1. PICK k : k = knows'[x][i]
    OBVIOUS
  <2>2. InstanceOk(x, k)
    <3>1. CASE x = c /\ i = r
      <4>1. k = args
        BY <1>6, <1>7, <2>1, <3>1
      <4>. QED BY <3>1, <4>1 DEF InstanceOk
    <3>2. CASE x = c /\ i # r
      <4>1. i \in 1..n /\ k = knows[c][i]
        BY <1>4, <1>6, <1>7, <2>1, <3>2
      <4>. QED BY <1>4, <3>2, <4>1 DEF ChainInv, InstancesOk
    <3>3. CASE x # c
      BY <1>7, <2>1, <3>3 DEF ChainInv, InstancesOk
    <3>. QED BY <3>1, <3>2, <3>3
  <2>3. InstanceOk(x, k)'
    BY <1>1, <2>2, InstanceKept
  <2>. QED BY <2>1, <2>3
<1>9. \A x \in Contracts : records'[x] <= deployed'[x] /\ Len(knows'[x]) = deployed'[x]
  BY <1>4, <1>6, <1>7 DEF ChainInv
<1>10. ChainInv'
  BY <1>7, <1>8, <1>9 DEF ChainInv
<1>11. SetUp(c)'
  <2>1. knows'[c][records'[c]] = args /\ records'[c] # 0
    BY <1>5, <1>6, <1>7
  <2>2. Wired(c, args)'
    BY <1>1, WiredKept
  <2>. QED BY <2>1, <2>2 DEF SetUp, Wired, recorded, addresses
<1>12. ASSUME NEW x \in DOMAIN setUpWith, SetUp(x) PROVE SetUp(x)'
  <2>1. x # c
    <3>1. ASSUME x = c PROVE FALSE
      <4>1. knows[c][records[c]] = addresses(setUpWith[c])
        BY <1>12, <3>1 DEF SetUp, Wired
      <4>2. DOMAIN addresses(setUpWith[c]) = setUpWith[c]
        BY <1>2, KnownAddresses
      <4>. QED BY <1>2, <4>1, <4>2
    <3>. QED BY <3>1
  <2>2. x \in Contracts
    BY ContractsKnown
  <2>. QED BY <1>1, <1>7, <1>12, <2>1, <2>2, SetUpKept
<1>. QED BY <1>1, <1>10, <1>11, <1>12

\* execute sends the call that is due, or fails with it.
LEMMA CallSends == ASSUME ChainInv, RunInv, sendCall PROVE ChainInv' /\ RunInv'
<1>1. PICK queue \in Seq(Calls), todo \in Seq(Scripts) : queue = run.queue /\ todo = run.todo
  BY DEF RunInv
<1>2. queue # <<>> /\ todo # <<>> /\ run.step = "execute" /\ records' = records
  BY <1>1 DEF sendCall, RunInv
<1>3. PICK q : q = Head(queue)
  OBVIOUS
<1>4. PICK s : s = Head(todo)
  OBVIOUS
<1>5. q \in Calls /\ q = queue[1] /\ 1 \in 1..Len(queue)
  BY <1>2, <1>3
<1>6. s \in Scripts
  BY <1>2, <1>4
<1>7. CallOk(q, s)
  <2>1. UnderWay(s, queue)
    BY <1>1, <1>2, <1>4 DEF RunInv
  <2>. QED BY <1>5, <2>1 DEF UnderWay
<1>8. q = Head(run.queue) /\ s = Head(run.todo) /\ run.queue # <<>>
  BY <1>1, <1>2, <1>3, <1>4
<1>9. PICK fresh \in BOOLEAN : IF callAccepted(q, fresh)
                               THEN applied(q) /\ run' = [run EXCEPT !.queue = Tail(@)]
                               ELSE run' = stopped /\ UNCHANGED <<deployed, knows, fed>>
  BY <1>8 DEF sendCall
<1>10. CASE ~callAccepted(q, fresh)
  <2>1. run' = stopped /\ UNCHANGED <<records, deployed, knows>>
    BY <1>2, <1>9, <1>10
  <2>. QED BY <2>1, ChainSame, RunStopped
<1>11. CASE callAccepted(q, fresh)
  <2>1. applied(q) /\ run' = [run EXCEPT !.queue = Tail(@)]
    BY <1>9, <1>11
  <2>2. CASE q.does = "deploy"
    <3>1. PICK args : args = q.args
      OBVIOUS
    <3>2. PICK c \in Contracts : c = q.contract
      BY <1>5, <2>2 DEF Calls
    <3>3. args = addresses(constructedWith(c)) /\ recorded(constructedWith(c))
      BY <1>7, <2>2, <3>1, <3>2 DEF CallOk
    <3>4. deployed' = [deployed EXCEPT ![c] = @ + 1] /\ knows' = [knows EXCEPT ![c] = Append(@, args)]
      BY <2>1, <2>2, <3>1, <3>2 DEF applied
    <3>5. /\ ChainInv' /\ RecordsKept /\ deployed'[c] # 0
          /\ \A x \in Contracts : deployed[x] # 0 => deployed'[x] # 0
          /\ \A x \in DOMAIN setUpWith : SetUp(x) => SetUp(x)'
      BY <1>2, <3>3, <3>4, DeploySent
    <3>6. deployed'[q.contract] # 0 /\ q.does # "setUp"
      BY <2>2, <3>1, <3>2, <3>5
    <3>. QED BY <1>2, <1>6, <1>8, <2>1, <3>5, <3>6, CallSent
  <2>3. CASE q.does = "setUp"
    <3>1. PICK args : args = q.args
      OBVIOUS
    <3>2. PICK c \in DOMAIN setUpWith : c = q.contract
      BY <1>5, <2>3 DEF Calls
    <3>3. records[c] # 0 /\ Wired(c, args)
      BY <1>7, <2>3, <3>1, <3>2 DEF CallOk
    <3>4. deployed' = deployed /\ knows' = [knows EXCEPT ![c][records[c]] = args]
      BY <2>1, <2>3, <3>1, <3>2 DEF applied
    <3>5. DOMAIN knows[c][records[c]] = {}
      BY <1>11, <2>3, <3>1, <3>2 DEF callAccepted
    <3>6. ChainInv' /\ RecordsKept /\ SetUp(c)' /\ \A x \in DOMAIN setUpWith : SetUp(x) => SetUp(x)'
      BY <1>2, <3>3, <3>4, <3>5, SetUpSent
    <3>7. SetUp(q.contract)' /\ q.does # "deploy"
      BY <2>3, <3>1, <3>2, <3>6
    <3>. QED BY <1>2, <1>6, <1>8, <2>1, <3>4, <3>6, <3>7, CallSent
  <2>4. CASE q.does = "feed"
    <3>1. UNCHANGED <<records, deployed, knows>>
      BY <1>2, <2>1, <2>4 DEF applied
    <3>2. ChainInv' /\ RecordsKept /\ \A x \in DOMAIN setUpWith : SetUp(x) => SetUp(x)'
      BY <3>1, ChainSame
    <3>3. \A x \in Contracts : deployed[x] # 0 => deployed'[x] # 0
      BY <3>1
    <3>4. q.does # "deploy" /\ q.does # "setUp"
      BY <2>4
    <3>. QED BY <1>2, <1>6, <1>8, <2>1, <3>2, <3>3, <3>4, CallSent
  <2>5. q.does \in {"deploy", "setUp", "feed"}
    BY <1>5 DEF Calls
  <2>. QED BY <2>2, <2>3, <2>4, <2>5
<1>. QED BY <1>10, <1>11

\* The next of the scripts, and those after it.
LEMMA MainTail ==
    ASSUME NEW k \in 0..22, NEW todo, todo = SubSeq(main, k + 1, 22), todo # <<>>
    PROVE  k + 1 \in 1..22 /\ Head(todo) = main[k + 1] /\ Tail(todo) = SubSeq(main, k + 2, 22)
<1>1. PICK m \in Seq(Scripts) : m = main /\ Len(m) = 22
  BY MainScripts
<1>2. k + 1 \in 1..22
  <2>1. CASE k = 22
    <3>1. SubSeq(m, 23, 22) = <<>>
      OBVIOUS
    <3>. QED BY <1>1, <2>1, <3>1
  <2>. QED BY <2>1
<1>3. Head(todo) = m[k + 1] /\ Tail(todo) = SubSeq(m, k + 2, 22)
  BY <1>1, <1>2
<1>. QED BY <1>1, <1>2, <1>3

\* What was deployed is recorded, when every call of the script is sent.
LEMMA ScriptEnds == ASSUME ChainInv, RunInv, endScript PROVE ChainInv' /\ RunInv'
<1>1. PICK todo \in Seq(Scripts) : todo = run.todo /\ todo # <<>>
  BY DEF RunInv, endScript
<1>2. PICK s : s = Head(todo)
  OBVIOUS
<1>3. s \in Scripts
  BY <1>1, <1>2
<1>4. ScriptOk(s)
  BY <1>3, ScriptsOk
<1>5. UnderWay(s, <<>>)
  <2>1. Head(run.todo) = s /\ run.queue = <<>>
    BY <1>1, <1>2 DEF endScript
  <2>2. UnderWay(Head(run.todo), run.queue)
    BY DEF RunInv, endScript
  <2>. QED BY <2>1, <2>2
<1>6. records' = IF s.does = "deploy" /\ records[s.contract] = 0
                 THEN [records EXCEPT ![s.contract] = deployed[s.contract]] ELSE records
  BY <1>1, <1>2 DEF endScript
<1>7. deployed' = deployed /\ knows' = knows /\ run' = [run EXCEPT !.step = "script", !.todo = Tail(@)]
  BY DEF endScript
<1>8. RecordsKept
  BY <1>6 DEF RecordsKept, ChainInv
<1>9. /\ records' \in [Contracts -> Nat] /\ \A c \in Contracts : records'[c] <= deployed[c]
      /\ s.does = "deploy" => records'[s.contract] # 0
  <2>1. CASE s.does = "deploy" /\ records[s.contract] = 0
    <3>1. PICK c \in Contracts : c = s.contract
      BY <1>4, <2>1, ContractsKnown DEF ScriptOk
    <3>2. deployed[c] # 0 /\ deployed[c] \in Nat
      BY <1>5, <2>1, <3>1 DEF UnderWay, ChainInv
    <3>3. records' = [records EXCEPT ![c] = deployed[c]]
      BY <1>6, <2>1, <3>1
    <3>. QED BY <3>1, <3>2, <3>3 DEF ChainInv
  <2>2. CASE ~(s.does = "deploy" /\ records[s.contract] = 0)
    BY <1>6, <2>2 DEF ChainInv
  <2>. QED BY <2>1, <2>2
<1>10. InstancesOk'
  <2>. SUFFICES ASSUME NEW x \in Contracts, NEW i \in 1..deployed'[x] PROVE InstanceOk(x, knows[x][i])'
    BY DEF InstancesOk
  <2>1. PICK k : k = knows[x][i]
    OBVIOUS
  <2>2. InstanceOk(x, k)
    BY <1>7, <2>1 DEF ChainInv, InstancesOk
  <2>3. InstanceOk(x, k)'
    BY <1>8, <2>2, InstanceKept
  <2>4. knows'[x][i] = k
    BY <1>7, <2>1
  <2>. QED BY <2>3, <2>4
<1>11. ChainInv'
  BY <1>7, <1>9, <1>10 DEF ChainInv
<1>12. \A c \in DOMAIN setUpWith : SetUp(c) => SetUp(c)'
  BY <1>7, <1>8, SetUpKept
<1>13. ScriptDone(s)'
  <2>1. s.does = "setUp" => \A c \in ToSet(s.contracts) : SetUp(c)
    BY <1>5 DEF UnderWay
  <2>2. s.does = "setUp" => \A c \in ToSet(s.contracts) : SetUp(c)'
    <3>1. s.does = "setUp" => \A c \in ToSet(s.contracts) : c \in DOMAIN setUpWith
      BY <1>4 DEF ScriptOk, ToSet
    <3>. QED BY <1>12, <2>1, <3>1
  <2>. QED BY <1>9, <2>2 DEF ScriptDone
<1>14. /\ run' \in [number : {run'.number}, tag : {run'.tag}, todo : Seq(Scripts), step : {"idle", "script", "execute"},
                    queue : Seq(Calls)]
       /\ run'.step = "script" /\ run'.queue = <<>> /\ run'.todo = Tail(todo) /\ run'.tag = run.tag
  <2>1. Tail(todo) \in Seq(Scripts)
    BY <1>1
  <2>. QED BY <1>1, <1>7, <2>1 DEF RunInv, endScript
<1>15. run.tag = "main" => MainLeft(run.todo)'
  <2>. SUFFICES ASSUME run.tag = "main" PROVE MainLeft(run.todo)'
    OBVIOUS
  <2>1. MainLeft(todo)
    BY <1>1 DEF RunInv, endScript
  <2>2. MainLeft(todo)'
    BY <1>8, <1>12, <2>1, MainLeftKept
  <2>3. PICK k \in 0..22 : todo = SubSeq(main, k + 1, 22) /\ \A i \in 1..k : ScriptDone(main[i])'
    BY <2>2 DEF MainLeft
  <2>4. k + 1 \in 1..22 /\ s = main[k + 1] /\ Tail(todo) = SubSeq(main, k + 2, 22)
    BY <1>1, <1>2, <2>3, MainTail
  <2>5. \A i \in 1..(k + 1) : ScriptDone(main[i])'
    <3>1. \A i \in 1..(k + 1) : i \in 1..k \/ i = k + 1
      OBVIOUS
    <3>2. ScriptDone(main[k + 1])'
      BY <1>13, <2>4
    <3>. QED BY <2>3, <3>1, <3>2
  <2>6. k + 1 \in 0..22 /\ Tail(todo) = SubSeq(main, (k + 1) + 1, 22)
    BY <2>4
  <2>7. PICK rest : rest = Tail(todo)
    OBVIOUS
  <2>8. MainLeft(rest)'
    BY <2>5, <2>6, <2>7 DEF MainLeft
  <2>. QED BY <1>14, <2>7, <2>8
<1>. QED BY <1>11, <1>14, <1>15 DEF RunInv

DeploymentInv == ChainInv /\ RunInv

\* Every step of hardhat deploy keeps the invariant.
LEMMA DeploymentInvariance == DeploymentInv /\ [DeploymentNext]_deploymentVars => DeploymentInv'
<1>. SUFFICES ASSUME ChainInv, RunInv, [DeploymentNext]_deploymentVars PROVE ChainInv' /\ RunInv'
  BY DEF DeploymentInv
<1>1. ASSUME NEW tag \in DOMAIN Tagged, startRun(tag) PROVE ChainInv' /\ RunInv'
  <2>1. UNCHANGED <<records, deployed, knows>>
    BY <1>1 DEF startRun
  <2>2. PICK todo \in Seq(Scripts) : todo = Tagged[tag]
    BY TaggedScripts
  <2>3. /\ run' = [number |-> run.number + 1, tag |-> tag, todo |-> todo, step |-> "script", queue |-> <<>>]
        /\ <<>> \in Seq(Calls)
    BY <1>1, <2>2 DEF startRun
  <2>4. /\ run' \in [number : {run'.number}, tag : {run'.tag}, todo : Seq(Scripts), step : {"idle", "script", "execute"},
                      queue : Seq(Calls)]
        /\ run'.step = "script" /\ run'.queue = <<>> /\ run'.todo = todo /\ run'.tag = tag
    BY <2>3
  <2>5. tag = "main" => MainLeft(todo)'
    <3>. SUFFICES ASSUME tag = "main" PROVE MainLeft(todo)'
      OBVIOUS
    <3>1. todo = main
      BY <2>2 DEF Tagged
    <3>2. SubSeq(main, 1, 22) = main
      <4>1. PICK m \in Seq(Scripts) : m = main /\ Len(m) = 22
        BY MainScripts
      <4>2. SubSeq(m, 1, Len(m)) = m
        OBVIOUS
      <4>. QED BY <4>1, <4>2
    <3>3. 0 \in 0..22 /\ todo = SubSeq(main, 0 + 1, 22) /\ \A i \in 1..0 : ScriptDone(main[i])'
      BY <3>1, <3>2
    <3>. QED BY <3>3 DEF MainLeft
  <2>6. tag = "main" => MainLeft(run.todo)'
    BY <2>4, <2>5
  <2>. QED BY <2>1, <2>4, <2>6, ChainSame DEF RunInv
<1>2. ASSUME runScript PROVE ChainInv' /\ RunInv'
  <2>1. UNCHANGED <<records, deployed, knows>> /\ run.step = "script" /\ run.todo # <<>>
    BY <1>2 DEF runScript
  <2>2. PICK s : s = Head(run.todo)
    OBVIOUS
  <2>3. s \in Scripts
    BY <2>1, <2>2 DEF RunInv
  <2>4. deployScript(s) \/ feedScript(s) \/ \E failed \in SUBSET ToSet(s.contracts) : setUpScript(s, failed)
    BY <1>2, <2>2 DEF runScript
  <2>5. ChainInv'
    BY <2>1, ChainSame
  <2>6. CASE deployScript(s)
    BY <2>1, <2>2, <2>3, <2>5, <2>6, DeployScriptRuns
  <2>7. CASE feedScript(s)
    BY <2>1, <2>2, <2>3, <2>5, <2>7, FeedScriptRuns
  <2>8. CASE \E failed \in SUBSET ToSet(s.contracts) : setUpScript(s, failed)
    BY <2>1, <2>2, <2>3, <2>5, <2>8, SetUpScriptRuns
  <2>. QED BY <2>4, <2>6, <2>7, <2>8
<1>3. ASSUME endRun PROVE ChainInv' /\ RunInv'
  <2>1. UNCHANGED <<records, deployed, knows>> /\ run' = [run EXCEPT !.step = "idle"] /\ run.step = "script"
    BY <1>3 DEF endRun
  <2>2. /\ run' \in [number : {run'.number}, tag : {run'.tag}, todo : Seq(Scripts), step : {"idle", "script", "execute"},
                      queue : Seq(Calls)]
        /\ run'.step = "idle" /\ run'.queue = <<>>
    BY <2>1 DEF RunInv
  <2>. QED BY <2>1, <2>2, ChainSame DEF RunInv
<1>4. ASSUME cutOff PROVE ChainInv' /\ RunInv'
  BY <1>4, ChainSame, RunStopped DEF cutOff
<1>5. ASSUME UNCHANGED deploymentVars PROVE ChainInv' /\ RunInv'
  <2>1. UNCHANGED <<records, deployed, knows>> /\ run' = run
    BY <1>5 DEF deploymentVars
  <2>2. PICK r : r = run
    OBVIOUS
  <2>3. \A todo : MainLeft(todo) => MainLeft(todo)'
    BY <2>1, ChainSame, MainLeftKept
  <2>4. r.step = "execute" => UnderWay(Head(r.todo), r.queue)'
    BY <2>1, <2>2, ChainSame DEF RunInv
  <2>5. r.tag = "main" /\ r.step # "idle" => MainLeft(r.todo)'
    BY <2>2, <2>3 DEF RunInv
  <2>6. run' = r
    BY <2>1, <2>2
  <2>7. run'.step = "execute" => UnderWay(Head(run.todo), run.queue)'
    BY <2>4, <2>6
  <2>8. run'.tag = "main" /\ run'.step # "idle" => MainLeft(run.todo)'
    BY <2>5, <2>6
  <2>9. RunInv'
    BY <2>1, <2>7, <2>8 DEF RunInv
  <2>. QED BY <2>1, <2>9, ChainSame
<1>. QED BY <1>1, <1>2, <1>3, <1>4, <1>5, CallSends, ScriptEnds DEF DeploymentNext

\* What a run of all the scripts leaves: every contract is on record, those that
\* are set up know what is on record, and so do those that are constructed with it.
LEMMA CompleteScriptsWire == DeploymentInv => scriptsWire
<1>. SUFFICES ASSUME ChainInv, RunInv, run.step = "script", run.todo = <<>>, run.tag = "main", NEW c \in Contracts
              PROVE  LET args == IF c \in DOMAIN setUpWith THEN setUpWith[c] ELSE Constructed[c]
                     IN  records[c] # 0 /\ knows[c][records[c]] = addresses(args)
  BY DEF DeploymentInv, scriptsWire
<1>1. \A i \in 1..22 : ScriptDone(main[i])
  <2>1. PICK k \in 0..22 : run.todo = SubSeq(main, k + 1, 22) /\ \A i \in 1..k : ScriptDone(main[i])
    BY DEF RunInv, MainLeft
  <2>2. PICK m \in Seq(Scripts) : m = main /\ Len(m) = 22
    BY MainScripts
  <2>3. k = 22
    <3>1. ASSUME k # 22 PROVE FALSE
      <4>1. Len(SubSeq(m, k + 1, 22)) = 22 - k /\ Len(<<>>) = 0
        BY <2>2, SMTT(30)
      <4>. QED BY <2>1, <2>2, <3>1, <4>1
    <3>. QED BY <3>1
  <2>. QED BY <2>1, <2>3
<1>2. records[c] # 0
  <2>1. PICK i \in 1..22 : main[i].does = "deploy" /\ main[i].contract = c
    BY ScriptOfContract, ContractsKnown
  <2>. QED BY <1>1, <2>1 DEF ScriptDone
<1>3. CASE c \in DOMAIN setUpWith
  <2>1. PICK i \in 1..22 : main[i].does = "setUp" /\ c \in ToSet(main[i].contracts)
    BY <1>3, ScriptOfSetUp
  <2>2. SetUp(c)
    BY <1>1, <2>1 DEF ScriptDone
  <2>. QED BY <1>2, <1>3, <2>2 DEF SetUp, Wired
<1>4. CASE c \notin DOMAIN setUpWith
  <2>1. records[c] \in 1..deployed[c]
    BY <1>2 DEF ChainInv
  <2>2. InstanceOk(c, knows[c][records[c]])
    BY <2>1 DEF ChainInv, InstancesOk
  <2>. QED BY <1>2, <1>4, <2>2, ContractsKnown DEF InstanceOk
<1>. QED BY <1>3, <1>4

\* Whatever runs of hardhat deploy were cut off, whatever calls and reads failed, a
\* run of all the scripts that gets through leaves every contract on record, and knowing
\* exactly the contracts on record (deploy/*, midl.execute).
THEOREM ScriptsLeaveWired == DeploymentSpec => []scriptsWire
<1>1. DeploymentInit => DeploymentInv
  <2>. SUFFICES ASSUME DeploymentInit PROVE DeploymentInv
    OBVIOUS
  <2>1. /\ records = [c \in Contracts |-> 0] /\ deployed = [c \in Contracts |-> 0] /\ knows = [c \in Contracts |-> <<>>]
        /\ run = [number |-> 0, tag |-> "none", todo |-> <<>>, step |-> "idle", queue |-> <<>>]
    BY DEF DeploymentInit, idle
  <2>2. <<>> \in Seq(Knowledge) /\ <<>> \in Seq(Scripts) /\ <<>> \in Seq(Calls) /\ Len(<<>>) = 0
    OBVIOUS
  <2>3. InstancesOk
    BY <2>1 DEF InstancesOk
  <2>4. ChainInv
    BY <2>1, <2>2, <2>3 DEF ChainInv
  <2>5. RunInv
    BY <2>1, <2>2 DEF RunInv
  <2>. QED BY <2>4, <2>5 DEF DeploymentInv
<1>. QED BY <1>1, DeploymentInvariance, CompleteScriptsWire, PTL DEF DeploymentSpec

(***************************************************************************)
(* The task deploy of lib-ethers.  What is left to do is the end of its     *)
(* plan, and everything before it was done by this run.                     *)
(***************************************************************************)
Params == [useRealPriceFeed : BOOLEAN, createUniswapPair : BOOLEAN]
Deployable == {"ActivePool", "BorrowerOperations", "TroveManager", "CollSurplusPool", "CommunityIssuance", "DefaultPool",
      "HintHelpers", "LockupContractFactory", "LQTYStaking", "PriceFeedTestnet", "PriceFeed", "SortedTroves",
      "StabilityPool", "GasPool", "Unipool", "LUSDToken", "LQTYToken", "MultiTroveGetter", "pair", "ERC20Mock",
      "TellorCaller", "none"}
PlanSteps == [does : {"deploy", "hook", "connect", "read", "write"}, contract : Deployable]
step(does, contract) == [does |-> does, contract |-> contract]

\* What a run has achieved when one of its steps is behind it.
stepDone(s) ==
    /\ s.does \in {"deploy", "hook"} => done(task.number, s.does, s.contract)
    /\ s.does = "connect" => \A c \in ToSet(connections) : done(task.number, "connect", c)
    /\ s.does = "read" => task.rewardRate

\* The first k steps of the plan are done, the others are left.
doneUpTo(k, plan) ==
    /\ task.todo = SubSeq(plan, k + 1, Len(plan))
    /\ \A i \in 1..k : stepDone(plan[i])

TaskInv ==
    /\ task \in [network : Networks, useLiveVersion : BOOLEAN, number : Nat, params : Params, rewardRate : BOOLEAN,
                 todo : Seq(PlanSteps), sent : {task.sent}]
    /\ task.todo # <<>> => \E k \in 0..(Len(deployTask(task.params)) - 1) : doneUpTo(k, deployTask(task.params))
    /\ task.todo = <<>> => task.sent = {}
    /\ waiting => due.does \in {"deploy", "hook", "connect"}
    /\ taskWires

\* x comes after the n elements of s.
Extends(E, s, x, n) == Len(E) = n + 1 /\ E[n + 1] = x /\ \A i \in 1..n : E[i] = s[i]

\* A sequence that is extended by one element.
LEMMA JoinedOne ==
    ASSUME NEW S, NEW s \in Seq(S), NEW x \in S
    PROVE  s \o <<x>> \in Seq(S) /\ Extends(s \o <<x>>, s, x, Len(s))
  BY DEF Extends

\* Of sequences: joining them, and functions from 1..n as sequences.
LEMMA Joining ==
    ASSUME NEW S, NEW s \in Seq(S), NEW x \in S, NEW y \in S
    PROVE  s \o <<>> = s /\ s \o (<<x>> \o <<y>>) = (s \o <<x>>) \o <<y>>
<1>1. s \o <<>> = s
  OBVIOUS
<1>2. <<x>> \in Seq(S) /\ <<y>> \in Seq(S)
  OBVIOUS
<1>. QED BY <1>1, <1>2, ConcatAssociative

\* The steps that deploy the contracts, in their order.
LEMMA DeploySteps ==
    ASSUME NEW t \in BOOLEAN, NEW A, A = sending("deploy", deployContracts(t))
    PROVE  /\ A \in Seq(PlanSteps) /\ Len(A) = 17
           /\ \A i \in 1..17 : A[i] = step("deploy", deployContracts(t)[i])
<1>1. PICK cs : cs = deployContracts(t)
  OBVIOUS
<1>2. cs \in Seq(Deployable) /\ Len(cs) = 17
  BY <1>1 DEF deployContracts, Deployable
<1>3. A = [i \in 1..17 |-> step("deploy", cs[i])]
  BY <1>1, <1>2 DEF sending, step
<1>4. \A i \in 1..17 : cs[i] \in Deployable
  BY <1>2, Elements
<1>5. \A i \in 1..17 : step("deploy", cs[i]) \in PlanSteps
  BY <1>4 DEF step, PlanSteps
<1>6. A \in Seq(PlanSteps) /\ Len(A) = 17
  <2>1. /\ 17 \in Nat /\ A = [i \in 1..17 |-> A[i]]
        /\ \A i \in 1..17 : A[i] \in PlanSteps
    BY <1>3, <1>5
  <2>2. PICK n : n = 17
    OBVIOUS
  <2>3. /\ n \in Nat /\ A = [i \in 1..n |-> A[i]]
        /\ \A i \in 1..n : A[i] \in PlanSteps
    BY <2>1, <2>2
  <2>4. A \in Seq(PlanSteps) /\ Len(A) = n
    BY <2>3, FunctionIsSequence
  <2>. QED BY <2>2, <2>4
<1>. QED BY <1>1, <1>3, <1>6

\* What the plan of a run consists of.
PlanOf(D, real, pair) ==
    /\ D \in Seq(PlanSteps) /\ Len(D) = IF real THEN 23 ELSE 21
    /\ \A i \in 1..17 : D[i] = step("deploy", deployContracts(~real)[i])
    /\ D[18] = step("deploy", IF pair THEN "pair" ELSE "ERC20Mock")
    /\ D[19] = step("connect", "none") /\ D[20] = step("read", "none")
    /\ real => D[21] = step("deploy", "TellorCaller") /\ D[22] = step("hook", "PriceFeed")
    /\ D[Len(D)] = step("write", "none")

\* The plan of the task, step by step, for each of its options.
LEMMA Plan ==
    ASSUME NEW params \in Params, NEW D, D = deployTask(params),
           NEW real \in BOOLEAN, NEW pair \in BOOLEAN, params.useRealPriceFeed = real, params.createUniswapPair = pair
    PROVE  PlanOf(D, real, pair)
<1>1. PICK t \in BOOLEAN, p \in BOOLEAN : t = ~real /\ p = pair
  OBVIOUS
<1>2. PICK A : A = sending("deploy", deployContracts(t))
  OBVIOUS
<1>3. /\ A \in Seq(PlanSteps) /\ Len(A) = 17
      /\ \A i \in 1..17 : A[i] = step("deploy", deployContracts(t)[i])
  BY <1>2, DeploySteps
<1>4. /\ step("connect", "none") \in PlanSteps /\ step("read", "none") \in PlanSteps /\ step("write", "none") \in PlanSteps
      /\ step("deploy", "TellorCaller") \in PlanSteps /\ step("hook", "PriceFeed") \in PlanSteps
      /\ step("deploy", IF p THEN "pair" ELSE "ERC20Mock") \in PlanSteps
  BY DEF step, PlanSteps, Deployable
<1>5. PICK b, c, r, w, k, h :
        /\ b = step("deploy", IF p THEN "pair" ELSE "ERC20Mock")
        /\ c = step("connect", "none") /\ r = step("read", "none") /\ w = step("write", "none")
        /\ k = step("deploy", "TellorCaller") /\ h = step("hook", "PriceFeed")
        /\ b \in PlanSteps /\ c \in PlanSteps /\ r \in PlanSteps /\ w \in PlanSteps /\ k \in PlanSteps /\ h \in PlanSteps
  BY <1>4
<1>6. \A does, x : sending(does, <<x>>) = <<step(does, x)>>
  BY DEF sending, step
<1>7. /\ doing("connect") = <<c>> /\ doing("read") = <<r>> /\ doing("write") = <<w>>
      /\ (IF p THEN createUniswapV2Pair ELSE deployMockUniToken) = <<b>>
      /\ deployTellorCaller = <<k>> /\ hookUpPriceFeed = <<h>>
  <2>1. createUniswapV2Pair = <<step("deploy", "pair")>> /\ deployMockUniToken = <<step("deploy", "ERC20Mock")>>
    BY <1>6 DEF createUniswapV2Pair, deployMockUniToken
  <2>2. deployTellorCaller = <<k>> /\ hookUpPriceFeed = <<h>>
    BY <1>5, <1>6 DEF deployTellorCaller, hookUpPriceFeed
  <2>. QED BY <1>5, <2>1, <2>2 DEF doing, step
<1>8. PICK E : E = ((A \o <<b>>) \o <<c>>) \o <<r>>
  OBVIOUS
<1>9. D = (E \o (IF t THEN <<>> ELSE <<k>> \o <<h>>)) \o <<w>>
  <2>1. params.useRealPriceFeed = ~t /\ params.createUniswapPair = p
    BY <1>1
  <2>2. deployTask(params) = (deployAndSetupContracts(t, p) \o (IF t THEN <<>> ELSE <<k>> \o <<h>>)) \o <<w>>
    BY <1>1, <1>7, <2>1 DEF deployTask
  <2>3. deployAndSetupContracts(t, p) = E
    BY <1>2, <1>7, <1>8 DEF deployAndSetupContracts
  <2>. QED BY <2>2, <2>3
<1>10. PICK E1 : E1 = A \o <<b>>
  OBVIOUS
<1>11. /\ E1 \in Seq(PlanSteps) /\ Extends(E1, A, b, 17)
  BY <1>3, <1>5, <1>10, JoinedOne, Zenon
<1>12. PICK E2 : E2 = E1 \o <<c>>
  OBVIOUS
<1>13. /\ E2 \in Seq(PlanSteps) /\ Extends(E2, E1, c, 18)
  <2>1. Len(E1) = 18
    BY <1>11 DEF Extends
  <2>. QED BY <1>5, <1>11, <1>12, <2>1, JoinedOne, Zenon
<1>14. /\ E \in Seq(PlanSteps) /\ Extends(E, E2, r, 19)
  <2>1. Len(E2) = 19 /\ E = E2 \o <<r>>
    BY <1>8, <1>10, <1>12, <1>13 DEF Extends
  <2>. QED BY <1>5, <1>13, <2>1, JoinedOne, Zenon
<1>15. /\ E \in Seq(PlanSteps) /\ Len(E) = 20 /\ E[20] = r /\ E[19] = c /\ E[18] = b
       /\ \A i \in 1..17 : E[i] = A[i]
  BY <1>11, <1>13, <1>14 DEF Extends
<1>16. CASE t
  <2>1. D = E \o <<w>>
    BY <1>5, <1>9, <1>15, <1>16, Joining
  <2>2. /\ D \in Seq(PlanSteps) /\ Extends(D, E, w, 20)
    BY <1>5, <1>15, <2>1, JoinedOne, Zenon
  <2>3. D \in Seq(PlanSteps) /\ Len(D) = 21 /\ D[21] = w /\ D[20] = r /\ D[19] = c /\ D[18] = b
        /\ \A i \in 1..17 : D[i] = A[i]
    BY <1>15, <2>2 DEF Extends
  <2>4. real = FALSE /\ t = ~real /\ p = pair
    BY <1>1, <1>16
  <2>. QED BY <1>1, <1>3, <1>5, <2>3, <2>4 DEF PlanOf
<1>17. CASE ~t
  <2>1. PICK E3 : E3 = E \o <<k>>
    OBVIOUS
  <2>2. /\ E3 \in Seq(PlanSteps) /\ Extends(E3, E, k, 20)
    BY <1>5, <1>15, <2>1, JoinedOne, Zenon
  <2>3. PICK E4 : E4 = E3 \o <<h>>
    OBVIOUS
  <2>4. /\ E4 \in Seq(PlanSteps) /\ Extends(E4, E3, h, 21)
    <3>1. Len(E3) = 21
      BY <2>2 DEF Extends
    <3>. QED BY <1>5, <2>2, <2>3, <3>1, JoinedOne, Zenon
  <2>5. D = E4 \o <<w>>
    <3>1. E \o (<<k>> \o <<h>>) = (E \o <<k>>) \o <<h>>
      BY <1>5, <1>15, Joining, SMTT(30)
    <3>. QED BY <1>9, <1>17, <2>1, <2>3, <3>1
  <2>6. /\ D \in Seq(PlanSteps) /\ Extends(D, E4, w, 22)
    <3>1. Len(E4) = 22
      BY <2>4 DEF Extends
    <3>. QED BY <1>5, <2>4, <2>5, <3>1, JoinedOne, Zenon
  <2>7. D \in Seq(PlanSteps) /\ Len(D) = 23 /\ D[23] = w /\ D[22] = h /\ D[21] = k
    BY <2>2, <2>4, <2>6 DEF Extends
  <2>8. D[20] = r /\ D[19] = c /\ D[18] = b /\ \A i \in 1..17 : D[i] = A[i]
    BY <1>15, <2>2, <2>4, <2>6, SMTT(30) DEF Extends
  <2>9. real = TRUE /\ t = ~real /\ p = pair
    BY <1>1, <1>17
  <2>. QED BY <1>1, <1>3, <1>5, <2>7, <2>8, <2>9 DEF PlanOf
<1>. QED BY <1>16, <1>17

\* What is left of a plan, its next step and the rest.
LEMMA Remaining ==
    ASSUME NEW S, NEW D \in Seq(S), NEW k \in 0..(Len(D) - 1), NEW r, r = SubSeq(D, k + 1, Len(D))
    PROVE  r \in Seq(S) /\ r # <<>> /\ Head(r) = D[k + 1] /\ Tail(r) = SubSeq(D, k + 2, Len(D)) /\ Tail(r) \in Seq(S)
<1>1. Len(D) \in Nat /\ k + 1 \in 1..(Len(D) + 1) /\ k + 1 <= Len(D) /\ (k + 1) + 1 = k + 2
  OBVIOUS
<1>2. r \in Seq(S) /\ r # <<>>
  <2>1. \A i \in (k + 1)..Len(D) : D[i] \in S
    BY <1>1
  <2>2. r \in Seq(S) /\ Len(r) = Len(D) - (k + 1) + 1
    BY <1>1, <2>1, SubSeqProperties
  <2>3. Len(r) # 0
    <3>1. PICK n \in Nat : n = Len(D)
      BY <1>1
    <3>2. k \in 0..(n - 1)
      BY <3>1
    <3>3. n - (k + 1) + 1 # 0
      BY <3>2
    <3>. QED BY <2>2, <3>1, <3>3
  <2>. QED BY <2>2, <2>3
<1>3. Head(r) = D[k + 1] /\ Tail(r) = SubSeq(D, (k + 1) + 1, Len(D))
  BY <1>1, HeadTailOfSubSeq
<1>4. Tail(r) \in Seq(S)
  BY <1>2
<1>. QED BY <1>1, <1>2, <1>3, <1>4

\* What was done stays done, and so does what the file says of it.
LEMMA StaysDone ==
    ASSUME mined \subseteq mined', task'.number = task.number, task.rewardRate => task'.rewardRate,
           NEW s, stepDone(s)
    PROVE  stepDone(s)'
  BY DEF stepDone, done

\* What is mined stays, and so does what a file says of it.
LEMMA FileStays == ASSUME mined \subseteq mined', file' = file, taskWires PROVE taskWires'
  BY DEF taskWires, done

\* A run that is over leaves the file as it is.
LEMMA NoTaskLeft == ASSUME TaskInv, task' = aborted, taskWires' PROVE TaskInv'
<1>1. task' = [network |-> task.network, useLiveVersion |-> task.useLiveVersion, number |-> task.number,
               params |-> [useRealPriceFeed |-> FALSE, createUniswapPair |-> FALSE], rewardRate |-> FALSE,
               todo |-> <<>>, sent |-> {}]
  BY DEF aborted, noTask
<1>2. [useRealPriceFeed |-> FALSE, createUniswapPair |-> FALSE] \in Params /\ <<>> \in Seq(PlanSteps)
  BY DEF Params
<1>. QED BY <1>1, <1>2 DEF TaskInv, waiting

\* A run that goes on with the same step, or has one step less to do.
LEMMA SameStep ==
    ASSUME TaskInv, mined \subseteq mined', file' = file, NEW sent, task' = [task EXCEPT !.sent = sent],
           task.todo = <<>> => sent = {}, task.todo # <<>> /\ sent # {} => due.does \in {"deploy", "hook", "connect"}
    PROVE  TaskInv'
<1>1. /\ task' \in [network : Networks, useLiveVersion : BOOLEAN, number : Nat, params : Params, rewardRate : BOOLEAN,
                    todo : Seq(PlanSteps), sent : {task'.sent}]
      /\ task'.number = task.number /\ task'.rewardRate = task.rewardRate /\ task'.params = task.params
      /\ task'.todo = task.todo /\ task'.sent = sent
  BY DEF TaskInv
<1>2. ASSUME task.todo # <<>>
      PROVE  \E k \in 0..(Len(deployTask(task.params)) - 1) : doneUpTo(k, deployTask(task.params))'
  <2>1. PICK k \in 0..(Len(deployTask(task.params)) - 1) : doneUpTo(k, deployTask(task.params))
    BY <1>2 DEF TaskInv
  <2>2. \A i \in 1..k : stepDone(deployTask(task.params)[i])'
    BY <1>1, <2>1, StaysDone DEF doneUpTo
  <2>. QED BY <1>1, <2>1, <2>2 DEF doneUpTo
<1>3. taskWires'
  BY FileStays DEF TaskInv
<1>. QED BY <1>1, <1>2, <1>3 DEF TaskInv, waiting, due

\* A step of the plan is done: the next one is due.
LEMMA NextStep ==
    ASSUME TaskInv, task.todo # <<>>, mined' = mined, file' = file, NEW rate \in BOOLEAN,
           task' = [task EXCEPT !.rewardRate = rate, !.todo = Tail(@), !.sent = {}],
           task.rewardRate => rate, NEW s, s = due, stepDone(s)'
    PROVE  TaskInv'
<1>1. PICK D : D = deployTask(task.params)
  OBVIOUS
<1>2. PICK k \in 0..(Len(D) - 1) : doneUpTo(k, D)
  BY <1>1 DEF TaskInv
<1>3. D \in Seq(PlanSteps)
  <2>1. task.params \in Params
    BY DEF TaskInv
  <2>2. PICK real \in BOOLEAN, pair \in BOOLEAN :
          task.params.useRealPriceFeed = real /\ task.params.createUniswapPair = pair
    BY <2>1 DEF Params
  <2>3. PlanOf(D, real, pair)
    BY <1>1, <2>1, <2>2, Plan
  <2>. QED BY <2>3 DEF PlanOf
<1>4. /\ due = D[k + 1] /\ Tail(task.todo) = SubSeq(D, k + 2, Len(D)) /\ Tail(task.todo) \in Seq(PlanSteps)
  BY <1>2, <1>3, Remaining DEF doneUpTo, due
<1>5. /\ task' \in [network : Networks, useLiveVersion : BOOLEAN, number : Nat, params : Params, rewardRate : BOOLEAN,
                    todo : Seq(PlanSteps), sent : {task'.sent}]
      /\ task'.number = task.number /\ task'.rewardRate = rate /\ task'.params = task.params
      /\ task'.todo = Tail(task.todo) /\ task'.sent = {}
  BY <1>4 DEF TaskInv
<1>6. \A i \in 1..k : stepDone(D[i])'
  BY <1>2, <1>5, StaysDone DEF doneUpTo
<1>7. \A i \in 1..(k + 1) : stepDone(D[i])'
  <2>1. k \in Nat /\ \A i \in 1..(k + 1) : i \in 1..k \/ i = k + 1
    BY <1>3
  <2>2. stepDone(D[k + 1])'
    BY <1>4
  <2>. QED BY <1>6, <2>1, <2>2
<1>8. task'.todo # <<>> => k + 1 \in 0..(Len(D) - 1)
  BY <1>3, <1>4, <1>5
<1>9. task'.todo = SubSeq(D, (k + 1) + 1, Len(D))
  BY <1>3, <1>4, <1>5, SMTT(30)
<1>10. taskWires'
  BY FileStays DEF TaskInv
<1>. QED BY <1>1, <1>5, <1>7, <1>8, <1>9, <1>10 DEF TaskInv, waiting, doneUpTo

\* A new run has its whole plan to do.
LEMMA RunPlanned == ASSUME TaskInv, NEW params \in DeployParams, startTask(params) PROVE TaskInv'
<1>1. PICK D : D = deployTask(params)
  OBVIOUS
<1>2. params \in Params /\ D \in Seq(PlanSteps) /\ Len(D) \in 21..23
  <2>1. params \in Params
    BY DeployParamsAssumption DEF Params
  <2>2. PICK real \in BOOLEAN, pair \in BOOLEAN : params.useRealPriceFeed = real /\ params.createUniswapPair = pair
    BY <2>1 DEF Params
  <2>3. D \in Seq(PlanSteps) /\ Len(D) = IF real THEN 23 ELSE 21
    <3>1. PlanOf(D, real, pair)
      BY <1>1, <2>1, <2>2, Plan
    <3>. QED BY <3>1 DEF PlanOf
  <2>. QED BY <2>1, <2>3
<1>3. /\ task' \in [network : Networks, useLiveVersion : BOOLEAN, number : Nat, params : Params, rewardRate : BOOLEAN,
                    todo : Seq(PlanSteps), sent : {task'.sent}]
      /\ task'.params = params /\ task'.todo = D /\ task'.sent = {}
  <2>1. task.number + 1 \in Nat /\ task.todo = <<>> /\ task.sent = {}
    BY DEF TaskInv, startTask
  <2>. QED BY <1>1, <1>2, <2>1 DEF TaskInv, startTask
<1>4. D = SubSeq(D, 0 + 1, Len(D)) /\ 0 \in 0..(Len(D) - 1) /\ D # <<>>
  BY <1>2
<1>5. \A i \in 1..0 : stepDone(D[i])'
  OBVIOUS
<1>6. taskWires'
  BY FileStays DEF TaskInv, startTask
<1>. QED BY <1>1, <1>3, <1>4, <1>5, <1>6 DEF TaskInv, waiting, doneUpTo

\* The steps before the one that is due are done; the reward rate is read when
\* the contracts are connected, and the file is written last.
LEMMA DueStep ==
    ASSUME TaskInv, task.todo # <<>>, NEW D, D = deployTask(task.params)
    PROVE  /\ due.does = "read" => stepDone(D[19]) /\ D[19].does = "connect"
           /\ due.does = "write" => \A i \in 1..(Len(D) - 1) : stepDone(D[i])
<1>1. PICK k \in 0..(Len(D) - 1) : doneUpTo(k, D)
  BY DEF TaskInv
<1>2. task.params \in Params
  BY DEF TaskInv
<1>3. PICK real \in BOOLEAN, pair \in BOOLEAN : task.params.useRealPriceFeed = real /\ task.params.createUniswapPair = pair
  BY <1>2 DEF Params
<1>4. /\ D \in Seq(PlanSteps) /\ Len(D) = IF real THEN 23 ELSE 21
      /\ (\A i \in 1..18 : D[i].does = "deploy") /\ D[19].does = "connect" /\ D[20].does = "read"
      /\ real => D[21].does = "deploy" /\ D[22].does = "hook"
  <2>1. /\ D \in Seq(PlanSteps) /\ Len(D) = IF real THEN 23 ELSE 21
        /\ \A i \in 1..17 : D[i] = step("deploy", deployContracts(~real)[i])
        /\ D[18] = step("deploy", IF pair THEN "pair" ELSE "ERC20Mock")
        /\ D[19] = step("connect", "none") /\ D[20] = step("read", "none")
        /\ real => D[21] = step("deploy", "TellorCaller") /\ D[22] = step("hook", "PriceFeed")
    <3>1. PlanOf(D, real, pair)
      BY <1>2, <1>3, Plan
    <3>. QED BY <3>1 DEF PlanOf
  <2>2. \A d, c : step(d, c).does = d
    BY DEF step
  <2>3. ASSUME NEW i \in 1..17 PROVE D[i].does = "deploy"
    <3>1. D[i] = step("deploy", deployContracts(~real)[i])
      BY <2>1
    <3>. QED BY <2>2, <3>1
  <2>4. D[18].does = "deploy" /\ D[19].does = "connect" /\ D[20].does = "read"
    BY <2>1, <2>2
  <2>5. \A i \in 1..18 : i \in 1..17 \/ i = 18
    OBVIOUS
  <2>6. \A i \in 1..18 : D[i].does = "deploy"
    BY <2>3, <2>4, <2>5
  <2>7. ASSUME real PROVE D[21].does = "deploy" /\ D[22].does = "hook"
    <3>1. D[21] = step("deploy", "TellorCaller") /\ D[22] = step("hook", "PriceFeed")
      BY <2>1, <2>7
    <3>. QED BY <2>2, <3>1
  <2>8. D \in Seq(PlanSteps) /\ Len(D) = IF real THEN 23 ELSE 21
    BY <2>1
  <2>. QED BY <2>4, <2>6, <2>7, <2>8
<1>5. due = D[k + 1]
  BY <1>1, <1>4, Remaining DEF doneUpTo, due
<1>6. \A i \in 1..k : stepDone(D[i])
  BY <1>1 DEF doneUpTo
<1>7. ASSUME due.does = "read" PROVE stepDone(D[19]) /\ D[19].does = "connect"
  <2>1. k + 1 \notin 1..19
    <3>1. PICK j : j = k + 1
      OBVIOUS
    <3>2. D[j].does = "read"
      BY <1>5, <1>7, <3>1
    <3>3. \A i \in 1..19 : i \in 1..18 \/ i = 19
      OBVIOUS
    <3>4. j \notin 1..19
      BY <1>4, <3>2, <3>3
    <3>. QED BY <3>1, <3>4
  <2>2. 19 \in 1..k
    BY <1>4, <2>1
  <2>. QED BY <1>4, <1>6, <2>2
<1>8. ASSUME due.does = "write" PROVE \A i \in 1..(Len(D) - 1) : stepDone(D[i])
  <2>1. k + 1 \notin 1..20 /\ (real => k + 1 \notin {21, 22})
    <3>1. PICK j : j = k + 1
      OBVIOUS
    <3>2. D[j].does = "write"
      BY <1>5, <1>8, <3>1
    <3>3. \A i \in 1..20 : i \in 1..18 \/ i = 19 \/ i = 20
      OBVIOUS
    <3>4. j \notin 1..20 /\ (real => j \notin {21, 22})
      BY <1>4, <3>2, <3>3
    <3>. QED BY <3>1, <3>4
  <2>2. Len(D) - 1 = k
    BY <1>4, <2>1
  <2>. QED BY <1>6, <2>2
<1>. QED BY <1>7, <1>8

\* The file that is written names what this run did.
LEMMA FileWritten == ASSUME TaskInv, writeDeployment PROVE taskWires'
<1>1. PICK D : D = deployTask(task.params)
  OBVIOUS
<1>2. /\ file' = [run |-> task.number, rewardRate |-> task.rewardRate,
                  _priceFeedIsTestnet |-> ~task.params.useRealPriceFeed,
                  _uniTokenIsMock |-> ~task.params.createUniswapPair]
      /\ mined' = mined /\ task.todo # <<>> /\ due.does = "write"
  BY DEF writeDeployment, ready
<1>3. \A i \in 1..(Len(D) - 1) : stepDone(D[i])
  BY <1>1, <1>2, DueStep
<1>4. task.params \in Params
  BY DEF TaskInv
<1>5. PICK real \in BOOLEAN, pair \in BOOLEAN : task.params.useRealPriceFeed = real /\ task.params.createUniswapPair = pair
  BY <1>4 DEF Params
<1>6. /\ D \in Seq(PlanSteps) /\ Len(D) = IF real THEN 23 ELSE 21
      /\ \A i \in 1..17 : D[i] = step("deploy", deployContracts(~real)[i])
      /\ D[18] = step("deploy", IF pair THEN "pair" ELSE "ERC20Mock")
      /\ D[19] = step("connect", "none") /\ D[20] = step("read", "none")
      /\ real => D[21] = step("deploy", "TellorCaller") /\ D[22] = step("hook", "PriceFeed")
  <2>1. PlanOf(D, real, pair)
    BY <1>1, <1>4, <1>5, Plan
  <2>. QED BY <2>1 DEF PlanOf
<1>7. \A i \in 1..20 : i \in 1..(Len(D) - 1)
  BY <1>6
<1>8. /\ \A i \in 1..17 : done(task.number, "deploy", deployContracts(~real)[i])
      /\ done(task.number, "deploy", IF pair THEN "pair" ELSE "ERC20Mock")
      /\ \A c \in ToSet(connections) : done(task.number, "connect", c)
      /\ task.rewardRate
  <2>1. 18 \in 1..20 /\ 19 \in 1..20 /\ 20 \in 1..20 /\ \A i \in 1..17 : i \in 1..20
    OBVIOUS
  <2>2. /\ \A i \in 1..17 : stepDone(step("deploy", deployContracts(~real)[i]))
        /\ stepDone(step("deploy", IF pair THEN "pair" ELSE "ERC20Mock"))
        /\ stepDone(step("connect", "none")) /\ stepDone(step("read", "none"))
    BY <1>3, <1>6, <1>7, <2>1
  <2>3. \A d, c : step(d, c).does = d /\ step(d, c).contract = c
    BY DEF step
  <2>. QED BY <2>2, <2>3 DEF stepDone
<1>9. real => done(task.number, "hook", "PriceFeed")
  <2>1. real => 22 \in 1..(Len(D) - 1)
    BY <1>6
  <2>. QED BY <1>3, <1>6, <2>1 DEF stepDone, step
<1>10. file'._priceFeedIsTestnet = ~real /\ file'._uniTokenIsMock = ~pair /\ file'.run = task.number
       /\ file'.rewardRate = task.rewardRate
  BY <1>2, <1>5
<1>11. ASSUME NEW c \in connectToContracts(file') PROVE done(task.number, "deploy", c)
  <2>1. CASE c = IF ~real THEN "PriceFeedTestnet" ELSE "PriceFeed"
    <3>1. c = deployContracts(~real)[10]
      BY <2>1 DEF deployContracts
    <3>. QED BY <1>8, <3>1
  <2>2. CASE c = IF ~pair THEN "ERC20Mock" ELSE "pair"
    BY <1>8, <2>2
  <2>3. CASE c \in ToSet(deployContracts(TRUE)) \ {"PriceFeedTestnet"}
    <3>1. PICK i \in 1..17 : c = deployContracts(TRUE)[i]
      BY <2>3 DEF ToSet, deployContracts
    <3>2. deployContracts(TRUE)[10] = "PriceFeedTestnet"
      BY DEF deployContracts
    <3>3. \A j \in 1..17 : j # 10 => deployContracts(~real)[j] = deployContracts(TRUE)[j]
      BY DEF deployContracts
    <3>. QED BY <1>8, <2>3, <3>1, <3>2, <3>3
  <2>. QED BY <1>10, <1>11, <2>1, <2>2, <2>3 DEF connectToContracts, getAbi
<1>12. \A n, does, c : done(n, does, c)' <=> done(n, does, c)
  BY <1>2 DEF done
<1>. QED BY <1>8, <1>9, <1>10, <1>11, <1>12 DEF taskWires

\* Every step of the task, and of the chain while it runs or between two runs, keeps the
\* invariant.
LEMMA TaskInvariance == TaskSpec => []TaskInv
<1>1. TaskInit => TaskInv
  <2>. SUFFICES ASSUME TaskInit PROVE TaskInv
    OBVIOUS
  <2>1. PICK network \in Networks, live \in BOOLEAN : task = noTask(network, live)
    BY DEF TaskInit
  <2>2. [useRealPriceFeed |-> FALSE, createUniswapPair |-> FALSE] \in Params /\ <<>> \in Seq(PlanSteps)
    BY DEF Params
  <2>3. file.run = 0
    BY DEF TaskInit, noFile
  <2>. QED BY <2>1, <2>2, <2>3 DEF TaskInv, noTask, waiting, taskWires
<1>2. TaskInv /\ [TaskNext]_taskVars => TaskInv'
  <2>. SUFFICES ASSUME TaskInv, [TaskNext]_taskVars PROVE TaskInv'
    OBVIOUS
  <2>1. ASSUME NEW params \in DeployParams, startTask(params) PROVE TaskInv'
    BY <2>1, RunPlanned
  <2>2. ASSUME task' = aborted, mined' = mined, file' = file PROVE TaskInv'
    BY <2>2, FileStays, NoTaskLeft DEF TaskInv
  <2>3. CASE sendNext
    <3>1. /\ ready({"deploy", "hook"}) /\ UNCHANGED <<mined, file>>
          /\ task' = aborted \/ \E n : task' = [task EXCEPT !.sent = {n}]
      BY <2>3 DEF sendNext
    <3>2. ASSUME NEW n, task' = [task EXCEPT !.sent = {n}] PROVE TaskInv'
      BY <3>1, <3>2, SameStep DEF ready
    <3>. QED BY <2>2, <3>1, <3>2
  <2>4. ASSUME NEW refused, NEW unanswered, connectContracts(refused, unanswered) PROVE TaskInv'
    <3>1. /\ ready({"connect"}) /\ UNCHANGED <<mined, file>>
          /\ task' = aborted \/ \E s : task' = [task EXCEPT !.sent = s]
      BY <2>4 DEF connectContracts
    <3>2. ASSUME NEW s, task' = [task EXCEPT !.sent = s] PROVE TaskInv'
      BY <3>1, <3>2, SameStep DEF ready
    <3>. QED BY <2>2, <3>1, <3>2
  <2>5. CASE mine
    <3>1. mined \subseteq mined' /\ file' = file /\ task' = task
      BY <2>5 DEF mine
    <3>2. task' = [task EXCEPT !.sent = task.sent]
      BY <3>1 DEF TaskInv
    <3>. QED BY <3>1, <3>2, SameStep DEF TaskInv, waiting
  <2>6. CASE transactionsMined
    <3>1. /\ task.todo # <<>> /\ mined' = mined /\ file' = file /\ due.does \in {"deploy", "hook", "connect"}
      BY <2>6 DEF transactionsMined, waiting, TaskInv
    <3>2. CASE task' = aborted
      BY <2>2, <3>1, <3>2
    <3>3. CASE task' # aborted
      <4>1. /\ task' = [task EXCEPT !.todo = Tail(@), !.sent = {}]
            /\ due.does = "connect" => \A c \in ToSet(connections) : done(task.number, "connect", c)
            /\ due.does # "connect" => done(task.number, due.does, due.contract)
        BY <2>6, <3>3 DEF transactionsMined
      <4>2. /\ task' = [task EXCEPT !.rewardRate = task.rewardRate, !.todo = Tail(@), !.sent = {}]
            /\ task'.number = task.number /\ task.rewardRate \in BOOLEAN
        BY <4>1 DEF TaskInv
      <4>3. PICK s : s = due
        OBVIOUS
      <4>4. stepDone(s)'
        BY <3>1, <4>1, <4>2, <4>3 DEF stepDone, done
      <4>. QED BY <3>1, <4>2, <4>3, <4>4, NextStep
    <3>. QED BY <3>2, <3>3
  <2>7. CASE readFigures
    <3>1. /\ task.todo # <<>> /\ mined' = mined /\ file' = file /\ due.does = "read" /\ task.sent = {}
          /\ task' = [task EXCEPT !.rewardRate = done(task.number, "connect", "Unipool"), !.todo = Tail(@)]
      BY <2>7 DEF readFigures, ready
    <3>2. PICK D : D = deployTask(task.params)
      OBVIOUS
    <3>3. stepDone(D[19]) /\ D[19].does = "connect"
      BY <3>1, <3>2, DueStep
    <3>4. "Unipool" \in ToSet(connections)
      <4>1. "Unipool" = connections[12] /\ 12 \in DOMAIN connections
        BY DEF connections
      <4>. QED BY <4>1 DEF ToSet
    <3>5. done(task.number, "connect", "Unipool") = TRUE
      BY <3>3, <3>4 DEF stepDone, done
    <3>6. task' = [task EXCEPT !.rewardRate = TRUE, !.todo = Tail(@), !.sent = {}]
      BY <3>1, <3>5 DEF TaskInv
    <3>7. PICK s : s = due
      OBVIOUS
    <3>8. stepDone(s)'
      <4>1. task'.rewardRate = TRUE
        BY <3>6 DEF TaskInv
      <4>. QED BY <3>1, <3>7, <4>1 DEF stepDone
    <3>. QED BY <3>1, <3>6, <3>7, <3>8, NextStep
  <2>8. CASE writeDeployment
    BY <2>8, FileWritten, NoTaskLeft DEF writeDeployment
  <2>9. CASE taskCutOff
    BY <2>2, <2>9 DEF taskCutOff
  <2>10. CASE UNCHANGED taskVars
    <3>1. task' = [task EXCEPT !.sent = task.sent] /\ mined' = mined /\ file' = file
      BY <2>10 DEF taskVars, TaskInv
    <3>. QED BY <3>1, SameStep DEF TaskInv, waiting
  <2>. QED BY <2>1, <2>3, <2>4, <2>5, <2>6, <2>7, <2>8, <2>9, <2>10 DEF TaskNext
<1>. QED BY <1>1, <1>2, PTL DEF TaskSpec

\* Whatever runs of the task were cut off, refused or left transactions behind,
\* the file it leaves names contracts of one run, all deployed and connected.
THEOREM TaskLeavesWired == TaskSpec => []taskWires
<1>1. TaskInv => taskWires
  BY DEF TaskInv
<1>. QED BY <1>1, TaskInvariance, PTL

\* A deployment that is complete is wired, whatever the earlier runs left behind:
\* by the scripts of packages/contracts and by the task of lib-ethers.
THEOREM CompleteRunsWire == DeploymentSpec /\ TaskSpec => []CompleteRunWires
<1>1. scriptsWire /\ taskWires => CompleteRunWires
  BY DEF CompleteRunWires
<1>. QED BY <1>1, ScriptsLeaveWired, TaskLeavesWired, PTL
================================================================================
