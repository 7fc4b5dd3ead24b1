----------------------------- MODULE BatchedProvider -----------------------------
(***************************************************************************)
(* Calls for the same block that are made within a few milliseconds are    *)
(* sent as one call of Multicall.  There are two of these providers, the   *)
(* mixin Batched of the providers package and the class BatchedProvider of *)
(* dev-frontend, which wraps another provider and has its block tags       *)
(* filled in.                                                              *)
(*                                                                         *)
(* A request is [target, blockTag, names]: the contract and data it is     *)
(* for, the block it is to be answered at and whether it names a sender, a *)
(* value (or gas) or nothing.  The answer to a call is [target, blockTag]. *)
(***************************************************************************)
EXTENDS Sequences, Integers, SequencesExt

CONSTANTS
    Targets, BlockTags,   \* undefined and "latest" are among the block tags
    Reverting,            \* the targets whose calls revert
    MaxCalls              \* bound on the calls

VARIABLES
    variant,    \* "Batched" or "BatchedProvider"
    _multicall, \* whether the chain has a Multicall
    requests,   \* one per call: [request, step, answer]
    _batched,   \* [calls, blockTag]: numbers of the calls
    _timeout,   \* whether _dispatchCalls is scheduled
    dispatched  \* batches that were sent and not answered

batchVars == <<variant, _multicall, requests, _batched, _timeout, dispatched>>

noTag == "undefined"
emptyBatch == [calls |-> <<>>, blockTag |-> IF variant = "Batched" THEN noTag ELSE "latest"]

BatchedInit ==
    /\ variant \in {"Batched", "BatchedProvider"}
    /\ _multicall \in IF variant = "Batched" THEN {FALSE} ELSE BOOLEAN
    /\ requests = <<>> /\ _batched = emptyBatch /\ _timeout = FALSE /\ dispatched = {}

\* set chainId, to a chain with a Multicall
setChainId ==
    /\ variant = "Batched" /\ ~_multicall /\ _multicall' = TRUE
    /\ UNCHANGED <<variant, requests, _batched, _timeout, dispatched>>

orLatest(blockTag) == IF blockTag = noTag THEN "latest" ELSE blockTag

\* The mixin batches calls that name a sender too; the class does not.
batchableInMixin(r) == r.names # "value"
batchableInClass(r) == r.names = "nothing"
batchableCall(r) == IF variant = "Batched" THEN batchableInMixin(r) ELSE batchableInClass(r)

_alreadyBatchedCallsConflictWith_Undefined(blockTag) ==
    _batched.calls # <<>> /\ blockTag # noTag /\ blockTag # _batched.blockTag
_alreadyBatchedCallsConflictWith(blockTag) ==
    _batched.calls # <<>> /\ orLatest(blockTag) # orLatest(_batched.blockTag)

callRequested(r) ==
    /\ Len(requests) < MaxCalls
    /\ variant = "BatchedProvider" => r.blockTag # noTag
    /\ requests' = Append(requests, [request |-> r, step |-> "requested", answer |-> noTag])
    /\ UNCHANGED <<variant, _multicall, _batched, _timeout, dispatched>>

_enqueueCall(c) ==
    /\ _batched' = [calls |-> Append(_batched.calls, c),
                    blockTag |-> IF _batched.calls = <<>> THEN requests[c].request.blockTag ELSE _batched.blockTag]
    /\ _timeout' = TRUE

toBatch(c) ==
    /\ _multicall
    /\ batchableCall(requests[c].request)
    /\ ~_alreadyBatchedCallsConflictWith(requests[c].request.blockTag)

\* call and, in dev-frontend, _performCall: once the parameters are resolved
call(c) ==
    /\ requests[c].step = "requested"
    /\ requests' = [requests EXCEPT ![c].step = "waiting"]
    /\ IF toBatch(c)
       THEN _enqueueCall(c) /\ UNCHANGED dispatched
       ELSE dispatched' = dispatched \cup {[calls |-> <<c>>, blockTag |-> requests[c].request.blockTag]}
            /\ UNCHANGED <<_batched, _timeout>>
    /\ UNCHANGED <<variant, _multicall>>

\* The batch is emptied before the request is sent.
_dispatchCalls ==
    /\ dispatched' = dispatched \cup {_batched}
    /\ _batched' = emptyBatch

timeout ==
    /\ _timeout /\ _timeout' = FALSE
    /\ _dispatchCalls
    /\ UNCHANGED <<variant, _multicall, requests>>

\* What the chain returns for a batch, in the order of its calls.
results(batch) ==
    [i \in 1..Len(batch.calls) |->
        [target |-> requests[batch.calls[i]].request.target, blockTag |-> orLatest(batch.blockTag)]]
resultFor(batch, c) == results(batch)[CHOOSE i \in 1..Len(batch.calls) : batch.calls[i] = c]

\* One call that reverts fails the whole batch; so does a request that fails.
batchAnswered(batch) ==
    /\ \A i \in 1..Len(batch.calls) : requests[batch.calls[i]].request.target \notin Reverting
    /\ requests' = [c \in 1..Len(requests) |->
                      IF Contains(batch.calls, c)
                      THEN [requests[c] EXCEPT !.step = "resolved", !.answer = resultFor(batch, c)]
                      ELSE requests[c]]
    /\ dispatched' = dispatched \ {batch}
    /\ UNCHANGED <<variant, _multicall, _batched, _timeout>>
batchFailed(batch) ==
    /\ requests' = [c \in 1..Len(requests) |->
                      IF Contains(batch.calls, c) THEN [requests[c] EXCEPT !.step = "rejected"] ELSE requests[c]]
    /\ dispatched' = dispatched \ {batch}
    /\ UNCHANGED <<variant, _multicall, _batched, _timeout>>

BatchedNext ==
    \/ setChainId \/ timeout
    \/ \E r \in [target : Targets, blockTag : BlockTags, names : {"nothing", "from", "value"}] : callRequested(r)
    \/ \E c \in 1..Len(requests) : call(c)
    \/ \E batch \in dispatched : batchAnswered(batch) \/ batchFailed(batch)

BatchedSpec == BatchedInit /\ [][BatchedNext]_batchVars

--------------------------------------------------------------------------------
\* Batching is not noticed by a caller: an answer is the answer to the caller's
\* own call at the block it named, and a call without an answer waits in a
\* batch, which is scheduled or under way (_alreadyBatchedCallsConflictWith,
\* _dispatchCalls).
CallsAnswered ==
    \A c \in 1..Len(requests) :
        LET r == requests[c] IN
        CASE r.step = "resolved" -> r.answer = [target |-> r.request.target, blockTag |-> orLatest(r.request.blockTag)]
          [] r.step = "waiting" ->
                \/ _timeout /\ Contains(_batched.calls, c)
                \/ \E batch \in dispatched : Contains(batch.calls, c)
          [] OTHER -> TRUE
================================================================================
