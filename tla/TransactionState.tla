--------------------------- MODULE TransactionState ----------------------------
(***************************************************************************)
(* dev-frontend: the one transaction state all components share, the hooks *)
(* that ask the wallet to sign and send, and the TransactionMonitor that   *)
(* waits for the receipt.  setTransactionState takes effect at React's     *)
(* next commit, where effects run: slot is the state set last, monitored   *)
(* the one of the last commit.                                             *)
(***************************************************************************)
EXTENDS Naturals, Sequences

CONSTANTS
    TroveIds,          \* "trove-creation", "trove-adjustment", "trove-closure"
    LiquidationIds,    \* "liquidate", "batch-liquidate"
    EthersIds,         \* those sent with liquity.send: "claim-coll-surplus" ...
    MaxTransactions    \* bound on the transactions started

MidlIds == TroveIds \cup LiquidationIds

ASSUME TransactionStateAssumption ==
    /\ MidlIds \cap EthersIds = {}
    /\ MaxTransactions \in Nat

VARIABLES
    slot, monitored,
    watching,          \* the transaction whose receipt is awaited, or 0
    unexplained,       \* failed ones whose revert reason is being fetched
    broadcasting,      \* liquidations whose Bitcoin transaction is being broadcast
    timer,             \* a state that goes in five seconds
    txs                \* the transactions started, in order

txVars == <<slot, monitored, watching, unexplained, broadcasting, timer, txs>>

idle == [type |-> "idle", id |-> "none", n |-> 0]
\* n is the transaction whose hash the state has.
stateOf(type, n) == [type |-> type, id |-> txs[n].id, n |-> n]

TxInit ==
    /\ slot = idle /\ monitored = idle /\ watching = 0 /\ unexplained = {} /\ broadcasting = {} /\ timer = FALSE
    /\ txs = <<>>

--------------------------------------------------------------------------------
(***************************************************************************)
(* The hooks.  A transaction that was started is signing, then pending on  *)
(* the chain, and at last succeeded or failed; or it is abandoned.         *)
(***************************************************************************)
isWaiting(s) == s.type \in {"waitingForApproval", "waitingForConfirmation"}

\* Transaction disables its button while its own transaction waits; so does
\* TransactionMidl, for which waitingForConfirmationMidl is not waiting.
buttonEnabled(id) == ~(isWaiting(monitored) /\ monitored.id = id)

\* useAdjustTrove does not say that it waits for approval.  What the transaction
\* is to change is in by.
start(id, by) ==
    LET n == Len(txs) + 1
    IN  /\ Len(txs) < MaxTransactions
        /\ txs' = Append(txs, [id |-> id, by |-> by, status |-> "signing", included |-> FALSE])
        /\ slot' = IF id = "trove-adjustment" THEN slot
                   ELSE [type |-> "waitingForApproval", id |-> id, n |-> n]
        /\ UNCHANGED <<monitored, watching, unexplained, broadcasting, timer>>

\* useOpenTrove, useAdjustTrove and useCloseTrove: an intention whose signing
\* fails is left out, the rest is sent, and the last transaction is watched.  With
\* nothing signed, or for useLiquidate with no wallet client, nothing is sent and
\* the state waits without a hash.  useLiquidate broadcasts afterwards.
sendMidl(n) ==
    /\ txs[n].status = "signing" /\ txs[n].id \in MidlIds \ {"batch-liquidate"}
    /\ \/ /\ \E included \in (IF txs[n].id = "liquidate" THEN {TRUE} ELSE BOOLEAN) :
                txs' = [txs EXCEPT ![n].status = "pending", ![n].included = included]
          /\ slot' = stateOf("waitingForConfirmationMidl", n)
       \/ /\ txs' = [txs EXCEPT ![n].status = "abandoned"]
          /\ slot' = [type |-> "waitingForConfirmationMidl", id |-> txs[n].id, n |-> 0]
    /\ broadcasting' = IF txs[n].id = "liquidate" THEN broadcasting \cup {n} ELSE broadcasting
    /\ UNCHANGED <<monitored, watching, unexplained, timer>>

\* The end of useLiquidate.  When the broadcast fails the transaction that was sent
\* before may still be mined.
broadcastEnds(n) ==
    /\ n \in broadcasting /\ broadcasting' = broadcasting \ {n}
    /\ slot' \in {slot, stateOf("failed", n)}
    /\ UNCHANGED <<monitored, watching, unexplained, timer, txs>>

\* useLiquidateUpTo ends after the intention was added.
addIntentionOnly(n) ==
    /\ txs[n].status = "signing" /\ txs[n].id = "batch-liquidate"
    /\ txs' = [txs EXCEPT ![n].status = "abandoned"]
    /\ UNCHANGED <<slot, monitored, watching, unexplained, broadcasting, timer>>

\* useTransactionFunction
sendTransaction(n) ==
    /\ txs[n].status = "signing" /\ txs[n].id \in EthersIds
    /\ txs' = [txs EXCEPT ![n].status = "pending", ![n].included = TRUE]
    /\ slot' = stateOf("waitingForConfirmation", n)
    /\ UNCHANGED <<monitored, watching, unexplained, broadcasting, timer>>

\* The client or the wallet throws; only useTransactionFunction tells a user who
\* declined from other failures.
sendFails(n) ==
    /\ txs[n].status = "signing"
    /\ txs' = [txs EXCEPT ![n].status = "abandoned"]
    /\ \E type \in (IF txs[n].id \in EthersIds THEN {"failed", "cancelled"} ELSE {"failed"}) :
          slot' = stateOf(type, n)
    /\ UNCHANGED <<monitored, watching, unexplained, broadcasting, timer>>

mined(n, status) ==
    /\ txs[n].status = "pending"
    /\ txs' = [txs EXCEPT ![n].status = status]
    /\ UNCHANGED <<slot, monitored, watching, unexplained, broadcasting, timer>>

--------------------------------------------------------------------------------
(***************************************************************************)
(* The monitor.                                                            *)
(***************************************************************************)
awaitable(s) == s.type \in {"waitingForConfirmation", "waitingForConfirmationMidl"}

\* The receipt of the transaction that is watched.  A revert of one sent by
\* ethers is explained first; nobody stops that.
receiptSucceeded ==
    /\ watching # 0 /\ txs[watching].status = "succeeded"
    /\ slot' = stateOf("confirmedOneShot", watching)
    /\ watching' = 0
    /\ UNCHANGED <<monitored, unexplained, broadcasting, timer, txs>>

receiptFailed ==
    /\ watching # 0 /\ txs[watching].status = "failed"
    /\ IF txs[watching].id \in EthersIds
       THEN unexplained' = unexplained \cup {watching} /\ UNCHANGED slot
       ELSE slot' = stateOf("failed", watching) /\ UNCHANGED unexplained
    /\ watching' = 0
    /\ UNCHANGED <<monitored, broadcasting, timer, txs>>

tryToGetRevertReason(n) ==
    /\ n \in unexplained
    /\ slot' = stateOf("failed", n)
    /\ unexplained' = unexplained \ {n}
    /\ UNCHANGED <<monitored, watching, broadcasting, timer, txs>>

\* The wait itself fails, or the wallet has replaced the transaction.
receiptLost ==
    /\ watching # 0
    /\ \E type \in (IF txs[watching].id \in EthersIds THEN {"failed", "cancelled"} ELSE {"failed"}) :
          slot' = stateOf(type, watching)
    /\ watching' = 0
    /\ UNCHANGED <<monitored, unexplained, broadcasting, timer, txs>>

timerFires ==
    /\ timer
    /\ slot' = idle
    /\ timer' = FALSE
    /\ UNCHANGED <<monitored, watching, unexplained, broadcasting, txs>>

endsByTimer(s) == s.type \in {"confirmed", "failed", "cancelled"}

\* Mutated form: the wait for a transaction that was left is not given up.
watchingAfter_Kept(s) ==
    IF awaitable(s) THEN s.n ELSE watching

\* What is watched when state s is committed.
watchingAfter(s) ==
    IF awaitable(s) THEN s.n ELSE 0

\* The cleanup of the wait for another transaction sets idle, whatever the new
\* state is.
leftWaiting(s) == watching # 0 /\ (~awaitable(s) \/ s.n # watching)

\* The timer restarts with a new type or id, and not when it has just fired.
timerAfter(s) ==
    endsByTimer(s) /\ (timer \/ s.type # monitored.type \/ s.id # monitored.id)

\* The effects of the monitor at a commit.
monitorEffects ==
    /\ monitored' = slot
    /\ watching' = watchingAfter(slot)
    /\ slot' = IF leftWaiting(slot) THEN idle
               ELSE IF slot.type = "confirmedOneShot" THEN [slot EXCEPT !.type = "confirmed"]
               ELSE slot
    /\ timer' = timerAfter(slot)
    /\ UNCHANGED <<unexplained, broadcasting, txs>>

\* The monitor is unmounted with the store it is shown for, and mounted again:
\* then its effects start anew.
monitorUnmounted ==
    /\ slot' = IF watching # 0 THEN idle ELSE slot
    /\ watching' = 0 /\ timer' = FALSE
    /\ monitored' = idle
    /\ UNCHANGED <<unexplained, broadcasting, txs>>
================================================================================
