------------------------------- MODULE Frontend --------------------------------
(***************************************************************************)
(* dev-frontend as a whole: the pages, the store they are drawn from, one  *)
(* panel, the transactions its user starts and what happens on the chain   *)
(* meanwhile.  React draws and runs effects in commit.                     *)
(***************************************************************************)
EXTENDS Panels

CONSTANTS
    MaxActivity        \* bound on the user's transactions, what others do to the position,
                       \* re-renders of LiquityProvider and changes of the page, together

VARIABLES
    page,              \* "dashboard" or "risky"
    loaded,            \* the store is loaded; else the loader is drawn
    chain, shown,      \* the position on the chain, and in the store
    risky, riskyShown, \* are there undercollateralised troves
    events

pageVars == <<page, loaded, chain, shown, risky, riskyShown, events>>
vars == <<txVars, panelVars, pageVars>>

mayAct == Len(txs) + events < MaxActivity

NoPosition(p) ==
    [status |-> IF p = "trove" THEN "nonExistent" ELSE "none", amount |-> 0, gain |-> FALSE,
     initial |-> 0]

Init ==
    /\ TxInit
    /\ panel \in {"trove", "stability", "staking"}
    /\ view = "NONE" /\ viewRef = "NONE" /\ mounted = "nothing" /\ form = NoForm /\ raced = FALSE
    /\ page = "dashboard" /\ loaded = FALSE
    /\ \E first \in {NoPosition(panel),
                     [NoPosition(panel) EXCEPT !.amount = 1,
                                               !.status = IF panel = "trove" THEN "open" ELSE @,
                                               !.initial = IF panel = "stability" THEN 1 ELSE 0]} :
          chain = first /\ shown = first /\ seen = first
    /\ risky = FALSE /\ riskyShown = FALSE /\ events = 0

--------------------------------------------------------------------------------
(***************************************************************************)
(* The chain.                                                              *)
(***************************************************************************)
\* Does a transaction on the panel's position go through, and what does it leave?
succeeds(tx, p) ==
    tx.included =>
    CASE tx.id = "trove-creation" -> p.status # "open"
      [] tx.id = "trove-adjustment" -> p.status = "open" /\ p.amount + tx.by \in 1 .. Wealth
      [] tx.id = "trove-closure" -> p.status = "open"
      [] tx.id = "claim-coll-surplus" -> p.gain
      [] tx.id \in {"stability-deposit", "stake"} ->
            IF tx.by > 0 THEN p.amount + tx.by <= Wealth ELSE ~isEmpty(p)
      [] OTHER -> TRUE

positionAfter(tx, p) ==
    IF ~tx.included THEN p
    ELSE
    CASE tx.id = "trove-creation" -> [p EXCEPT !.status = "open", !.amount = tx.by]
      [] tx.id = "trove-adjustment" -> [p EXCEPT !.amount = @ + tx.by]
      [] tx.id = "trove-closure" -> [p EXCEPT !.status = "closedByOwner", !.amount = 0]
      [] tx.id = "claim-coll-surplus" -> [p EXCEPT !.gain = FALSE]
      [] tx.id \in {"stability-deposit", "stake"} ->
            LET left == IF p.amount + tx.by < 0 THEN 0 ELSE p.amount + tx.by
            IN  [p EXCEPT !.amount = left, !.gain = FALSE,
                          !.initial = IF tx.id = "stake" THEN 0 ELSE left]
      [] OTHER -> p

mine(n) ==
    /\ IF succeeds(txs[n], chain)
       THEN mined(n, "succeeded") /\ chain' = positionAfter(txs[n], chain)
       ELSE mined(n, "failed") /\ UNCHANGED chain
    /\ UNCHANGED <<panelVars, page, loaded, shown, risky, riskyShown, events>>

\* Liquidations, redemptions, redistributions, fees and prices.
othersAct ==
    /\ mayAct
    /\ events' = events + 1
    /\ \/ /\ chain.status = "open"
          /\ chain' \in
                [status : {"closedByLiquidation", "closedByRedemption"}, amount : {0}, gain : BOOLEAN,
                 initial : {0}]
                \cup {[chain EXCEPT !.amount = @ + 1]}
          /\ UNCHANGED risky
       \/ /\ panel = "stability" /\ chain.amount > 0
          /\ chain' = [chain EXCEPT !.amount = @ - 1, !.gain = TRUE]
          /\ risky' = FALSE
       \/ /\ panel = "stability" /\ ~risky /\ risky' = TRUE
          /\ UNCHANGED chain
       \/ /\ panel \in {"stability", "staking"} /\ chain.amount > 0
          /\ chain' = [chain EXCEPT !.gain = TRUE]
          /\ UNCHANGED risky
    /\ chain'.amount <= Wealth
    /\ UNCHANGED <<txVars, panelVars, page, loaded, shown, riskyShown>>

--------------------------------------------------------------------------------
(***************************************************************************)
(* The store and its provider.                                             *)
(***************************************************************************)
storeLoaded ==
    /\ ~loaded /\ loaded' = TRUE
    /\ shown' = chain /\ riskyShown' = risky /\ seen' = chain
    /\ view' = getInitialView(chain) /\ viewRef' = view'
    /\ form' = NoForm /\ raced' = FALSE
    /\ UNCHANGED <<txVars, panel, mounted, page, chain, risky, events>>

\* A poll of the store: selectors and reducers see it at once.
storeUpdated ==
    /\ loaded
    /\ <<shown, riskyShown>> # <<chain, risky>>
    /\ shown' = chain /\ riskyShown' = risky
    /\ form' = CASE panel = "staking" -> StakingUpdated(shown, chain)
                 [] panel = "stability" /\ mounted \in {"DEPOSITING", "ADJUSTING"} ->
                       StabilityDepositUpdated(shown, chain)
                 [] panel = "trove" /\ mounted = "CLOSING" -> TroveManagerUpdated(shown, chain)
                 [] OTHER -> form
    /\ view' = IF panel = "staking" /\ shown # chain THEN getInitialView(chain) ELSE view
    /\ UNCHANGED <<txVars, panel, viewRef, mounted, seen, raced,
                   page, loaded, chain, risky, events>>

\* LiquityProvider makes a new connection, store and client whenever it is drawn:
\* the loader replaces the pages and the monitor until the new store is loaded.
LiquityProvider ==
    /\ loaded /\ mayAct
    /\ events' = events + 1
    /\ loaded' = FALSE
    /\ mounted' = "nothing" /\ form' = NoForm
    /\ monitorUnmounted
    /\ UNCHANGED <<panel, view, viewRef, seen, raced,
                   page, chain, shown, risky, riskyShown>>

--------------------------------------------------------------------------------
(***************************************************************************)
(* The user.                                                               *)
(***************************************************************************)
press(event) ==
    /\ panel # "staking" /\ mounted # "nothing"
    /\ event \in (IF panel = "trove" THEN Trove(shown) ELSE Stability)
    /\ view' = transition(viewRef, event)
    /\ raced' = (raced \/ view # viewRef)
    /\ UNCHANGED <<txVars, panel, viewRef, form, mounted, seen, pageVars>>

\* NoStake, ReadOnlyStake and StakingManager
startAdjusting ==
    /\ panel = "staking" /\ mounted \in {"NONE", "ACTIVE"} /\ ~form.pending
    /\ view' = "ADJUSTING"
    /\ UNCHANGED <<txVars, panel, viewRef, form, mounted, seen, raced, pageVars>>

cancelAdjusting ==
    /\ panel = "staking" /\ mounted = "ADJUSTING" /\ ~form.pending
    /\ view' = getInitialView(shown)
    /\ UNCHANGED <<txVars, panel, viewRef, form, mounted, seen, raced, pageVars>>

\* A new amount in the form; of an opening its cost is estimated anew.
edit(amount) ==
    /\ mounted \in {"OPENING", "ADJUSTING", "DEPOSITING"} /\ ~form.pending
    /\ amount # form.edited
    /\ form' = [form EXCEPT !.edited = amount, !.estimating = mounted = "OPENING"]
    /\ UNCHANGED <<txVars, panel, view, viewRef, mounted, seen, raced, pageVars>>

ExpensiveTroveChangeWarning ==
    /\ form.estimating
    /\ form' = [form EXCEPT !.estimating = FALSE]
    /\ UNCHANGED <<txVars, panel, view, viewRef, mounted, seen, raced, pageVars>>

confirm ==
    /\ mayAct /\ mounted # "nothing"
    /\ \E t \in transactionsOffered(shown, riskyShown) : start(t[1], t[2])
    /\ UNCHANGED <<panelVars, pageVars>>

\* PriceManager and Transaction
setPrice ==
    /\ mayAct /\ mounted # "nothing" /\ buttonEnabled("set-price")
    /\ start("set-price", 0)
    /\ UNCHANGED <<panelVars, pageVars>>

\* LiquidationManager, RiskyTroves and TransactionMidl
liquidate ==
    /\ mayAct /\ loaded /\ page = "risky" /\ mounted = "nothing"
    /\ \E id \in LiquidationIds : buttonEnabled(id) /\ start(id, 0)
    /\ UNCHANGED <<panelVars, pageVars>>

navigate ==
    /\ loaded /\ mayAct
    /\ events' = events + 1
    /\ page' = IF page = "dashboard" THEN "risky" ELSE "dashboard"
    /\ UNCHANGED <<txVars, panelVars, loaded, chain, shown, risky, riskyShown>>

--------------------------------------------------------------------------------
toDraw == IF page = "dashboard" THEN view ELSE "nothing"

\* React draws what was set and runs the effects: the panel's, then those of the
\* view provider, then the monitor's.
commit ==
    LET present == page = "dashboard"
        fresh   == present /\ mounted # view
        f       == IF fresh THEN [formFor(view, shown) EXCEPT !.pending = panel = "staking" /\ form.pending]
                   ELSE IF panel = "trove" /\ view = "ADJUSTING" /\ present /\ shown.amount # form.original
                   THEN [form EXCEPT !.original = shown.amount,
                           !.edited = applyUnsavedNetDebtChanges(@ - form.original, shown.amount)]
                   ELSE form
    IN  /\ loaded
        /\ \/ toDraw # mounted \/ view # viewRef \/ shown # seen \/ slot # monitored
        /\ mounted' = toDraw
        /\ viewRef' = view
        /\ view' = viewAfter(present, fresh, shown)
        /\ form' = [(IF present \/ panel = "staking" THEN f ELSE NoForm) EXCEPT
                       !.pending = IF present \/ panel = "staking" THEN pendingAfter(f, fresh) ELSE FALSE]
        /\ seen' = shown
        /\ raced' = (raced \/ (present /\ view # viewRef /\ view \in {"LIQUIDATED", "REDEEMED"}
                                 /\ viewEvent(fresh, shown) # "none"))
        /\ monitorEffects
        /\ UNCHANGED <<panel, pageVars>>

\* What the hooks, the wallet and the monitor do leaves the pages alone.
walletAnswers(n) ==
    /\ sendMidl(n) \/ addIntentionOnly(n) \/ broadcastEnds(n) \/ sendTransaction(n) \/ sendFails(n)
    /\ UNCHANGED <<panelVars, pageVars>>
receipt ==
    loaded /\ (receiptSucceeded \/ receiptFailed \/ receiptLost) /\ UNCHANGED <<panelVars, pageVars>>
revertReason(n) == tryToGetRevertReason(n) /\ UNCHANGED <<panelVars, pageVars>>
fiveSeconds == loaded /\ timerFires /\ UNCHANGED <<panelVars, pageVars>>

Next ==
    \/ \E n \in DOMAIN txs : mine(n)
    \/ othersAct \/ storeLoaded \/ storeUpdated \/ LiquityProvider
    \/ \E event \in {"OPEN_TROVE_PRESSED", "CANCEL_ADJUST_TROVE_PRESSED", "ADJUST_TROVE_PRESSED",
                     "CLOSE_TROVE_PRESSED", "DEPOSIT_PRESSED", "CANCEL_PRESSED",
                     "ADJUST_DEPOSIT_PRESSED"} : press(event)
    \/ startAdjusting \/ cancelAdjusting
    \/ \E amount \in 0 .. Wealth : edit(amount)
    \/ ExpensiveTroveChangeWarning \/ confirm \/ setPrice \/ liquidate \/ navigate
    \/ commit
    \/ \E n \in DOMAIN txs : walletAnswers(n) \/ revertReason(n)
    \/ receipt \/ fiveSeconds

--------------------------------------------------------------------------------
settled ==
    /\ loaded /\ mounted = toDraw /\ view = viewRef /\ seen = shown

(* What is drawn is about the position as it is: when everything that was  *)
(* set is drawn, the views ACTIVE, ADJUSTING and CLOSING of a trove are     *)
(* those of an open one, although troves also end by liquidations,          *)
(* redemptions and transactions confirmed before or after the store saw     *)
(* them; and a form for a deposit or a stake starts from the amount that    *)
(* the store shows, so that the change it sends is the one the user sees.   *)
(* dispatchEvent steps from the view that is drawn: a button pressed, or a  *)
(* claim confirmed, between the end of a trove and the next drawing may     *)
(* bring the old view back, so raced leaves these troves out.               *)
ViewCurrent ==
    settled =>
        /\ panel = "trove" /\ ~raced /\ view \in {"ACTIVE", "ADJUSTING", "CLOSING"} => shown.status = "open"
        /\ panel # "trove" /\ mounted \in {"DEPOSITING", "ADJUSTING"} => form.original = shown.amount

(* The monitor says confirmed of a transaction only when it was the one     *)
(* whose receipt it awaited and the one the last drawn state names: a       *)
(* transaction that another one pushed aside is not reported under the      *)
(* other's name.                                                            *)
OnlyAwaitedConfirmed ==
    [][slot'.type = "confirmedOneShot" /\ slot' # slot =>
          /\ txs[slot'.n].status = "succeeded"
          /\ awaitable(monitored) /\ monitored.n = slot'.n]_vars

(* A transaction is not waited for in vain: while the shared state says     *)
(* that one waits for approval or for the confirmation of a hash, the       *)
(* wallet has yet to answer, or the monitor awaits the receipt or the       *)
(* reason of the revert, or will when the state is drawn: whatever else the *)
(* user starts, whoever unmounts the monitor, however the transaction ends. *)
(* Left out are the states that nothing ends: the waitingForApproval that   *)
(* useLiquidateUpTo leaves behind, and a wait without a hash (n is 0), to   *)
(* which the swallowed failures of the midl hooks lead.                     *)
WaitingWatched ==
    (isWaiting(slot) \/ awaitable(slot)) /\ slot.id # "batch-liquidate" /\ slot.n # 0 =>
        \/ slot.type = "waitingForApproval" /\ txs[slot.n].status = "signing"
        \/ awaitable(slot) /\ (slot # monitored \/ watching = slot.n \/ slot.n \in unexplained)

(* The shared state of the transaction and the monitor stay together: what  *)
(* waits with a hash is watched, and only what was watched is confirmed.    *)
TransactionsFollowed == []WaitingWatched /\ OnlyAwaitedConfirmed

--------------------------------------------------------------------------------
(***************************************************************************)
(* The pages of the table of risky troves.  Rows are read when the page,   *)
(* or what asks for a reload, has changed; a read that is answered after   *)
(* another was started is ignored.  Which rows there are and which of them *)
(* can be liquidated is in TroveListing.                                   *)
(***************************************************************************)
CONSTANTS
    pageSize,
    MaxTroves,        \* bound on the troves of the system
    MaxTableEvents    \* bound on the presses of a button, new numbers of troves and failed reads

ASSUME TableAssumption == pageSize \in Nat \ {0} /\ MaxTroves \in Nat /\ MaxTableEvents \in Nat

VARIABLES
    numberOfTroves,   \* in the store
    pageSet,          \* the page set last
    reload,           \* a reload was asked for since the rows were last asked for
    drawnFor,         \* what the effects last ran for: the page and the number of troves
    fetches,          \* the reads under way: page, the number of troves then, mounted
    loading,
    rowsShown,        \* the page and the number of troves of the rows; none at first
    tableEvents

tableVars == <<numberOfTroves, pageSet, reload, drawnFor, fetches, loading, rowsShown, tableEvents>>

numberOfPagesFor(n) == IF n = 0 THEN 1 ELSE (n + pageSize - 1) \div pageSize
lastPage == numberOfPagesFor(numberOfTroves) - 1
clampedPage == IF pageSet <= lastPage THEN pageSet ELSE lastPage

Nothing == [page |-> 0, troves |-> MaxTroves + 1]
now == [page |-> clampedPage, troves |-> numberOfTroves]

\* The effects of the first render run for the initial values.
TableInit ==
    /\ numberOfTroves \in 0 .. MaxTroves
    /\ pageSet = 0 /\ reload = TRUE /\ drawnFor = Nothing
    /\ fetches = {} /\ loading = TRUE /\ rowsShown = Nothing /\ tableEvents = 0

tableMayGoOn == tableEvents < MaxTableEvents /\ tableEvents' = tableEvents + 1

nextPage ==
    /\ clampedPage < lastPage /\ tableMayGoOn
    /\ pageSet' = clampedPage + 1
    /\ UNCHANGED <<numberOfTroves, reload, drawnFor, fetches, loading, rowsShown>>

previousPage ==
    /\ clampedPage > 0 /\ tableMayGoOn
    /\ pageSet' = clampedPage - 1
    /\ UNCHANGED <<numberOfTroves, reload, drawnFor, fetches, loading, rowsShown>>

forceReload ==
    /\ tableMayGoOn
    /\ reload' = TRUE
    /\ UNCHANGED <<numberOfTroves, pageSet, drawnFor, fetches, loading, rowsShown>>

\* A block of the store in which troves were opened or closed.
trovesChange(n) ==
    /\ n # numberOfTroves /\ tableMayGoOn
    /\ numberOfTroves' = n
    /\ UNCHANGED <<pageSet, reload, drawnFor, fetches, loading, rowsShown>>

\* The effects of a render, in their order: the page is clamped, rows are asked for
\* as of the store's block, and a new number of troves asks for them once more.
asksForRows == reload \/ clampedPage # drawnFor.page
effects ==
    /\ pageSet # clampedPage \/ asksForRows \/ numberOfTroves # drawnFor.troves
    /\ pageSet' = clampedPage
    /\ IF asksForRows
       THEN /\ fetches' = {[f EXCEPT !.mounted = FALSE] : f \in fetches}
                          \cup {[at |-> now, mounted |-> TRUE]}
            /\ loading' = TRUE
       ELSE UNCHANGED <<fetches, loading>>
    /\ reload' = (numberOfTroves # drawnFor.troves)
    /\ drawnFor' = now
    /\ UNCHANGED <<numberOfTroves, rowsShown, tableEvents>>

rowsTaken(f) == f.mounted

rowsArrive(f) ==
    /\ fetches' = fetches \ {f}
    /\ rowsShown' = IF rowsTaken(f) THEN f.at ELSE rowsShown
    /\ loading' = (loading /\ ~rowsTaken(f))
    /\ UNCHANGED <<numberOfTroves, pageSet, reload, drawnFor, tableEvents>>

\* Nobody catches the error: the overlay stays.
rowsFail(f) ==
    /\ tableMayGoOn
    /\ fetches' = fetches \ {f}
    /\ UNCHANGED <<numberOfTroves, pageSet, reload, drawnFor, loading, rowsShown>>

TableNext ==
    \/ nextPage \/ previousPage \/ forceReload \/ effects
    \/ \E n \in 0 .. MaxTroves : trovesChange(n)
    \/ \E f \in fetches : rowsArrive(f) \/ rowsFail(f)

\* Whenever the effects have run and nothing is being loaded, the rows are those of
\* the page whose number is shown, read when there were as many troves as the store
\* has: no answer for another page or another number of troves is left on the
\* screen.  (Only their number is compared, as in the code's effect: an opened trove
\* and a closed one in the same block of the store go unnoticed.)
RowsCurrent == drawnFor = now /\ ~reload /\ ~loading => rowsShown = now
================================================================================
