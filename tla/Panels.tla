-------------------------------- MODULE Panels ---------------------------------
(***************************************************************************)
(* dev-frontend: the panels for a user's position, that is his trove, his  *)
(* stability deposit or his stake.  Which one is drawn is a state machine  *)
(* fed by buttons, by confirmed transactions and by what the store shows.  *)
(* A position is [status, amount, gain, initial]: of a trove the debt and  *)
(* whether there is a collateral surplus; of a deposit or a stake its size *)
(* and whether there are gains, ETH, LUSD or LQTY.  Only a deposit has an  *)
(* initial amount, that of the depositor's last transaction, which the     *)
(* amount falls below in liquidations; only a trove has a status.          *)
(***************************************************************************)
EXTENDS TransactionState, Integers

CONSTANTS Wealth       \* what the user can put into a deposit, a stake or a trove's debt

VARIABLES
    panel,             \* "trove", "stability" or "staking": the one that is mounted
    view, viewRef,     \* the view set last, and the one that is drawn
    form,              \* what is being edited
    mounted,           \* the view that is in the page, or "nothing"
    seen,              \* the position at the last commit
    raced              \* an event was dispatched for the drawn view while another was on its way

panelVars == <<panel, view, viewRef, form, mounted, seen, raced>>

isEmpty(position) == position.initial = 0 /\ position.amount = 0 /\ ~position.gain

--------------------------------------------------------------------------------
(***************************************************************************)
(* The views.                                                              *)
(***************************************************************************)
troveTransitions ==
    [NONE       |-> [OPEN_TROVE_PRESSED |-> "OPENING", TROVE_OPENED |-> "ACTIVE"],
     LIQUIDATED |-> [OPEN_TROVE_PRESSED |-> "OPENING", TROVE_SURPLUS_COLLATERAL_CLAIMED |-> "NONE",
                     TROVE_OPENED |-> "ACTIVE"],
     REDEEMED   |-> [OPEN_TROVE_PRESSED |-> "OPENING", TROVE_SURPLUS_COLLATERAL_CLAIMED |-> "NONE",
                     TROVE_OPENED |-> "ACTIVE"],
     OPENING    |-> [CANCEL_ADJUST_TROVE_PRESSED |-> "NONE", TROVE_OPENED |-> "ACTIVE"],
     ADJUSTING  |-> [CANCEL_ADJUST_TROVE_PRESSED |-> "ACTIVE", TROVE_ADJUSTED |-> "ACTIVE",
                     TROVE_CLOSED |-> "NONE", TROVE_LIQUIDATED |-> "LIQUIDATED",
                     TROVE_REDEEMED |-> "REDEEMED"],
     CLOSING    |-> [CANCEL_ADJUST_TROVE_PRESSED |-> "ACTIVE", TROVE_ADJUSTED |-> "ACTIVE",
                     TROVE_CLOSED |-> "NONE", TROVE_LIQUIDATED |-> "LIQUIDATED",
                     TROVE_REDEEMED |-> "REDEEMED"],
     ACTIVE     |-> [ADJUST_TROVE_PRESSED |-> "ADJUSTING", CLOSE_TROVE_PRESSED |-> "CLOSING",
                     TROVE_CLOSED |-> "NONE", TROVE_LIQUIDATED |-> "LIQUIDATED",
                     TROVE_REDEEMED |-> "REDEEMED"]]

stabilityTransitions ==
    [NONE       |-> [DEPOSIT_PRESSED |-> "DEPOSITING"],
     DEPOSITING |-> [CANCEL_PRESSED |-> "NONE", DEPOSIT_CONFIRMED |-> "ACTIVE"],
     ACTIVE     |-> [REWARDS_CLAIMED |-> "ACTIVE", ADJUST_DEPOSIT_PRESSED |-> "ADJUSTING",
                     DEPOSIT_EMPTIED |-> "NONE"],
     ADJUSTING  |-> [CANCEL_PRESSED |-> "ACTIVE", DEPOSIT_CONFIRMED |-> "ACTIVE",
                     DEPOSIT_EMPTIED |-> "NONE"]]

\* Mutated form: the end of a trove by redemption is missed.
transition_NotRedeemed(v, event) ==
    LET transitions == IF panel = "trove" THEN troveTransitions ELSE stabilityTransitions
    IN  IF event \in DOMAIN transitions[v] \ {"TROVE_REDEEMED"} THEN transitions[v][event] ELSE v

transition(v, event) ==
    LET transitions == IF panel = "trove" THEN troveTransitions ELSE stabilityTransitions
    IN  IF event \in DOMAIN transitions[v] THEN transitions[v][event] ELSE v

troveStatusEvents ==
    [open |-> "TROVE_OPENED", closedByOwner |-> "TROVE_CLOSED",
     closedByLiquidation |-> "TROVE_LIQUIDATED", closedByRedemption |-> "TROVE_REDEEMED"]

getInitialView(position) ==
    CASE panel = "trove" /\ position.status = "closedByLiquidation" -> "LIQUIDATED"
      [] panel = "trove" /\ position.status = "closedByRedemption" -> "REDEEMED"
      [] panel = "trove" /\ position.status = "open" -> "ACTIVE"
      [] panel # "trove" /\ ~isEmpty(position) -> "ACTIVE"
      [] OTHER -> "NONE"

\* The event the view provider's own effect sends when it sees the position.
TroveViewProvider(position) ==
    IF position.status # seen.status /\ position.status \in DOMAIN troveStatusEvents
    THEN troveStatusEvents[position.status] ELSE "none"

StabilityViewProvider(position) ==
    IF isEmpty(position) /\ ~isEmpty(seen) THEN "DEPOSIT_EMPTIED" ELSE "none"

--------------------------------------------------------------------------------
(***************************************************************************)
(* The forms.  pending is what draws the overlay of a form that keeps it   *)
(* in its reducer.                                                         *)
(***************************************************************************)
NoForm == [original |-> 0, edited |-> 0, pending |-> FALSE, estimating |-> FALSE]

\* What a form starts with: Opening fills in the minimum debt.
formFor(v, position) ==
    CASE v = "OPENING" -> [NoForm EXCEPT !.edited = 1, !.estimating = TRUE]
      [] v \in {"ADJUSTING", "DEPOSITING"} ->
            [NoForm EXCEPT !.original = position.amount, !.edited = position.amount]
      [] OTHER -> NoForm

\* Adjusting: an unsaved change is kept when the trove changes under it, unless
\* the trove has become too small.
applyUnsavedNetDebtChanges(unsaved, amount) ==
    IF unsaved > 0 \/ -unsaved < amount THEN amount + unsaved ELSE amount

\* StabilityDeposit and LQTYStake: apply(whatChanged(edited)).
applyChange(original, edited, amount) ==
    IF edited < original /\ (edited = 0 \/ amount <= original - edited) THEN 0
    ELSE amount + (edited - original)

\* A change that was committed ends the wait and reverts the form; another one
\* moves the edited amount along.
StabilityDepositUpdated(old, new) ==
    LET changeCommitted == \/ new.initial # old.initial \/ new.amount > old.amount
                           \/ old.gain /\ ~new.gain
    IN  IF new = old THEN form
        ELSE IF form.pending /\ changeCommitted
        THEN [form EXCEPT !.original = new.amount, !.edited = new.amount, !.pending = FALSE]
        ELSE [form EXCEPT !.original = new.amount,
                          !.edited = applyChange(form.original, form.edited, new.amount)]

\* The stake's provider stops adjusting on any change of the stake.
StakingUpdated(old, new) ==
    IF new = old THEN form
    ELSE [NoForm EXCEPT !.pending =
             form.pending /\ new.amount = old.amount /\ ~(old.gain /\ ~new.gain)]

\* TroveManager: only the closing form is left of it.
TroveManagerUpdated(old, new) ==
    IF new.status = old.status /\ new.amount = old.amount THEN form
    ELSE [form EXCEPT !.pending = FALSE]

--------------------------------------------------------------------------------
(***************************************************************************)
(* What the buttons of the drawn panel do.                                 *)
(***************************************************************************)
myState(ids, s) == IF s.id \in ids THEN s ELSE idle
overlay(id) == isWaiting(myState({id}, monitored))

NoTrove == {"OPEN_TROVE_PRESSED"}
LiquidatedTrove(position) == IF position.gain THEN {} ELSE {"OPEN_TROVE_PRESSED"}
RedeemedTrove(position) == IF position.gain THEN {} ELSE {"OPEN_TROVE_PRESSED"}
ReadOnlyTrove == {"ADJUST_TROVE_PRESSED", "CLOSE_TROVE_PRESSED"}
NoDeposit == {"DEPOSIT_PRESSED"}

\* Trove and Stability: the events the drawn view can send.
Trove(position) ==
    CASE viewRef = "NONE" -> NoTrove
      [] viewRef = "LIQUIDATED" -> LiquidatedTrove(position)
      [] viewRef = "REDEEMED" -> RedeemedTrove(position)
      [] viewRef = "ACTIVE" -> ReadOnlyTrove
      [] viewRef = "OPENING" /\ ~overlay("trove-creation") -> {"CANCEL_ADJUST_TROVE_PRESSED"}
      [] viewRef = "ADJUSTING" /\ ~overlay("trove-adjustment") /\ position.status = "open" ->
            {"CANCEL_ADJUST_TROVE_PRESSED"}
      [] viewRef = "CLOSING" /\ ~form.pending -> {"CANCEL_ADJUST_TROVE_PRESSED"}
      [] OTHER -> {}

Stability ==
    CASE viewRef = "NONE" -> NoDeposit
      [] viewRef = "ACTIVE" /\ ~overlay("stability-deposit") -> {"ADJUST_DEPOSIT_PRESSED"}
      [] viewRef \in {"DEPOSITING", "ADJUSTING"} /\ ~form.pending -> {"CANCEL_PRESSED"}
      [] OTHER -> {}

\* The transactions it can start, as <<id, what it changes>>.
openingTransactions ==
    IF overlay("trove-creation") \/ form.estimating \/ form.edited = 0 THEN {}
    ELSE {<<"trove-creation", form.edited>>}

adjustingTransactions(position) ==
    IF overlay("trove-adjustment") \/ position.status # "open"
       \/ form.edited \in {0, position.amount} \/ form.edited > Wealth THEN {}
    ELSE {<<"trove-adjustment", form.edited - position.amount>>}

closingTransactions ==
    IF form.pending THEN {} ELSE {<<"trove-closure", 0>>}

CollateralSurplusAction(position) ==
    IF ~position.gain
       \/ myState({"claim-coll-surplus"}, monitored).type \in
             {"waitingForApproval", "waitingForConfirmation", "confirmed"} THEN {}
    ELSE {<<"claim-coll-surplus", 0>>}

validateStabilityDepositChange(risky) ==
    LET change == form.edited - form.original
    IN  change # 0 /\ change <= Wealth - form.original /\ ~(change < 0 /\ risky)

depositTransactions(risky) ==
    IF form.pending \/ ~validateStabilityDepositChange(risky) THEN {}
    ELSE {<<"stability-deposit", form.edited - form.original>>}

\* ClaimRewards; ClaimAndMove differs from it only in where the gain goes.
ActiveDeposit(position) ==
    IF overlay("stability-deposit") \/ ~position.gain THEN {} ELSE {<<"stability-deposit", 0>>}

StakingManager ==
    IF form.pending \/ form.edited = form.original \/ form.edited > Wealth THEN {}
    ELSE {<<"stake", form.edited - form.original>>}

ReadOnlyStake(position) ==
    IF form.pending \/ ~position.gain THEN {} ELSE {<<"stake", 0>>}

transactionsOffered(position, risky) ==
    CASE viewRef = "OPENING" -> openingTransactions
      [] viewRef = "CLOSING" -> closingTransactions
      [] viewRef \in {"LIQUIDATED", "REDEEMED"} -> CollateralSurplusAction(position)
      [] panel = "trove" /\ viewRef = "ADJUSTING" -> adjustingTransactions(position)
      [] panel = "stability" /\ viewRef \in {"DEPOSITING", "ADJUSTING"} -> depositTransactions(risky)
      [] panel = "stability" /\ viewRef = "ACTIVE" -> ActiveDeposit(position)
      [] panel = "staking" /\ viewRef = "ADJUSTING" -> StakingManager
      [] panel = "staking" /\ viewRef = "ACTIVE" -> ReadOnlyStake(position)
      [] OTHER -> {}

--------------------------------------------------------------------------------
(***************************************************************************)
(* The effects of the drawn view at a commit; fresh says that it has just  *)
(* been mounted.                                                           *)
(***************************************************************************)
noticed(ids, fresh) ==
    LET my == myState(ids, slot)
    IN  IF fresh \/ my.type # myState(ids, monitored).type THEN my.type ELSE "unchanged"

\* The event sent for a confirmed transaction.
Adjusting(fresh) ==
    IF noticed({"trove-adjustment"}, fresh) = "confirmedOneShot" THEN "TROVE_ADJUSTED" ELSE "none"

Closing(fresh) ==
    IF (fresh \/ slot # monitored) /\ slot.id \in TroveIds /\ slot.type = "confirmedOneShot"
    THEN IF slot.id = "trove-closure" THEN "TROVE_CLOSED" ELSE "TROVE_ADJUSTED"
    ELSE "none"

surplusClaimed(fresh, position) ==
    IF position.gain /\ noticed({"claim-coll-surplus"}, fresh \/ ~seen.gain) = "confirmedOneShot"
    THEN "TROVE_SURPLUS_COLLATERAL_CLAIMED" ELSE "none"

depositConfirmed(fresh) ==
    IF noticed({"stability-deposit"}, fresh) # "confirmedOneShot" THEN "none"
    ELSE IF view = "ACTIVE" THEN "REWARDS_CLAIMED" ELSE "DEPOSIT_CONFIRMED"

viewEvent(fresh, position) ==
    CASE panel = "trove" /\ view = "ADJUSTING" -> Adjusting(fresh)
      [] panel = "trove" /\ view = "CLOSING" -> Closing(fresh)
      [] panel = "trove" /\ view \in {"LIQUIDATED", "REDEEMED"} -> surplusClaimed(fresh, position)
      [] panel = "stability" /\ view # "NONE" -> depositConfirmed(fresh)
      [] OTHER -> "none"

\* startChange, and finishChange or abortChange
changePendingAfter(pending, type) ==
    CASE type \in {"waitingForApproval", "waitingForConfirmation"} -> TRUE
      [] type \in {"failed", "cancelled"} -> FALSE
      [] OTHER -> pending

pendingAfter(f, fresh) ==
    CASE panel = "trove" /\ view = "CLOSING" -> changePendingAfter(f.pending, noticed(TroveIds, fresh))
      [] panel = "stability" /\ view \in {"DEPOSITING", "ADJUSTING"} ->
            changePendingAfter(f.pending, noticed({"stability-deposit"}, fresh))
      [] panel = "staking" -> changePendingAfter(f.pending, noticed({"stake"}, FALSE))
      [] OTHER -> f.pending

\* The view that is set when the effects have run: the view's own, which still
\* know the old one, then the provider's.
viewAfter(present, fresh, position) ==
    LET own == IF present THEN viewEvent(fresh, position) ELSE "none"
        provider == IF panel = "trove" THEN TroveViewProvider(position)
                    ELSE StabilityViewProvider(position)
    IN  IF panel = "staking" THEN view
        ELSE IF provider # "none" THEN transition(view, provider)
        ELSE IF own # "none" THEN transition(viewRef, own)
        ELSE view
================================================================================
