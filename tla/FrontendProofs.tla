----------------------------- MODULE FrontendProofs -----------------------------
(***************************************************************************)
(* What is proved of dev-frontend's pages, for any number of transactions, *)
(* edits, reads, failures and troves: the table of troves and the panes    *)
(* for bonds show no late answer, a transaction that waits is watched and  *)
(* only what was watched is confirmed, and what is drawn of a position is  *)
(* about the position as it is.                                            *)
(***************************************************************************)
EXTENDS MCFrontend, TLAPS

\* The three parts, each with all of its steps; they share no variables.
PanelsSpec == Init /\ [][Next]_vars
BondsSpec == BondsInit /\ [][BondsNext]_bondVars
TableSpec == TableInit /\ [][TableNext]_tableVars
FrontendSpec == PanelsSpec /\ BondsSpec /\ TableSpec

\* The runs are about a restriction of them.
LEMMA RunsAreFrontend == MCSpec => FrontendSpec
<1>1. MCInit => Init /\ BondsInit /\ TableInit
  BY DEF MCInit
<1>2. [MCNext]_allVars => [Next]_vars /\ [BondsNext]_bondVars /\ [TableNext]_tableVars
  BY DEF MCNext, allVars
<1>. QED BY <1>1, <1>2, PTL DEF MCSpec, FrontendSpec, PanelsSpec, BondsSpec, TableSpec

--------------------------------------------------------------------------------
(***************************************************************************)
(* The table of troves.  Unless a reload is due, whatever read is mounted  *)
(* is for what the effects last ran for, and so are the rows once nothing  *)
(* is being loaded.                                                        *)
(***************************************************************************)
IsPlace(at) == \E p, t : at = [page |-> p, troves |-> t]
IsFetch(f) == \E at, m : f = [at |-> at, mounted |-> m]

TableInv ==
    /\ IsPlace(drawnFor) /\ \A f \in fetches : IsFetch(f)
    /\ ~reload => \A f \in fetches : f.mounted => f.at = drawnFor
    /\ ~reload /\ ~loading => rowsShown = drawnFor

\* The page that is shown and the number of troves are a place.
LEMMA NowIsPlace == IsPlace(now)
BY DEF now, IsPlace

\* The effects ask for what they run for, and nothing else stays mounted.
LEMMA EffectsKeep == ASSUME TableInv, effects PROVE TableInv'
<1>1. /\ drawnFor' = now /\ reload' = (numberOfTroves # drawnFor.troves) /\ rowsShown' = rowsShown
  BY DEF effects
<1>2. IsPlace(drawnFor)'
  BY <1>1, NowIsPlace DEF IsPlace
<1>3. CASE asksForRows
  <2>1. /\ fetches' = {[f EXCEPT !.mounted = FALSE] : f \in fetches} \cup {[at |-> now, mounted |-> TRUE]}
        /\ loading' = TRUE
    BY <1>3 DEF effects
  <2>2. ASSUME NEW g \in fetches' PROVE IsFetch(g) /\ (g.mounted => g.at = now)
    <3>1. CASE g = [at |-> now, mounted |-> TRUE]
      BY <3>1 DEF IsFetch
    <3>2. CASE g # [at |-> now, mounted |-> TRUE]
      <4>1. PICK f \in fetches : g = [f EXCEPT !.mounted = FALSE]
        BY <2>1, <3>2
      <4>2. PICK at, m : f = [at |-> at, mounted |-> m]
        BY DEF TableInv, IsFetch
      <4>3. g = [at |-> at, mounted |-> FALSE]
        BY <4>1, <4>2
      <4>. QED BY <4>3 DEF IsFetch
    <3>. QED BY <3>1, <3>2
  <2>. QED BY <1>1, <1>2, <2>1, <2>2 DEF TableInv, IsFetch
<1>4. CASE ~asksForRows
  <2>1. fetches' = fetches /\ loading' = loading
    BY <1>4 DEF effects
  <2>2. ~reload /\ clampedPage = drawnFor.page
    BY <1>4 DEF asksForRows
  <2>3. ~reload' => drawnFor' = drawnFor
    <3>1. PICK p, t : drawnFor = [page |-> p, troves |-> t]
      BY DEF TableInv, IsPlace
    <3>2. drawnFor.page = p /\ drawnFor.troves = t
      BY <3>1
    <3>. QED BY <1>1, <2>2, <3>1, <3>2 DEF now
  <2>. QED BY <1>1, <1>2, <2>1, <2>2, <2>3 DEF TableInv
<1>. QED BY <1>3, <1>4

\* Of the table of troves.
LEMMA TableInvariance == TableSpec => []TableInv
<1>1. TableInit => TableInv
  BY DEF TableInit, TableInv, IsPlace, Nothing
<1>2. TableInv /\ [TableNext]_tableVars => TableInv'
  <2>. SUFFICES ASSUME TableInv, [TableNext]_tableVars PROVE TableInv'
    OBVIOUS
  <2>1. ASSUME UNCHANGED <<drawnFor, fetches, loading, rowsShown>>, reload' \in {reload, TRUE} PROVE TableInv'
    BY <2>1 DEF TableInv
  <2>2. CASE nextPage \/ previousPage \/ forceReload \/ \E n \in 0 .. MaxTroves : trovesChange(n)
    BY <2>1, <2>2 DEF nextPage, previousPage, forceReload, trovesChange
  <2>3. ASSUME NEW f \in fetches, rowsArrive(f) PROVE TableInv'
    <3>1. /\ fetches' = fetches \ {f} /\ drawnFor' = drawnFor /\ reload' = reload
          /\ rowsShown' = IF f.mounted THEN f.at ELSE rowsShown
          /\ loading' = (loading /\ ~f.mounted)
      BY <2>3 DEF rowsArrive, rowsTaken
    <3>. QED BY <3>1 DEF TableInv
  <2>4. ASSUME NEW f \in fetches, rowsFail(f) PROVE TableInv'
    BY <2>4 DEF rowsFail, TableInv
  <2>5. CASE UNCHANGED tableVars
    BY <2>1, <2>5 DEF tableVars
  <2>. QED BY <2>2, <2>3, <2>4, <2>5, EffectsKeep DEF TableNext
<1>. QED BY <1>1, <1>2, PTL DEF TableSpec

\* Rows that are shown are those of the page and the number of troves shown.
LEMMA RowsFollow == TableInv => RowsCurrent
BY DEF TableInv, RowsCurrent

--------------------------------------------------------------------------------
(***************************************************************************)
(* The panes for bonds.  An estimate that is not cancelled was asked for   *)
(* with the amount in the form, after its timer; the answer of a read of   *)
(* an allowance, and an approval that was mined, are as on the chain.      *)
(***************************************************************************)
IsPane(f) == \E i, e, t : f = [input |-> i, estimate |-> e, timer |-> t]
IsEstimate(a) == \E i, c : a = [input |-> i, cancelled |-> c]
IsCheck(c) == \E p, v : c = [of |-> p, value |-> v]
IsBondTx(tx) ==
    \E k, p, q, l, b, s : tx = [kind |-> k, pairs |-> p, needs |-> q, list |-> l, bond |-> b, status |-> s]

EstimateInv ==
    /\ IsPane(pane) /\ \A a \in asked : IsEstimate(a)
    /\ \A a \in asked : ~a.cancelled => ~pane.timer /\ a.input = pane.input
    /\ bondView = "SWAPPING" /\ ~pane.timer /\ pane.estimate # {} => pane.estimate = {pane.input}

given(p) == p \in allowed \/ (p = <<"LUSD", "zapper">> /\ <<"BLUSD", "zapper">> \in allowed)

ApprovalInv ==
    /\ \E S : btxs \in Seq(S)
    /\ \A n \in DOMAIN btxs : IsBondTx(btxs[n])
    /\ \A n \in DOMAIN btxs : btxs[n].status = "mined" /\ btxs[n].pairs # <<>> => Head(btxs[n].pairs) \in allowed
    /\ \A c \in checks : IsCheck(c) /\ (c.value = TRUE => c.of \in allowed)
    /\ \A p \in approved : given(p)

\* A sequence has one more element when one is appended.
LEMMA Appended ==
    ASSUME NEW S, NEW s \in Seq(S), NEW e
    PROVE  /\ \E T : Append(s, e) \in Seq(T)
           /\ Len(s) \in Nat /\ DOMAIN s = 1 .. Len(s)
           /\ DOMAIN Append(s, e) = 1 .. Len(s) + 1
           /\ Append(s, e)[Len(s) + 1] = e
           /\ \A n \in 1 .. Len(s) : Append(s, e)[n] = s[n]
<1>1. s \in Seq(S \cup {e}) /\ e \in S \cup {e}
  OBVIOUS
<1>. QED BY <1>1

\* An element of a sequence may be replaced by another.
LEMMA Replaced ==
    ASSUME NEW S, NEW s \in Seq(S), NEW n \in DOMAIN s, NEW e, NEW r, r = [s EXCEPT ![n] = e]
    PROVE  /\ \E T : r \in Seq(T)
           /\ DOMAIN r = DOMAIN s /\ r[n] = e /\ \A m \in DOMAIN s : m # n => r[m] = s[m]
<1>1. s \in Seq(S \cup {e}) /\ e \in S \cup {e}
  OBVIOUS
<1>. QED BY <1>1

\* A new view starts with an empty form and waits for no estimate.
LEMMA GoToKeeps == ASSUME EstimateInv, NEW v, goTo(v) PROVE EstimateInv'
<1>1. CASE v = bondView
  <2>1. bondView' = bondView /\ pane' = pane /\ asked' = asked
    BY <1>1 DEF goTo, paneVars
  <2>. QED BY <2>1 DEF EstimateInv
<1>2. CASE v # bondView
  <2>1. bondView' = v /\ pane' = paneFor(v) /\ asked' = cancelled(asked)
    BY <1>2 DEF goTo
  <2>2. PICK e, t : paneFor(v) = [input |-> 0, estimate |-> e, timer |-> t] /\ (v = "SWAPPING" => t = TRUE)
    <3>1. PICK t, e : t = (v = "SWAPPING") /\ e = IF v = "MANAGING_LIQUIDITY" THEN {0} ELSE {}
      OBVIOUS
    <3>2. paneFor(v) = [NoPane EXCEPT !.timer = t, !.estimate = e]
      BY <3>1, Zenon DEF paneFor
    <3>3. [NoPane EXCEPT !.timer = t, !.estimate = e] = [input |-> 0, estimate |-> e, timer |-> t]
      <4>1. PICK x, y : NoPane = [input |-> 0, estimate |-> x, timer |-> y]
        BY DEF NoPane
      <4>2. [NoPane EXCEPT !.timer = t, !.estimate = e] = [[NoPane EXCEPT !.timer = t] EXCEPT !.estimate = e]
        OBVIOUS
      <4>3. [NoPane EXCEPT !.timer = t] = [input |-> 0, estimate |-> x, timer |-> t]
        BY <4>1
      <4>4. [[input |-> 0, estimate |-> x, timer |-> t] EXCEPT !.estimate = e] = [input |-> 0, estimate |-> e, timer |-> t]
        OBVIOUS
      <4>. QED BY <4>2, <4>3, <4>4
    <3>. QED BY <3>1, <3>2, <3>3
  <2>3. IsPane(pane') /\ (bondView' = "SWAPPING" => pane'.timer)
    <3>1. pane' = [input |-> 0, estimate |-> e, timer |-> t]
      BY <2>1, <2>2
    <3>2. IsPane(pane')
      BY <3>1 DEF IsPane
    <3>3. pane'.timer = t
      BY <3>1
    <3>. QED BY <2>1, <2>2, <3>2, <3>3
  <2>4. ASSUME NEW a \in asked' PROVE IsEstimate(a) /\ a.cancelled
    <3>1. PICK b \in asked : a = [b EXCEPT !.cancelled = TRUE]
      BY <2>1 DEF cancelled
    <3>2. PICK in, c : b = [input |-> in, cancelled |-> c]
      BY DEF EstimateInv, IsEstimate
    <3>3. a = [input |-> in, cancelled |-> TRUE]
      BY <3>1, <3>2
    <3>. QED BY <3>3 DEF IsEstimate
  <2>. QED BY <2>3, <2>4 DEF EstimateInv
<1>. QED BY <1>1, <1>2

\* An edit cancels the estimates that are under way.
LEMMA EditKeeps == ASSUME EstimateInv, NEW amount, editAmount(amount) PROVE EstimateInv'
<1>1. /\ bondView' = bondView /\ asked' = cancelled(asked)
      /\ pane' = IF amount = 0 /\ bondView = "MANAGING_LIQUIDITY" THEN paneFor(bondView)
                 ELSE [pane EXCEPT !.input = amount, !.timer = TRUE]
  BY DEF editAmount
<1>2. PICK in, e, t : pane = [input |-> in, estimate |-> e, timer |-> t]
  BY DEF EstimateInv, IsPane
<1>3. IsPane(pane') /\ (bondView' = "SWAPPING" => pane'.timer)
  <2>1. CASE amount = 0 /\ bondView = "MANAGING_LIQUIDITY"
    <3>1. PICK x, y : pane' = [input |-> 0, estimate |-> x, timer |-> y]
      BY <1>1, <2>1 DEF paneFor, NoPane
    <3>. QED BY <1>1, <2>1, <3>1 DEF IsPane
  <2>2. CASE ~(amount = 0 /\ bondView = "MANAGING_LIQUIDITY")
    <3>1. pane' = [input |-> amount, estimate |-> e, timer |-> TRUE]
      BY <1>1, <1>2, <2>2
    <3>. QED BY <3>1 DEF IsPane
  <2>. QED BY <2>1, <2>2
<1>4. ASSUME NEW a \in asked' PROVE IsEstimate(a) /\ a.cancelled
  <2>1. PICK b \in asked : a = [b EXCEPT !.cancelled = TRUE]
    BY <1>1 DEF cancelled
  <2>2. PICK i, c : b = [input |-> i, cancelled |-> c]
    BY DEF EstimateInv, IsEstimate
  <2>3. a = [input |-> i, cancelled |-> TRUE]
    BY <2>1, <2>2
  <2>. QED BY <2>3 DEF IsEstimate
<1>. QED BY <1>3, <1>4 DEF EstimateInv

\* The estimate asked for is the one for the form, and nothing else is waited for.
LEMMA AskKeeps == ASSUME EstimateInv, askForEstimate PROVE EstimateInv'
<1>1. PICK in, e, t : pane = [input |-> in, estimate |-> e, timer |-> t]
  BY DEF EstimateInv, IsPane
<1>2. /\ bondView' = bondView /\ pane.timer
      /\ pane' = [input |-> in, estimate |-> IF bondView = "SWAPPING" THEN {} ELSE e, timer |-> FALSE]
      /\ asked' = asked \cup {[input |-> in, cancelled |-> FALSE]}
  BY <1>1 DEF askForEstimate
<1>3. IsPane(pane') /\ pane'.input = in /\ ~pane'.timer /\ (bondView' = "SWAPPING" => pane'.estimate = {})
  BY <1>2 DEF IsPane
<1>4. ASSUME NEW a \in asked' PROVE IsEstimate(a) /\ (~a.cancelled => a.input = in)
  <2>1. CASE a \in asked
    BY <1>1, <1>2, <2>1 DEF EstimateInv
  <2>2. CASE a = [input |-> in, cancelled |-> FALSE]
    BY <2>2 DEF IsEstimate
  <2>. QED BY <1>2, <2>1, <2>2
<1>. QED BY <1>3, <1>4 DEF EstimateInv

\* An answer that is taken is the one for the amount in the form.
LEMMA OutputKeeps == ASSUME EstimateInv, NEW a \in asked, getExpectedSwapOutput(a) PROVE EstimateInv'
<1>1. PICK in, e, t : pane = [input |-> in, estimate |-> e, timer |-> t]
  BY DEF EstimateInv, IsPane
<1>2. bondView' = bondView /\ asked' = asked \ {a}
  BY DEF getExpectedSwapOutput
<1>3. CASE pane' = pane
  BY <1>2, <1>3 DEF EstimateInv
<1>4. CASE pane' # pane
  <2>1. ~a.cancelled /\ pane' = [pane EXCEPT !.estimate = {a.input}]
    BY <1>4 DEF getExpectedSwapOutput, estimateTaken
  <2>2. pane' = [input |-> in, estimate |-> {a.input}, timer |-> t] /\ a.input = in
    BY <1>1, <2>1 DEF EstimateInv
  <2>3. IsPane(pane') /\ pane'.input = in /\ pane'.timer = t /\ pane'.estimate = {pane'.input}
    BY <2>2 DEF IsPane
  <2>. QED BY <1>1, <1>2, <2>3 DEF EstimateInv
<1>. QED BY <1>3, <1>4

\* An estimate in the form stays the one for its amount.
LEMMA EstimateStep == ASSUME EstimateInv, [BondsNext]_bondVars PROVE EstimateInv'
<1>1. ASSUME UNCHANGED <<bondView, pane, asked>> PROVE EstimateInv'
  BY <1>1 DEF EstimateInv
<1>2. CASE syncSteps \/ synchronizeFails
  BY <1>1, <1>2 DEF syncSteps, synchronize, getAccountBonds, getLatestData, interval, synchronizeFails, unchangedBySync,
                    paneVars
<1>3. CASE commitBondView \/ \E kind \in Kinds : statusTimer(kind)
  BY <1>1, <1>3 DEF commitBondView, statusTimer, paneVars
<1>4. ASSUME NEW check, isTokenApproved(check) PROVE EstimateInv'
  BY <1>1, <1>4 DEF isTokenApproved, paneVars
<1>5. ASSUME NEW e, pressButton(e) PROVE EstimateInv'
  BY <1>5, GoToKeeps DEF pressButton
<1>6. ASSUME NEW o, dispatchEvent(o) PROVE EstimateInv'
  BY <1>6, GoToKeeps DEF dispatchEvent
<1>7. ASSUME NEW n, mineBondTransaction(n) \/ approvalConfirmed(n) \/ transactionFailed(n) PROVE EstimateInv'
  BY <1>1, <1>7 DEF mineBondTransaction, approvalConfirmed, transactionFailed, paneVars
<1>8. ASSUME NEW n, confirmed(n) PROVE EstimateInv'
  <2>1. UNCHANGED <<bondView, paneVars>> \/ \E v : goTo(v)
    BY <1>8 DEF confirmed
  <2>. QED BY <1>1, <2>1, GoToKeeps DEF paneVars
<1>9. CASE UNCHANGED bondVars
  BY <1>1, <1>9 DEF bondVars, paneVars
<1>. QED BY <1>2, <1>3, <1>4, <1>5, <1>6, <1>7, <1>8, <1>9, EditKeeps, AskKeeps, OutputKeeps DEF BondsNext

\* What was given stays given.
LEMMA GivenStays == ASSUME allowed \subseteq allowed', NEW p, given(p) PROVE given(p)'
BY DEF given

\* The answer of a read of an allowance is about the chain as it was, and allowances
\* are not taken back.
LEMMA CheckKeeps == ASSUME ApprovalInv, NEW check, isTokenApproved(check) PROVE ApprovalInv'
<1>. DEFINE new == IF check.value THEN approved \cup {flagOf(check.of)} ELSE approved \ {flagOf(check.of)}
<1>1. /\ check \in checks /\ approved' = new /\ checks' = (checks \ {check}) \cup rechecked(new)
      /\ btxs' = btxs /\ allowed' = allowed
  BY DEF isTokenApproved
<1>2. ASSUME NEW p \in approved' PROVE given(p)
  <2>1. CASE p \in approved
    BY <2>1 DEF ApprovalInv
  <2>2. CASE p \notin approved
    <3>1. check.value = TRUE /\ p = flagOf(check.of)
      <4>1. p \in new
        BY <1>1
      <4>. QED BY <2>2, <4>1
    <3>2. check.of \in allowed
      BY <1>1, <3>1 DEF ApprovalInv
    <3>. QED BY <3>1, <3>2 DEF flagOf, given
  <2>. QED BY <2>1, <2>2
<1>3. ASSUME NEW c \in checks' PROVE IsCheck(c) /\ (c.value = TRUE => c.of \in allowed)
  <2>1. CASE c \in checks
    BY <2>1 DEF ApprovalInv
  <2>2. CASE c \notin checks
    <3>1. c \in rechecked(new)
      BY <1>1, <2>2
    <3>2. PICK p : c = [of |-> p, value |-> p \in allowed]
      BY <3>1 DEF rechecked
    <3>. QED BY <3>2 DEF IsCheck
  <2>. QED BY <2>1, <2>2
<1>. HIDE DEF new
<1>4. \A p \in approved' : given(p)'
  BY <1>1, <1>2, GivenStays
<1>5. \A c \in checks' : IsCheck(c) /\ (c.value = TRUE => c.of \in allowed')
  BY <1>1, <1>3
<1>. QED BY <1>1, <1>4, <1>5 DEF ApprovalInv

\* A transaction that moves on: an approval that is mined is on the chain.
LEMMA TransactionMoves ==
    ASSUME ApprovalInv, NEW n \in DOMAIN btxs, NEW tx, btxs' = [btxs EXCEPT ![n] = tx], IsBondTx(tx),
           tx.status = "mined" /\ tx.pairs # <<>> => Head(tx.pairs) \in allowed',
           allowed \subseteq allowed', checks' = checks, \A p \in approved' : p \in approved \/ given(p)'
    PROVE  ApprovalInv'
<1>1. PICK S : btxs \in Seq(S)
  BY DEF ApprovalInv
<1>2. /\ \E T : btxs' \in Seq(T)
      /\ DOMAIN btxs' = DOMAIN btxs /\ btxs'[n] = tx /\ \A m \in DOMAIN btxs : m # n => btxs'[m] = btxs[m]
  <2>1. PICK r : r = [btxs EXCEPT ![n] = tx] /\ r = btxs'
    OBVIOUS
  <2>. QED BY <1>1, <2>1, Replaced
<1>3. ASSUME NEW m \in DOMAIN btxs'
      PROVE  /\ IsBondTx(btxs'[m])
             /\ btxs'[m].status = "mined" /\ btxs'[m].pairs # <<>> => Head(btxs'[m].pairs) \in allowed'
  <2>1. CASE m = n
    BY <1>2, <2>1
  <2>2. CASE m # n
    <3>1. m \in DOMAIN btxs /\ btxs'[m] = btxs[m]
      BY <1>2, <2>2
    <3>. QED BY <3>1 DEF ApprovalInv
  <2>. QED BY <2>1, <2>2
<1>4. \A c \in checks' : IsCheck(c) /\ (c.value = TRUE => c.of \in allowed')
  BY DEF ApprovalInv
<1>5. \A p \in approved' : given(p)'
  BY GivenStays DEF ApprovalInv
<1>. QED BY <1>2, <1>3, <1>4, <1>5 DEF ApprovalInv

\* The transactions and their approvals.
LEMMA MineKeeps == ASSUME ApprovalInv, NEW n \in DOMAIN btxs, mineBondTransaction(n) PROVE ApprovalInv'
<1>1. PICK k, p, q, l, b, s :
         btxs[n] = [kind |-> k, pairs |-> p, needs |-> q, list |-> l, bond |-> b, status |-> s]
  BY DEF ApprovalInv, IsBondTx
<1>2. checks' = checks /\ approved' = approved
  BY DEF mineBondTransaction, approvalVars
<1>3. CASE allowed' = approveNext(btxs[n].pairs) /\ btxs' = [btxs EXCEPT ![n].status = "mined"]
  <2>1. PICK tx : tx = [btxs[n] EXCEPT !.status = "mined"]
    OBVIOUS
  <2>2. btxs' = [btxs EXCEPT ![n] = tx]
    BY <1>3, <2>1
  <2>3. tx = [kind |-> k, pairs |-> p, needs |-> q, list |-> l, bond |-> b, status |-> "mined"]
    BY <1>1, <2>1
  <2>4. IsBondTx(tx) /\ tx.pairs = p
    BY <2>3 DEF IsBondTx
  <2>5. allowed \subseteq allowed' /\ (p # <<>> => Head(p) \in allowed')
    BY <1>1, <1>3 DEF approveNext
  <2>. QED BY <1>2, <2>2, <2>4, <2>5, TransactionMoves
<1>4. CASE allowed' = allowed /\ btxs' = [btxs EXCEPT ![n].status = "failed"]
  <2>1. PICK tx : tx = [btxs[n] EXCEPT !.status = "failed"]
    OBVIOUS
  <2>2. btxs' = [btxs EXCEPT ![n] = tx]
    BY <1>4, <2>1
  <2>3. tx = [kind |-> k, pairs |-> p, needs |-> q, list |-> l, bond |-> b, status |-> "failed"]
    BY <1>1, <2>1
  <2>4. IsBondTx(tx) /\ tx.status # "mined"
    BY <2>3 DEF IsBondTx
  <2>. QED BY <1>2, <1>4, <2>2, <2>4, TransactionMoves
<1>. QED BY <1>3, <1>4 DEF mineBondTransaction

\* A flag that is set for a mined approval is right.
LEMMA ApprovalKeeps == ASSUME ApprovalInv, NEW n \in DOMAIN btxs, approvalConfirmed(n) PROVE ApprovalInv'
<1>1. PICK k, p, q, l, b, s :
         btxs[n] = [kind |-> k, pairs |-> p, needs |-> q, list |-> l, bond |-> b, status |-> s]
  BY DEF ApprovalInv, IsBondTx
<1>2. /\ s = "mined" /\ p # <<>> /\ approved' = approved \cup {Head(p)} /\ checks' = checks /\ allowed' = allowed
      /\ \/ btxs' = [btxs EXCEPT ![n].pairs = Tail(@), ![n].status = "sent"]
         \/ btxs' = [btxs EXCEPT ![n].status = "done"]
  BY <1>1 DEF approvalConfirmed
<1>3. Head(p) \in allowed
  BY <1>1, <1>2 DEF ApprovalInv
<1>4. \A x \in approved' : x \in approved \/ given(x)'
  BY <1>2, <1>3 DEF given
<1>5. PICK tx : btxs' = [btxs EXCEPT ![n] = tx] /\ IsBondTx(tx) /\ tx.status # "mined"
  <2>1. CASE btxs' = [btxs EXCEPT ![n].pairs = Tail(@), ![n].status = "sent"]
    <3>1. PICK tl : tl = Tail(btxs[n].pairs)
      OBVIOUS
    <3>2. PICK r : r = [btxs[n] EXCEPT !.pairs = tl]
      OBVIOUS
    <3>3. PICK tx : tx = [r EXCEPT !.status = "sent"]
      OBVIOUS
    <3>4. btxs' = [btxs EXCEPT ![n] = tx]
      BY <2>1, <3>1, <3>2, <3>3
    <3>5. r = [kind |-> k, pairs |-> tl, needs |-> q, list |-> l, bond |-> b, status |-> s]
      BY <1>1, <3>2
    <3>6. tx = [kind |-> k, pairs |-> tl, needs |-> q, list |-> l, bond |-> b, status |-> "sent"]
      BY <3>3, <3>5
    <3>7. IsBondTx(tx) /\ tx.status # "mined"
      BY <3>6 DEF IsBondTx
    <3>. QED BY <3>4, <3>7
  <2>2. CASE btxs' = [btxs EXCEPT ![n].status = "done"]
    <3>1. PICK tx : tx = [btxs[n] EXCEPT !.status = "done"]
      OBVIOUS
    <3>2. btxs' = [btxs EXCEPT ![n] = tx]
      BY <2>2, <3>1
    <3>3. tx = [kind |-> k, pairs |-> p, needs |-> q, list |-> l, bond |-> b, status |-> "done"]
      BY <1>1, <3>1
    <3>4. IsBondTx(tx) /\ tx.status # "mined"
      BY <3>3 DEF IsBondTx
    <3>. QED BY <3>2, <3>4
  <2>. QED BY <1>2, <2>1, <2>2
<1>. QED BY <1>2, <1>4, <1>5, TransactionMoves

\* So it is when another transaction ends.
LEMMA EndKeeps == ASSUME ApprovalInv, NEW n \in DOMAIN btxs, confirmed(n) \/ transactionFailed(n) PROVE ApprovalInv'
<1>1. PICK k, p, q, l, b, s :
         btxs[n] = [kind |-> k, pairs |-> p, needs |-> q, list |-> l, bond |-> b, status |-> s]
  BY DEF ApprovalInv, IsBondTx
<1>2. /\ btxs' = [btxs EXCEPT ![n].status = "done"]
      /\ approved' = approved /\ checks' = checks /\ allowed' = allowed
  BY DEF confirmed, transactionFailed, approvalVars
<1>3. PICK tx : tx = [btxs[n] EXCEPT !.status = "done"]
  OBVIOUS
<1>4. btxs' = [btxs EXCEPT ![n] = tx]
  BY <1>2, <1>3
<1>5. tx = [kind |-> k, pairs |-> p, needs |-> q, list |-> l, bond |-> b, status |-> "done"]
  BY <1>1, <1>3
<1>6. IsBondTx(tx) /\ tx.status # "mined"
  BY <1>5 DEF IsBondTx
<1>. QED BY <1>2, <1>4, <1>6, TransactionMoves

\* A new transaction is not mined.
LEMMA DispatchKeeps == ASSUME ApprovalInv, NEW o, dispatchEvent(o) PROVE ApprovalInv'
<1>1. PICK S : btxs \in Seq(S)
  BY DEF ApprovalInv
<1>2. PICK tx : tx = [kind |-> o.kind, pairs |-> o.pairs, needs |-> o.needs, list |-> bonds,
                      bond |-> selectedBondId, status |-> "sent"]
  OBVIOUS
<1>3. btxs' = Append(btxs, tx) /\ approved' = approved /\ checks' = checks /\ allowed' = allowed
  BY <1>2 DEF dispatchEvent, approvalVars
<1>4. IsBondTx(tx) /\ tx.status # "mined"
  BY <1>2 DEF IsBondTx
<1>5. PICK T : btxs' \in Seq(T)
  BY <1>1, <1>3, Appended
<1>6. /\ Len(btxs) \in Nat /\ DOMAIN btxs = 1 .. Len(btxs) /\ DOMAIN btxs' = 1 .. Len(btxs) + 1
      /\ btxs'[Len(btxs) + 1] = tx /\ \A m \in 1 .. Len(btxs) : btxs'[m] = btxs[m]
  BY <1>1, <1>3, Appended
<1>7. ASSUME NEW m \in DOMAIN btxs' PROVE btxs'[m] = tx \/ (m \in DOMAIN btxs /\ btxs'[m] = btxs[m])
  <2>1. m \in 1 .. Len(btxs) \/ m = Len(btxs) + 1
    BY <1>6
  <2>. QED BY <1>6, <2>1
<1>8. ASSUME NEW m \in DOMAIN btxs'
      PROVE  /\ IsBondTx(btxs'[m])
             /\ btxs'[m].status = "mined" /\ btxs'[m].pairs # <<>> => Head(btxs'[m].pairs) \in allowed'
  BY <1>3, <1>4, <1>7 DEF ApprovalInv
<1>9. \A p \in approved' : given(p)'
  BY <1>3, GivenStays DEF ApprovalInv
<1>. QED BY <1>3, <1>5, <1>8, <1>9 DEF ApprovalInv

\* An approval that is thought to be given stays given.
LEMMA ApprovalStep == ASSUME ApprovalInv, [BondsNext]_bondVars PROVE ApprovalInv'
<1>1. ASSUME UNCHANGED <<btxs, checks, approved, allowed>> PROVE ApprovalInv'
  BY <1>1 DEF ApprovalInv, given
<1>2. CASE syncSteps \/ synchronizeFails
  BY <1>1, <1>2 DEF syncSteps, synchronize, getAccountBonds, getLatestData, interval, synchronizeFails, unchangedBySync,
                    approvalVars
<1>3. CASE commitBondView \/ askForEstimate \/ \E kind \in Kinds : statusTimer(kind)
  BY <1>1, <1>3 DEF commitBondView, askForEstimate, statusTimer, approvalVars
<1>4. ASSUME NEW e, pressButton(e) PROVE ApprovalInv'
  BY <1>1, <1>4 DEF pressButton, approvalVars
<1>5. ASSUME NEW amount, editAmount(amount) PROVE ApprovalInv'
  BY <1>1, <1>5 DEF editAmount, approvalVars
<1>6. ASSUME NEW a, getExpectedSwapOutput(a) PROVE ApprovalInv'
  BY <1>1, <1>6 DEF getExpectedSwapOutput, approvalVars
<1>7. CASE UNCHANGED bondVars
  BY <1>1, <1>7 DEF bondVars, approvalVars
<1>. QED BY <1>2, <1>3, <1>4, <1>5, <1>6, <1>7, CheckKeeps, MineKeeps, ApprovalKeeps, EndKeeps, DispatchKeeps DEF BondsNext

\* Neither has been asked for at first, or all that is known is so.
LEMMA PanesInitially == ASSUME BondsInit PROVE EstimateInv /\ ApprovalInv
<1>1. EstimateInv
  BY DEF BondsInit, EstimateInv, IsPane, NoPane
<1>2. PICK missing :
         /\ allowed = approvals \ missing /\ approved = allowed
         /\ checks = [of : missing \cap checked, value : {FALSE}] /\ btxs = <<>>
  BY DEF BondsInit
<1>3. <<>> \in Seq({}) /\ DOMAIN <<>> = {}
  OBVIOUS
<1>4. ASSUME NEW c \in checks PROVE IsCheck(c) /\ c.value = FALSE
  BY <1>2 DEF IsCheck
<1>5. (\E S : btxs \in Seq(S)) /\ DOMAIN btxs = {}
  BY <1>2, <1>3
<1>6. \A p \in approved : given(p)
  BY <1>2 DEF given
<1>. QED BY <1>1, <1>4, <1>5, <1>6 DEF ApprovalInv

\* Neither the table of troves nor a pane for bonds shows a late answer: rows are
\* those of the page and the number of troves that are shown (RiskyTroves.tsx), the
\* output of a swap is the one for the amount in the form (SwapPane.tsx), and an
\* approval that is thought to be given is (BondViewProvider.tsx, but for the flag
\* that two tokens share), for any number of reads, edits, transactions and failures
\* and whatever their order.
THEOREM NoLateAnswer == FrontendSpec => []AnswersCurrent
<1>1. BondsInit => EstimateInv /\ ApprovalInv
  BY PanesInitially
<1>2. EstimateInv /\ ApprovalInv /\ [BondsNext]_bondVars => EstimateInv' /\ ApprovalInv'
  BY EstimateStep, ApprovalStep
<1>3. EstimateInv /\ ApprovalInv => PanesCurrent
  BY DEF EstimateInv, ApprovalInv, given, PanesCurrent
<1>4. PanesCurrent /\ RowsCurrent => AnswersCurrent
  BY DEF AnswersCurrent
<1>5. BondsSpec => []PanesCurrent
  BY <1>1, <1>2, <1>3, PTL DEF BondsSpec
<1>6. TableSpec => []RowsCurrent
  BY TableInvariance, RowsFollow, PTL
<1>. QED BY <1>4, <1>5, <1>6, PTL DEF FrontendSpec
--------------------------------------------------------------------------------
(***************************************************************************)
(* The shared state of the transaction.  A state that waits names a        *)
(* transaction that was started, one that awaits a receipt a transaction   *)
(* that was sent; what is watched is what the last drawn state awaits.     *)
(***************************************************************************)
IsState(s) == \E t, i, n : s = [type |-> t, id |-> i, n |-> n]
IsTx(tx) == \E i, b, s, c : tx = [id |-> i, by |-> b, status |-> s, included |-> c]

AreTxs(list) == (\E S : list \in Seq(S)) /\ \A n \in DOMAIN list : IsTx(list[n])

\* A state that waits with a hash names its transaction.
waits(s) == (isWaiting(s) \/ awaitable(s)) /\ s.n # 0

Named(s, list) ==
    /\ waits(s) => s.n \in DOMAIN list /\ s.id = list[s.n].id
    /\ awaitable(s) /\ s.n # 0 => list[s.n].status # "signing"

FlowInv ==
    /\ AreTxs(txs) /\ IsState(slot) /\ IsState(monitored)
    /\ Named(slot, txs) /\ Named(monitored, txs)
    /\ watching # 0 => awaitable(monitored) /\ monitored.n = watching
    /\ WaitingWatched

ConfirmsAwaited ==
    slot'.type = "confirmedOneShot" /\ slot' # slot =>
        /\ txs[slot'.n].status = "succeeded"
        /\ awaitable(monitored) /\ monitored.n = slot'.n

\* Transactions are not forgotten, and none of them is signed again.
LaterTxs(old, new) ==
    /\ DOMAIN old \subseteq DOMAIN new
    /\ \A m \in DOMAIN old : new[m].id = old[m].id /\ (old[m].status # "signing" => new[m].status # "signing")

\* What a state names is still there later.
LEMMA NamedLater == ASSUME NEW s, NEW old, NEW new, Named(s, old), LaterTxs(old, new) PROVE Named(s, new)
BY DEF Named, LaterTxs, waits, isWaiting, awaitable

\* The transaction that moves on is no longer signing, and the others stay as they are.
Moved(old, new, n, status) ==
    /\ AreTxs(new) /\ LaterTxs(old, new) /\ DOMAIN new = DOMAIN old
    /\ new[n].status = status /\ \A m \in DOMAIN old : m # n => new[m] = old[m]

\* A transaction is replaced by itself with another status.
LEMMA TxReplaced ==
    ASSUME NEW old, AreTxs(old), NEW n \in DOMAIN old, NEW r, NEW status, status # "signing",
           IsTx(r), r.id = old[n].id, r.status = status, NEW new, new = [old EXCEPT ![n] = r]
    PROVE  Moved(old, new, n, status)
<1>1. PICK S : old \in Seq(S)
  BY DEF AreTxs
<1>2. /\ \E T : new \in Seq(T)
      /\ DOMAIN new = DOMAIN old /\ new[n] = r /\ \A m \in DOMAIN old : m # n => new[m] = old[m]
  BY <1>1, Replaced
<1>3. \A m \in DOMAIN new : IsTx(new[m])
  BY <1>2 DEF AreTxs
<1>. QED BY <1>2, <1>3 DEF Moved, AreTxs, LaterTxs

\* A transaction with another status is still the same transaction.
IsTxOf(r, tx, status) == IsTx(r) /\ r.id = tx.id /\ r.status = status

\* So it is when only the status is set.
LEMMA WithStatus == ASSUME NEW tx, IsTx(tx), NEW status PROVE IsTxOf([tx EXCEPT !.status = status], tx, status)
<1>1. PICK i, b, s, d : tx = [id |-> i, by |-> b, status |-> s, included |-> d]
  BY DEF IsTx
<1>2. [tx EXCEPT !.status = status] = [id |-> i, by |-> b, status |-> status, included |-> d]
  BY <1>1
<1>3. IsTxOf([id |-> i, by |-> b, status |-> status, included |-> d], tx, status)
  BY <1>1 DEF IsTx, IsTxOf
<1>. QED BY <1>2, <1>3, Zenon

\* So it is when an intention was included or left out as well.
LEMMA WithIncluded ==
    ASSUME NEW tx, IsTx(tx), NEW status, NEW c
    PROVE  IsTxOf([[tx EXCEPT !.status = status] EXCEPT !.included = c], tx, status)
<1>1. PICK i, b, s, d : tx = [id |-> i, by |-> b, status |-> s, included |-> d]
  BY DEF IsTx
<1>2. [tx EXCEPT !.status = status] = [id |-> i, by |-> b, status |-> status, included |-> d]
  BY <1>1
<1>3. [[id |-> i, by |-> b, status |-> status, included |-> d] EXCEPT !.included = c]
        = [id |-> i, by |-> b, status |-> status, included |-> c]
  OBVIOUS
<1>4. IsTxOf([id |-> i, by |-> b, status |-> status, included |-> c], tx, status)
  BY <1>1 DEF IsTx, IsTxOf
<1>. QED BY <1>2, <1>3, <1>4, Zenon

\* These are the two ways in which the hooks and the chain move one on.
LEMMA TxMoves ==
    ASSUME NEW old, AreTxs(old), NEW n \in DOMAIN old, NEW status, status # "signing", NEW new,
           \/ new = [old EXCEPT ![n].status = status]
           \/ \E c : new = [old EXCEPT ![n].status = status, ![n].included = c]
    PROVE  Moved(old, new, n, status)
<1>1. IsTx(old[n])
  BY DEF AreTxs
<1>2. ASSUME NEW r, IsTxOf(r, old[n], status), new = [old EXCEPT ![n] = r] PROVE Moved(old, new, n, status)
  BY <1>2, TxReplaced DEF IsTxOf
<1>3. CASE new = [old EXCEPT ![n].status = status]
  <2>1. new = [old EXCEPT ![n] = [old[n] EXCEPT !.status = status]]
    BY <1>3
  <2>2. IsTxOf([old[n] EXCEPT !.status = status], old[n], status)
    BY <1>1, WithStatus, Zenon
  <2>. QED BY <1>2, <2>1, <2>2, Zenon
<1>4. ASSUME NEW c, new = [old EXCEPT ![n].status = status, ![n].included = c] PROVE Moved(old, new, n, status)
  <2>1. new = [old EXCEPT ![n] = [[old[n] EXCEPT !.status = status] EXCEPT !.included = c]]
    BY <1>4
  <2>2. IsTxOf([[old[n] EXCEPT !.status = status] EXCEPT !.included = c], old[n], status)
    BY <1>1, WithIncluded, Zenon
  <2>. QED BY <1>2, <2>1, <2>2, Zenon
<1>. QED BY <1>3, <1>4

\* A state that does not wait says nothing that could be wrong.
LEMMA NotWaiting ==
    ASSUME FlowInv, AreTxs(txs'), LaterTxs(txs, txs'), IsState(slot'), ~isWaiting(slot'), ~awaitable(slot'),
           monitored' = monitored, watching' \in {watching, 0}
    PROVE  FlowInv'
<1>1. Named(slot', txs')
  BY DEF Named, waits
<1>2. Named(monitored', txs')
  BY NamedLater DEF FlowInv
<1>3. WaitingWatched'
  BY DEF WaitingWatched, isWaiting, awaitable
<1>. QED BY <1>1, <1>2, <1>3 DEF FlowInv, Named, waits, isWaiting, awaitable, IsState, AreTxs, IsTx

\* Nothing has happened to the transactions.
LEMMA SameTxs == ASSUME FlowInv, txs' = txs PROVE AreTxs(txs') /\ LaterTxs(txs, txs')
BY DEF FlowInv, LaterTxs

\* A button starts a transaction, which waits for the wallet.
LEMMA StartFollowed == ASSUME FlowInv, NEW id, NEW by, start(id, by) PROVE FlowInv' /\ ConfirmsAwaited
<1>1. PICK S : txs \in Seq(S)
  BY DEF FlowInv, AreTxs
<1>2. PICK tx : tx = [id |-> id, by |-> by, status |-> "signing", included |-> FALSE]
  OBVIOUS
<1>3. IsTx(tx) /\ tx.id = id /\ tx.status = "signing"
  BY <1>2 DEF IsTx
<1>4. txs' = Append(txs, tx) /\ monitored' = monitored /\ watching' = watching /\ unexplained' = unexplained
  BY <1>2 DEF start
<1>5. PICK T : txs' \in Seq(T)
  BY <1>1, <1>4, Appended
<1>6. /\ Len(txs) \in Nat /\ DOMAIN txs = 1 .. Len(txs) /\ DOMAIN txs' = 1 .. Len(txs) + 1
      /\ txs'[Len(txs) + 1] = tx /\ \A m \in 1 .. Len(txs) : txs'[m] = txs[m]
  BY <1>1, <1>4, Appended
<1>7. AreTxs(txs')
  <2>1. ASSUME NEW m \in DOMAIN txs' PROVE IsTx(txs'[m])
    <3>1. m \in 1 .. Len(txs) \/ m = Len(txs) + 1
      BY <1>6
    <3>. QED BY <1>3, <1>6, <3>1 DEF FlowInv, AreTxs
  <2>. QED BY <1>5, <2>1 DEF AreTxs
<1>8. LaterTxs(txs, txs')
  BY <1>6 DEF LaterTxs
<1>9. Named(slot, txs') /\ Named(monitored, txs')
  BY <1>8, NamedLater DEF FlowInv
<1>10. CASE id = "trove-adjustment"
  <2>1. slot' = slot
    BY <1>10 DEF start
  <2>2. WaitingWatched'
    <3>1. CASE ~waits(slot)
      BY <2>1, <3>1 DEF WaitingWatched, waits, isWaiting, awaitable
    <3>2. CASE waits(slot)
      <4>1. slot.n \in DOMAIN txs /\ txs'[slot.n] = txs[slot.n]
        BY <1>6, <3>2 DEF FlowInv, Named
      <4>. QED BY <1>4, <2>1, <4>1 DEF FlowInv, WaitingWatched, isWaiting, awaitable
    <3>. QED BY <3>1, <3>2
  <2>. QED BY <1>4, <1>7, <1>9, <2>1, <2>2 DEF FlowInv, ConfirmsAwaited
<1>11. CASE id # "trove-adjustment"
  <2>1. slot' = [type |-> "waitingForApproval", id |-> id, n |-> Len(txs) + 1]
    BY <1>11 DEF start
  <2>2. IsState(slot') /\ slot'.type = "waitingForApproval" /\ slot'.id = id /\ slot'.n = Len(txs) + 1
    BY <2>1 DEF IsState
  <2>3. Named(slot', txs') /\ WaitingWatched'
    BY <1>3, <1>6, <2>2 DEF Named, WaitingWatched, waits, isWaiting, awaitable
  <2>. QED BY <1>4, <1>7, <1>9, <2>2, <2>3 DEF FlowInv, ConfirmsAwaited
<1>. QED BY <1>10, <1>11

\* A transaction that is sent awaits its receipt; nobody has watched it before.
LEMMA SentFollowed ==
    ASSUME FlowInv, NEW n \in DOMAIN txs, txs[n].status = "signing", Moved(txs, txs', n, "pending"),
           NEW type \in {"waitingForConfirmation", "waitingForConfirmationMidl"}, slot' = stateOf(type, n),
           UNCHANGED <<monitored, watching, unexplained>>
    PROVE  FlowInv' /\ ConfirmsAwaited
<1>1. IsState(slot') /\ slot'.type = type /\ slot'.id = txs[n].id /\ slot'.n = n
  BY DEF stateOf, IsState
<1>2. /\ AreTxs(txs') /\ LaterTxs(txs, txs') /\ DOMAIN txs' = DOMAIN txs
      /\ txs'[n].status = "pending" /\ txs'[n].id = txs[n].id
  BY DEF Moved, LaterTxs
<1>3. Named(slot', txs') /\ awaitable(slot')
  BY <1>1, <1>2 DEF Named, waits, isWaiting, awaitable
<1>4. Named(monitored', txs')
  BY <1>2, NamedLater DEF FlowInv
<1>5. slot' # monitored
  <2>1. n # 0
    BY DEF FlowInv, AreTxs
  <2>2. ~(awaitable(monitored) /\ monitored.n = n)
    BY <2>1 DEF FlowInv, Named
  <2>. QED BY <1>1, <1>3, <2>2
<1>6. WaitingWatched'
  BY <1>3, <1>5 DEF WaitingWatched, isWaiting, awaitable
<1>7. slot'.type # "confirmedOneShot"
  BY <1>1
<1>. QED BY <1>1, <1>2, <1>3, <1>4, <1>6, <1>7 DEF FlowInv, ConfirmsAwaited

\* A wait without a hash: nobody watches it, and it confirms nothing.
LEMMA HashlessFollowed ==
    ASSUME FlowInv, NEW n \in DOMAIN txs, Moved(txs, txs', n, "abandoned"), NEW id,
           slot' = [type |-> "waitingForConfirmationMidl", id |-> id, n |-> 0],
           UNCHANGED <<monitored, watching, unexplained>>
    PROVE  FlowInv' /\ ConfirmsAwaited
<1>1. IsState(slot') /\ slot'.type = "waitingForConfirmationMidl" /\ slot'.n = 0
  BY DEF IsState
<1>2. AreTxs(txs') /\ Named(monitored', txs')
  BY NamedLater DEF FlowInv, Moved
<1>3. Named(slot', txs') /\ WaitingWatched'
  BY <1>1 DEF Named, waits, WaitingWatched
<1>. QED BY <1>1, <1>2, <1>3 DEF FlowInv, ConfirmsAwaited

\* useLiquidateUpTo ends, and the state stays as it is.
LEMMA IntentionFollowed ==
    ASSUME FlowInv, NEW n \in DOMAIN txs, addIntentionOnly(n) PROVE FlowInv' /\ ConfirmsAwaited
<1>1. /\ AreTxs(txs) /\ txs[n].status = "signing" /\ txs[n].id = "batch-liquidate"
      /\ slot' = slot /\ UNCHANGED <<monitored, watching, unexplained>>
  BY DEF FlowInv, addIntentionOnly
<1>2. Moved(txs, txs', n, "abandoned")
  BY <1>1, TxMoves DEF addIntentionOnly
<1>3. Named(slot', txs') /\ Named(monitored', txs') /\ AreTxs(txs')
  BY <1>1, <1>2, NamedLater DEF FlowInv, Moved
<1>4. WaitingWatched'
  <2>1. CASE ~waits(slot)
    BY <1>1, <2>1 DEF WaitingWatched, waits, isWaiting, awaitable
  <2>2. CASE slot.n = n /\ waits(slot)
    BY <1>1, <2>2 DEF FlowInv, Named, WaitingWatched
  <2>3. CASE slot.n # n /\ waits(slot)
    <3>1. txs'[slot.n] = txs[slot.n]
      BY <1>2, <2>3 DEF FlowInv, Named, Moved
    <3>. QED BY <1>1, <3>1 DEF FlowInv, WaitingWatched, isWaiting, awaitable
  <2>. QED BY <2>1, <2>2, <2>3
<1>. QED BY <1>1, <1>3, <1>4 DEF FlowInv, ConfirmsAwaited

\* The wallet answers, or a broadcast ends.
LEMMA WalletFollowed ==
    ASSUME FlowInv, NEW n \in DOMAIN txs,
           sendMidl(n) \/ addIntentionOnly(n) \/ broadcastEnds(n) \/ sendTransaction(n) \/ sendFails(n)
    PROVE  FlowInv' /\ ConfirmsAwaited
<1>1. AreTxs(txs) /\ UNCHANGED <<monitored, watching, unexplained>>
  BY DEF FlowInv, sendMidl, addIntentionOnly, broadcastEnds, sendTransaction, sendFails
<1>2. ASSUME NEW type \in {"failed", "cancelled"}, slot' = stateOf(type, n), AreTxs(txs'), LaterTxs(txs, txs')
      PROVE  FlowInv' /\ ConfirmsAwaited
  <2>1. IsState(slot') /\ slot'.type = type
    BY <1>2 DEF stateOf, IsState
  <2>2. ~isWaiting(slot') /\ ~awaitable(slot')
    BY <2>1 DEF isWaiting, awaitable
  <2>. QED BY <1>1, <1>2, <2>1, <2>2, NotWaiting DEF ConfirmsAwaited
<1>3. CASE sendFails(n)
  <2>1. Moved(txs, txs', n, "abandoned")
    BY <1>1, <1>3, TxMoves DEF sendFails
  <2>2. PICK type \in {"failed", "cancelled"} : slot' = stateOf(type, n)
    BY <1>3 DEF sendFails
  <2>. QED BY <1>2, <2>1, <2>2 DEF Moved
<1>4. CASE addIntentionOnly(n)
  BY <1>4, IntentionFollowed
<1>5. CASE broadcastEnds(n)
  <2>1. txs' = txs /\ AreTxs(txs') /\ LaterTxs(txs, txs')
    BY <1>5, SameTxs DEF broadcastEnds
  <2>2. CASE slot' = slot
    BY <1>1, <2>1, <2>2 DEF FlowInv, WaitingWatched, ConfirmsAwaited
  <2>3. CASE slot' = stateOf("failed", n)
    BY <1>2, <2>1, <2>3
  <2>. QED BY <1>5, <2>2, <2>3 DEF broadcastEnds
<1>6. CASE sendMidl(n)
  <2>1. txs[n].status = "signing"
    BY <1>6 DEF sendMidl
  <2>2. ASSUME NEW c, txs' = [txs EXCEPT ![n].status = "pending", ![n].included = c],
               slot' = stateOf("waitingForConfirmationMidl", n)
        PROVE  FlowInv' /\ ConfirmsAwaited
    <3>1. Moved(txs, txs', n, "pending")
      BY <1>1, <2>2, TxMoves
    <3>. QED BY <1>1, <2>1, <2>2, <3>1, SentFollowed
  <2>3. ASSUME txs' = [txs EXCEPT ![n].status = "abandoned"],
               slot' = [type |-> "waitingForConfirmationMidl", id |-> txs[n].id, n |-> 0]
        PROVE  FlowInv' /\ ConfirmsAwaited
    <3>1. Moved(txs, txs', n, "abandoned")
      BY <1>1, <2>3, TxMoves
    <3>. QED BY <1>1, <2>3, <3>1, HashlessFollowed
  <2>. QED BY <1>6, <2>2, <2>3 DEF sendMidl
<1>7. CASE sendTransaction(n)
  <2>1. slot' = stateOf("waitingForConfirmation", n) /\ Moved(txs, txs', n, "pending") /\ txs[n].status = "signing"
    BY <1>1, <1>7, TxMoves DEF sendTransaction
  <2>. QED BY <1>1, <2>1, SentFollowed
<1>. QED BY <1>3, <1>4, <1>5, <1>6, <1>7

\* The chain moves on a transaction that is not waiting for the wallet.
LEMMA MinedFollowed ==
    ASSUME FlowInv, NEW n \in DOMAIN txs, NEW status \in {"succeeded", "failed"}, mined(n, status)
    PROVE  FlowInv' /\ ConfirmsAwaited
<1>1. txs[n].status = "pending" /\ UNCHANGED <<slot, monitored, watching, unexplained>>
  BY DEF mined
<1>2. Moved(txs, txs', n, status)
  BY TxMoves DEF mined, FlowInv
<1>3. Named(slot', txs') /\ Named(monitored', txs') /\ AreTxs(txs')
  BY <1>1, <1>2, NamedLater DEF FlowInv, Moved
<1>4. WaitingWatched'
  <2>1. CASE slot.type = "waitingForApproval" /\ slot.n = n
    BY <1>1, <2>1 DEF FlowInv, WaitingWatched, isWaiting, awaitable
  <2>2. CASE slot.type = "waitingForApproval" /\ slot.n # n /\ slot.n # 0
    <3>1. txs'[slot.n] = txs[slot.n]
      BY <1>2, <2>2 DEF FlowInv, Named, Moved, waits, isWaiting
    <3>. QED BY <1>1, <2>2, <3>1 DEF FlowInv, WaitingWatched, isWaiting, awaitable
  <2>3. CASE slot.type # "waitingForApproval" \/ slot.n = 0
    BY <1>1, <2>3 DEF FlowInv, WaitingWatched, isWaiting, awaitable
  <2>. QED BY <2>1, <2>2, <2>3
<1>. QED BY <1>1, <1>3, <1>4 DEF FlowInv, ConfirmsAwaited

\* A receipt ends the wait of the transaction that is watched.
LEMMA ReceiptFollowed ==
    ASSUME FlowInv, receiptSucceeded \/ receiptFailed \/ receiptLost
    PROVE  FlowInv' /\ ConfirmsAwaited
<1>1. AreTxs(txs') /\ LaterTxs(txs, txs') /\ monitored' = monitored /\ watching' = 0 /\ watching # 0
  BY SameTxs DEF receiptSucceeded, receiptFailed, receiptLost
<1>2. ASSUME NEW type \in {"failed", "cancelled"}, slot' = stateOf(type, watching) PROVE FlowInv' /\ ConfirmsAwaited
  <2>1. IsState(slot') /\ slot'.type = type
    BY <1>2 DEF stateOf, IsState
  <2>2. ~isWaiting(slot') /\ ~awaitable(slot')
    BY <2>1 DEF isWaiting, awaitable
  <2>. QED BY <1>1, <2>1, <2>2, NotWaiting DEF ConfirmsAwaited
<1>3. CASE receiptSucceeded
  <2>1. IsState(slot') /\ slot'.type = "confirmedOneShot" /\ slot'.n = watching /\ txs[watching].status = "succeeded"
    BY <1>3 DEF receiptSucceeded, stateOf, IsState
  <2>2. ~isWaiting(slot') /\ ~awaitable(slot')
    BY <2>1 DEF isWaiting, awaitable
  <2>3. ConfirmsAwaited
    BY <1>1, <2>1 DEF ConfirmsAwaited, FlowInv
  <2>. QED BY <1>1, <2>1, <2>2, <2>3, NotWaiting
<1>4. CASE receiptFailed /\ slot' = slot /\ unexplained' = unexplained \cup {watching}
  <2>1. txs' = txs
    BY <1>4 DEF receiptFailed
  <2>2. WaitingWatched'
    BY <1>1, <1>4, <2>1 DEF FlowInv, WaitingWatched, isWaiting, awaitable
  <2>. QED BY <1>1, <1>4, <2>1, <2>2 DEF FlowInv, ConfirmsAwaited
<1>5. CASE receiptFailed /\ slot' = stateOf("failed", watching)
  BY <1>2, <1>5
<1>6. CASE receiptLost
  BY <1>2, <1>6 DEF receiptLost
<1>. QED BY <1>3, <1>4, <1>5, <1>6 DEF receiptFailed

\* Nobody waits for a reason that was found, or after five seconds.
LEMMA LateFollowed ==
    ASSUME FlowInv, timerFires \/ \E n : tryToGetRevertReason(n) PROVE FlowInv' /\ ConfirmsAwaited
<1>1. AreTxs(txs') /\ LaterTxs(txs, txs') /\ monitored' = monitored /\ watching' = watching
  BY SameTxs DEF timerFires, tryToGetRevertReason
<1>2. IsState(slot') /\ slot'.type \in {"failed", "idle"}
  BY DEF timerFires, tryToGetRevertReason, stateOf, idle, IsState
<1>3. ~isWaiting(slot') /\ ~awaitable(slot')
  BY <1>2 DEF isWaiting, awaitable
<1>. QED BY <1>1, <1>2, <1>3, NotWaiting DEF ConfirmsAwaited

\* At a commit the monitor starts to watch what is awaited, and says so of nothing else.
LEMMA MonitorFollowed == ASSUME FlowInv, monitorEffects PROVE FlowInv' /\ ConfirmsAwaited
<1>1. /\ monitored' = slot /\ watching' = watchingAfter(slot) /\ txs' = txs
      /\ slot' \in {idle, slot} \/ (slot.type = "confirmedOneShot" /\ slot' = [slot EXCEPT !.type = "confirmed"])
      /\ slot' = slot => slot.type # "confirmedOneShot"
  <2>1. PICK t, i, n : slot = [type |-> t, id |-> i, n |-> n]
    BY DEF FlowInv, IsState
  <2>. QED BY <2>1 DEF monitorEffects, idle
<1>2. IsState(slot') /\ Named(slot', txs) /\ slot'.type # "confirmedOneShot"
  <2>1. CASE slot' = idle
    BY <2>1 DEF idle, IsState, Named, waits, isWaiting, awaitable
  <2>2. CASE slot' = slot
    BY <1>1, <2>2 DEF FlowInv
  <2>3. CASE slot' = [slot EXCEPT !.type = "confirmed"]
    <3>1. PICK t, i, n : slot = [type |-> t, id |-> i, n |-> n]
      BY DEF FlowInv, IsState
    <3>2. slot' = [type |-> "confirmed", id |-> i, n |-> n]
      BY <2>3, <3>1
    <3>. QED BY <3>2 DEF IsState, Named, waits, isWaiting, awaitable
  <2>. QED BY <1>1, <2>1, <2>2, <2>3
<1>3. WaitingWatched'
  <2>1. CASE isWaiting(slot') \/ awaitable(slot')
    <3>1. slot' = slot
      <4>1. slot' # idle
        BY <2>1 DEF idle, isWaiting, awaitable
      <4>2. slot' # [slot EXCEPT !.type = "confirmed"]
        <5>1. PICK t, i, n : slot = [type |-> t, id |-> i, n |-> n]
          BY DEF FlowInv, IsState
        <5>2. [slot EXCEPT !.type = "confirmed"] = [type |-> "confirmed", id |-> i, n |-> n]
          BY <5>1
        <5>. QED BY <2>1, <5>2 DEF isWaiting, awaitable
      <4>. QED BY <1>1, <4>1, <4>2
    <3>2. CASE slot.type = "waitingForApproval"
      BY <1>1, <3>1, <3>2 DEF FlowInv, WaitingWatched, isWaiting, awaitable
    <3>3. CASE awaitable(slot)
      BY <1>1, <3>1, <3>3 DEF WaitingWatched, watchingAfter, awaitable
    <3>. QED BY <2>1, <3>1, <3>2, <3>3 DEF isWaiting, awaitable
  <2>2. CASE ~isWaiting(slot') /\ ~awaitable(slot')
    BY <2>2 DEF WaitingWatched, isWaiting, awaitable
  <2>. QED BY <2>1, <2>2
<1>4. watching' # 0 => awaitable(monitored') /\ monitored'.n = watching'
  BY <1>1 DEF watchingAfter
<1>. QED BY <1>1, <1>2, <1>3, <1>4 DEF FlowInv, ConfirmsAwaited

\* A monitor that is unmounted gives up, and starts anew with what is awaited then.
LEMMA UnmountedFollowed == ASSUME FlowInv, monitorUnmounted PROVE FlowInv' /\ ConfirmsAwaited
<1>1. monitored' = idle /\ watching' = 0 /\ txs' = txs /\ slot' = IF watching # 0 THEN idle ELSE slot
  BY DEF monitorUnmounted
<1>2. IsState(idle) /\ idle.type = "idle" /\ Named(idle, txs)
  BY DEF idle, IsState, Named, waits, isWaiting, awaitable
<1>3. CASE slot' = idle
  BY <1>1, <1>2, <1>3 DEF FlowInv, WaitingWatched, ConfirmsAwaited, isWaiting, awaitable
<1>4. CASE slot' = slot
  <2>1. WaitingWatched'
    <3>1. CASE awaitable(slot)
      <4>1. slot # idle
        BY <1>2, <3>1 DEF awaitable
      <4>. QED BY <1>1, <1>4, <3>1, <4>1 DEF WaitingWatched, awaitable
    <3>2. CASE ~awaitable(slot)
      BY <1>1, <1>4, <3>2 DEF FlowInv, WaitingWatched, isWaiting, awaitable
    <3>. QED BY <3>1, <3>2
  <2>. QED BY <1>1, <1>2, <1>4, <2>1 DEF FlowInv, ConfirmsAwaited
<1>. QED BY <1>1, <1>3, <1>4

\* Every step of the pages.
LEMMA FlowStep == ASSUME FlowInv, [Next]_vars PROVE FlowInv' /\ ConfirmsAwaited
<1>1. ASSUME UNCHANGED txVars PROVE FlowInv' /\ ConfirmsAwaited
  BY <1>1 DEF txVars, FlowInv, WaitingWatched, ConfirmsAwaited
<1>2. ASSUME NEW n \in DOMAIN txs, mine(n) PROVE FlowInv' /\ ConfirmsAwaited
  BY <1>2, MinedFollowed DEF mine
<1>3. CASE othersAct \/ storeLoaded \/ storeUpdated \/ startAdjusting \/ cancelAdjusting
           \/ ExpensiveTroveChangeWarning \/ navigate \/ UNCHANGED vars
  BY <1>1, <1>3 DEF othersAct, storeLoaded, storeUpdated, startAdjusting, cancelAdjusting,
                    ExpensiveTroveChangeWarning, navigate, vars
<1>4. ASSUME NEW event, press(event) PROVE FlowInv' /\ ConfirmsAwaited
  BY <1>1, <1>4 DEF press
<1>5. ASSUME NEW amount, edit(amount) PROVE FlowInv' /\ ConfirmsAwaited
  BY <1>1, <1>5 DEF edit
<1>6. CASE LiquityProvider
  BY <1>6, UnmountedFollowed DEF LiquityProvider
<1>7. CASE confirm \/ setPrice \/ liquidate
  <2>1. \E id, by : start(id, by)
    BY <1>7 DEF confirm, setPrice, liquidate
  <2>. QED BY <2>1, StartFollowed
<1>8. CASE commit
  BY <1>8, MonitorFollowed DEF commit
<1>9. ASSUME NEW n \in DOMAIN txs, walletAnswers(n) PROVE FlowInv' /\ ConfirmsAwaited
  BY <1>9, WalletFollowed DEF walletAnswers
<1>10. ASSUME NEW n, revertReason(n) PROVE FlowInv' /\ ConfirmsAwaited
  BY <1>10, LateFollowed DEF revertReason
<1>11. CASE receipt
  BY <1>11, ReceiptFollowed DEF receipt
<1>12. CASE fiveSeconds
  BY <1>12, LateFollowed DEF fiveSeconds
<1>. QED BY <1>2, <1>3, <1>4, <1>5, <1>6, <1>7, <1>8, <1>9, <1>10, <1>11, <1>12 DEF Next

\* However many transactions the user starts, and whatever the wallet, the chain and the
\* store do meanwhile, a state that waits for an answer or with a hash is watched, and the
\* monitor confirms only what it watched.  Of a wait without a hash, which the hooks leave
\* when nothing was signed, it says only that it is never confirmed.
THEOREM OneStateForAll == FrontendSpec => TransactionsFollowed
<1>1. Init => FlowInv
  <2>. SUFFICES ASSUME Init PROVE FlowInv
    OBVIOUS
  <2>1. slot = idle /\ monitored = idle /\ watching = 0 /\ txs = <<>>
    BY DEF Init, TxInit
  <2>2. AreTxs(txs)
    <3>1. <<>> \in Seq({}) /\ DOMAIN <<>> = {}
      OBVIOUS
    <3>. QED BY <2>1, <3>1 DEF AreTxs
  <2>3. IsState(idle) /\ idle.type = "idle"
    BY DEF idle, IsState
  <2>. QED BY <2>1, <2>2, <2>3 DEF FlowInv, WaitingWatched, Named, waits, isWaiting, awaitable
<1>2. FlowInv /\ [Next]_vars => FlowInv' /\ ConfirmsAwaited
  BY FlowStep
<1>3. FlowInv => WaitingWatched
  BY DEF FlowInv
<1>4. ConfirmsAwaited => [slot'.type = "confirmedOneShot" /\ slot' # slot =>
          /\ txs[slot'.n].status = "succeeded"
          /\ awaitable(monitored) /\ monitored.n = slot'.n]_vars
  BY DEF ConfirmsAwaited
<1>. QED BY <1>1, <1>2, <1>3, <1>4, PTL DEF FrontendSpec, PanelsSpec, TransactionsFollowed, OnlyAwaitedConfirmed
--------------------------------------------------------------------------------
(***************************************************************************)
(* The views.  A form that is drawn was made for the amount that the store *)
(* shows; and unless an event went to a view that was already on its way   *)
(* out, the views of an open trove are set only while the position of the  *)
(* last commit is open: the provider's effect takes them away when it sees *)
(* another status.  A trove that once existed is never nonExistent again.  *)
(***************************************************************************)
IsForm(f) == \E o, e, p, s : f = [original |-> o, edited |-> e, pending |-> p, estimating |-> s]

Statuses == {"nonExistent", "open", "closedByOwner", "closedByLiquidation", "closedByRedemption"}
IsTrove(p) == \E s, a, g, i : s \in Statuses /\ p = [status |-> s, amount |-> a, gain |-> g, initial |-> i]

TroveViews == {"NONE", "LIQUIDATED", "REDEEMED", "OPENING", "ADJUSTING", "CLOSING", "ACTIVE"}
OpenViews == {"ADJUSTING", "CLOSING", "ACTIVE"}

FormInv ==
    /\ panel \in {"trove", "stability", "staking"} /\ IsForm(form)
    /\ ~loaded => mounted = "nothing"
    /\ panel # "trove" /\ mounted \in {"DEPOSITING", "ADJUSTING"} /\ (panel = "staking" => view = mounted)
          => form.original = shown.amount

TroveInv ==
    panel = "trove" =>
        /\ view \in TroveViews /\ viewRef \in TroveViews
        /\ IsTrove(chain) /\ IsTrove(shown) /\ IsTrove(seen)
        /\ chain.status = "nonExistent" => shown.status = "nonExistent"
        /\ shown.status = "nonExistent" => seen.status = "nonExistent"
        /\ ~raced /\ view \in OpenViews => seen.status = "open"

\* What a position of a trove looks like.
LEMMA TroveShape ==
    ASSUME NEW s \in Statuses, NEW a, NEW g, NEW i
    PROVE  IsTrove([status |-> s, amount |-> a, gain |-> g, initial |-> i])
BY Zenon DEF IsTrove

\* The events of a trove that has ended take the view of an open one away, and no
\* other event brings one in, except that the trove was opened.
LEMMA TroveTransitions ==
    ASSUME panel = "trove", NEW v \in TroveViews, NEW event
    PROVE  /\ transition(v, event) \in TroveViews
           /\ event \in {"TROVE_CLOSED", "TROVE_LIQUIDATED", "TROVE_REDEEMED"} => transition(v, event) \notin OpenViews
           /\ v \notin OpenViews /\ event # "TROVE_OPENED" => transition(v, event) \notin OpenViews
<1>1. transition(v, event) = IF event \in DOMAIN troveTransitions[v] THEN troveTransitions[v][event] ELSE v
  BY DEF transition
<1>2. CASE v = "NONE"
  <2>1. troveTransitions[v] = [OPEN_TROVE_PRESSED |-> "OPENING", TROVE_OPENED |-> "ACTIVE"]
    BY <1>2 DEF troveTransitions
  <2>. QED BY <1>1, <1>2, <2>1 DEF TroveViews, OpenViews
<1>3. CASE v \in {"LIQUIDATED", "REDEEMED"}
  <2>1. troveTransitions[v] = [OPEN_TROVE_PRESSED |-> "OPENING", TROVE_SURPLUS_COLLATERAL_CLAIMED |-> "NONE",
                               TROVE_OPENED |-> "ACTIVE"]
    BY <1>3 DEF troveTransitions
  <2>. QED BY <1>1, <1>3, <2>1 DEF TroveViews, OpenViews
<1>4. CASE v = "OPENING"
  <2>1. troveTransitions[v] = [CANCEL_ADJUST_TROVE_PRESSED |-> "NONE", TROVE_OPENED |-> "ACTIVE"]
    BY <1>4 DEF troveTransitions
  <2>. QED BY <1>1, <1>4, <2>1 DEF TroveViews, OpenViews
<1>5. CASE v \in {"ADJUSTING", "CLOSING"}
  <2>1. troveTransitions[v] = [CANCEL_ADJUST_TROVE_PRESSED |-> "ACTIVE", TROVE_ADJUSTED |-> "ACTIVE",
                     TROVE_CLOSED |-> "NONE", TROVE_LIQUIDATED |-> "LIQUIDATED",
                     TROVE_REDEEMED |-> "REDEEMED"]
    BY <1>5 DEF troveTransitions
  <2>. QED BY <1>1, <1>5, <2>1 DEF TroveViews, OpenViews
<1>6. CASE v = "ACTIVE"
  <2>1. troveTransitions[v] = [ADJUST_TROVE_PRESSED |-> "ADJUSTING", CLOSE_TROVE_PRESSED |-> "CLOSING",
                     TROVE_CLOSED |-> "NONE", TROVE_LIQUIDATED |-> "LIQUIDATED",
                     TROVE_REDEEMED |-> "REDEEMED"]
    BY <1>6 DEF troveTransitions
  <2>. QED BY <1>1, <1>6, <2>1 DEF TroveViews, OpenViews
<1>. QED BY <1>2, <1>3, <1>4, <1>5, <1>6 DEF TroveViews

\* The view a trove starts with is that of its status.
LEMMA FirstView ==
    ASSUME NEW p
    PROVE  /\ panel = "trove" => getInitialView(p) \in TroveViews /\ (getInitialView(p) \in OpenViews => p.status = "open")
           /\ panel # "trove" => getInitialView(p) \in {"ACTIVE", "NONE"}
BY DEF getInitialView, TroveViews, OpenViews

\* What a commit sets while nobody's event went astray.
LEMMA TroveDrawn ==
    ASSUME panel = "trove", view \in TroveViews, viewRef \in TroveViews, IsTrove(shown), IsTrove(seen),
           shown.status = "nonExistent" => seen.status = "nonExistent", NEW present \in BOOLEAN, NEW fresh
    PROVE  /\ viewAfter(present, fresh, shown) \in TroveViews
           /\ /\ view \in OpenViews => seen.status = "open"
              /\ ~(present /\ view # viewRef /\ view \in {"LIQUIDATED", "REDEEMED"} /\ viewEvent(fresh, shown) # "none")
              /\ viewAfter(present, fresh, shown) \in OpenViews
              => shown.status = "open"
<1>. DEFINE own == IF present THEN viewEvent(fresh, shown) ELSE "none"
            event == TroveViewProvider(shown)
<1>1. viewAfter(present, fresh, shown) =
         IF event # "none" THEN transition(view, event) ELSE IF own # "none" THEN transition(viewRef, own) ELSE view
  BY DEF viewAfter
<1>2. shown.status \in Statuses
  BY DEF IsTrove
<1>3. CASE event # "none"
  <2>1. viewAfter(present, fresh, shown) = transition(view, event)
    BY <1>1, <1>3
  <2>2. shown.status # "open" => event \in {"TROVE_CLOSED", "TROVE_LIQUIDATED", "TROVE_REDEEMED"}
    BY <1>2, <1>3 DEF TroveViewProvider, troveStatusEvents, Statuses
  <2>. HIDE DEF event
  <2>. QED BY <2>1, <2>2, TroveTransitions
<1>4. CASE event = "none"
  <2>1. shown.status = seen.status
    BY <1>2, <1>4 DEF TroveViewProvider, troveStatusEvents, Statuses
  <2>2. CASE own = "none"
    <3>1. viewAfter(present, fresh, shown) = view
      BY <1>1, <1>4, <2>2
    <3>. QED BY <2>1, <3>1
  <2>3. CASE own # "none"
    <3>1. viewAfter(present, fresh, shown) = transition(viewRef, own)
      BY <1>1, <1>4, <2>3
    <3>2. present /\ own = viewEvent(fresh, shown)
      BY <2>3
    <3>3. CASE view \in {"LIQUIDATED", "REDEEMED"}
      <4>1. own = surplusClaimed(fresh, shown)
        BY <3>2, <3>3 DEF viewEvent
      <4>2. own = "TROVE_SURPLUS_COLLATERAL_CLAIMED"
        BY <2>3, <4>1 DEF surplusClaimed
      <4>3. view \notin OpenViews
        BY <3>3 DEF OpenViews
      <4>. HIDE DEF own
      <4>. QED BY <2>3, <3>1, <3>2, <3>3, <4>2, <4>3, TroveTransitions
    <3>4. CASE view \in {"NONE", "OPENING"}
      <4>1. viewEvent(fresh, shown) = "none"
        BY <3>4 DEF viewEvent
      <4>. QED BY <2>3, <3>2, <4>1
    <3>5. CASE view \in OpenViews
      <4>. HIDE DEF own
      <4>. QED BY <2>1, <3>1, <3>5, TroveTransitions
    <3>. QED BY <3>3, <3>4, <3>5 DEF TroveViews, OpenViews
  <2>. QED BY <2>2, <2>3
<1>. QED BY <1>3, <1>4

\* The form that is drawn.
LEMMA FormDrawn == ASSUME FormInv, commit PROVE FormInv'
<1>. DEFINE present == page = "dashboard"
            fresh == present /\ mounted # view
            new == [formFor(view, shown) EXCEPT !.pending = panel = "staking" /\ form.pending]
            moved == [form EXCEPT !.original = shown.amount,
                           !.edited = applyUnsavedNetDebtChanges(@ - form.original, shown.amount)]
            f == IF fresh THEN new
                 ELSE IF panel = "trove" /\ view = "ADJUSTING" /\ present /\ shown.amount # form.original
                 THEN moved ELSE form
            kept == present \/ panel = "staking"
            g == IF kept THEN f ELSE NoForm
            awaited == IF kept THEN pendingAfter(f, fresh) ELSE FALSE
<1>1. /\ loaded' = loaded /\ loaded /\ panel' = panel /\ shown' = shown
      /\ mounted' = IF present THEN view ELSE "nothing"
      /\ panel = "staking" => view' = view
  BY DEF commit, pageVars, toDraw, viewAfter
<1>2. form' = [g EXCEPT !.pending = awaited]
  BY DEF commit
<1>3. IsForm(new) /\ (view \in {"ADJUSTING", "DEPOSITING"} => new.original = shown.amount)
  <2>1. PICK o, e, p, s : /\ formFor(view, shown) = [original |-> o, edited |-> e, pending |-> p, estimating |-> s]
                          /\ view \in {"ADJUSTING", "DEPOSITING"} => o = shown.amount
    BY DEF formFor, NoForm
  <2>2. PICK q : q = (panel = "staking" /\ form.pending)
    OBVIOUS
  <2>3. new = [original |-> o, edited |-> e, pending |-> q, estimating |-> s]
    BY <2>1, <2>2
  <2>. HIDE DEF new
  <2>. QED BY <2>1, <2>3 DEF IsForm
<1>4. IsForm(moved)
  <2>1. PICK o, e, p, s : form = [original |-> o, edited |-> e, pending |-> p, estimating |-> s]
    BY DEF FormInv, IsForm
  <2>2. PICK x : x = applyUnsavedNetDebtChanges(form.edited - form.original, shown.amount)
    OBVIOUS
  <2>3. moved = [[form EXCEPT !.original = shown.amount] EXCEPT !.edited = x]
    BY <2>1, <2>2
  <2>4. [form EXCEPT !.original = shown.amount] = [original |-> shown.amount, edited |-> e, pending |-> p, estimating |-> s]
    BY <2>1
  <2>5. [[original |-> shown.amount, edited |-> e, pending |-> p, estimating |-> s] EXCEPT !.edited = x]
           = [original |-> shown.amount, edited |-> x, pending |-> p, estimating |-> s]
    OBVIOUS
  <2>6. IsForm([original |-> shown.amount, edited |-> x, pending |-> p, estimating |-> s])
    BY DEF IsForm
  <2>. HIDE DEF moved
  <2>. QED BY <2>3, <2>4, <2>5, <2>6, Zenon
<1>5. IsForm(NoForm)
  BY DEF IsForm, NoForm
<1>6. IsForm(g)
  <2>. HIDE DEF new, moved
  <2>. QED BY <1>3, <1>4, <1>5 DEF FormInv
<1>7. IsForm(form') /\ form'.original = g.original
  <2>. HIDE DEF g, awaited
  <2>1. PICK o, e, p, s : g = [original |-> o, edited |-> e, pending |-> p, estimating |-> s]
    BY <1>6 DEF IsForm
  <2>2. form' = [original |-> o, edited |-> e, pending |-> awaited, estimating |-> s]
    BY <1>2, <2>1
  <2>. QED BY <2>1, <2>2 DEF IsForm
<1>8. ASSUME panel # "trove", mounted' \in {"DEPOSITING", "ADJUSTING"} PROVE g.original = shown.amount
  <2>1. present /\ view = mounted' /\ view \in {"ADJUSTING", "DEPOSITING"}
    BY <1>1, <1>8
  <2>2. CASE fresh
    <3>1. g = new
      BY <2>1, <2>2
    <3>. HIDE DEF g, new
    <3>. QED BY <1>3, <2>1, <3>1
  <2>3. CASE ~fresh
    <3>1. g = form /\ mounted = view
      BY <1>8, <2>1, <2>3
    <3>. HIDE DEF g
    <3>. QED BY <1>8, <2>1, <3>1 DEF FormInv
  <2>. QED BY <2>2, <2>3
<1>. HIDE DEF g, present
<1>. QED BY <1>1, <1>7, <1>8 DEF FormInv

\* A form that was drawn follows the store.
LEMMA FormUpdated == ASSUME FormInv, storeUpdated PROVE FormInv'
<1>1. /\ loaded' = loaded /\ panel' = panel /\ mounted' = mounted /\ shown' = chain
      /\ view' = IF panel = "staking" /\ shown # chain THEN getInitialView(chain) ELSE view
  BY DEF storeUpdated
<1>2. PICK o, e, p, s : form = [original |-> o, edited |-> e, pending |-> p, estimating |-> s]
  BY DEF FormInv, IsForm
<1>3. IsForm(form)
  BY DEF FormInv
<1>4. CASE panel = "staking"
  <2>1. form' = StakingUpdated(shown, chain)
    BY <1>4 DEF storeUpdated
  <2>2. CASE chain = shown
    BY <1>1, <2>1, <2>2 DEF FormInv, StakingUpdated
  <2>3. CASE chain # shown
    <3>1. PICK q : form' = [NoForm EXCEPT !.pending = q]
      BY <2>1, <2>3 DEF StakingUpdated
    <3>2. IsForm(form')
      BY <3>1 DEF NoForm, IsForm
    <3>3. view' \in {"ACTIVE", "NONE"}
      BY <1>1, <1>4, <2>3, FirstView
    <3>. QED BY <1>1, <1>4, <3>2, <3>3 DEF FormInv
  <2>. QED BY <2>2, <2>3
<1>5. CASE panel = "stability" /\ mounted \in {"DEPOSITING", "ADJUSTING"}
  <2>1. form' = StabilityDepositUpdated(shown, chain)
    BY <1>5 DEF storeUpdated
  <2>2. CASE chain = shown
    BY <1>1, <1>5, <2>1, <2>2 DEF FormInv, StabilityDepositUpdated
  <2>3. CASE chain # shown
    <3>1. PICK c : c = applyChange(form.original, form.edited, chain.amount)
      OBVIOUS
    <3>2. \/ form' = [form EXCEPT !.original = chain.amount, !.edited = chain.amount, !.pending = FALSE]
          \/ form' = [form EXCEPT !.original = chain.amount, !.edited = c]
      BY <2>1, <2>3, <3>1 DEF StabilityDepositUpdated
    <3>3. PICK x, y : form' = [original |-> chain.amount, edited |-> x, pending |-> y, estimating |-> s]
      BY <1>2, <3>2
    <3>4. IsForm(form') /\ form'.original = chain.amount
      BY <3>3 DEF IsForm
    <3>. QED BY <1>1, <1>5, <3>4 DEF FormInv
  <2>. QED BY <2>2, <2>3
<1>6. CASE panel # "staking" /\ ~(panel = "stability" /\ mounted \in {"DEPOSITING", "ADJUSTING"})
  <2>1. form' = form \/ form' = [form EXCEPT !.pending = FALSE]
    BY <1>6 DEF storeUpdated, TroveManagerUpdated
  <2>2. IsForm(form')
    <3>1. CASE form' = form
      BY <1>3, <3>1
    <3>2. CASE form' = [form EXCEPT !.pending = FALSE]
      <4>1. form' = [original |-> o, edited |-> e, pending |-> FALSE, estimating |-> s]
        BY <1>2, <3>2
      <4>. QED BY <4>1 DEF IsForm
    <3>. QED BY <2>1, <3>1, <3>2
  <2>. QED BY <1>1, <1>6, <2>2 DEF FormInv
<1>. QED BY <1>4, <1>5, <1>6

\* Every other step leaves what a form starts from alone, or the form itself is gone.
LEMMA FormStep == ASSUME FormInv, [Next]_vars PROVE FormInv'
<1>1. ASSUME UNCHANGED <<panel, view, form, mounted, shown, loaded>> PROVE FormInv'
  BY <1>1 DEF FormInv
<1>2. ASSUME NEW n \in DOMAIN txs, mine(n) PROVE FormInv'
  BY <1>1, <1>2 DEF mine, panelVars
<1>3. CASE othersAct \/ confirm \/ setPrice \/ liquidate \/ navigate \/ receipt \/ fiveSeconds \/ UNCHANGED vars
  BY <1>1, <1>3 DEF othersAct, confirm, setPrice, liquidate, navigate, receipt, fiveSeconds, vars, panelVars, pageVars
<1>4. ASSUME NEW n, walletAnswers(n) \/ revertReason(n) PROVE FormInv'
  BY <1>1, <1>4 DEF walletAnswers, revertReason, panelVars, pageVars
<1>5. CASE storeLoaded \/ LiquityProvider
  <2>1. form' = NoForm /\ mounted' = "nothing" /\ panel' = panel
    BY <1>5 DEF storeLoaded, LiquityProvider, FormInv
  <2>2. IsForm(NoForm)
    BY DEF IsForm, NoForm
  <2>. QED BY <2>1, <2>2 DEF FormInv
<1>6. ASSUME NEW event, press(event) PROVE FormInv'
  <2>1. panel # "staking" /\ UNCHANGED <<panel, form, mounted, shown, loaded>>
    BY <1>6 DEF press, pageVars
  <2>. QED BY <2>1 DEF FormInv
<1>7. CASE startAdjusting \/ cancelAdjusting
  <2>1. UNCHANGED <<panel, form, mounted, shown, loaded>> /\ panel = "staking"
    BY <1>7 DEF startAdjusting, cancelAdjusting, pageVars
  <2>2. mounted \in {"DEPOSITING", "ADJUSTING"} => view' # mounted
    BY <1>7, <2>1, FirstView DEF startAdjusting, cancelAdjusting
  <2>. QED BY <2>1, <2>2 DEF FormInv
<1>8. ASSUME ExpensiveTroveChangeWarning \/ \E amount : edit(amount) PROVE FormInv'
  <2>1. UNCHANGED <<panel, view, mounted, shown, loaded>>
    BY <1>8 DEF ExpensiveTroveChangeWarning, edit, pageVars
  <2>2. PICK o, e, p, s : form = [original |-> o, edited |-> e, pending |-> p, estimating |-> s]
    BY DEF FormInv, IsForm
  <2>3. PICK x, y : form' = [original |-> o, edited |-> x, pending |-> p, estimating |-> y]
    <3>1. CASE ExpensiveTroveChangeWarning
      BY <2>2, <3>1 DEF ExpensiveTroveChangeWarning
    <3>2. ASSUME NEW amount, edit(amount) PROVE \E x, y : form' = [original |-> o, edited |-> x, pending |-> p, estimating |-> y]
      <4>1. PICK y : y = (mounted = "OPENING")
        OBVIOUS
      <4>2. form' = [form EXCEPT !.edited = amount, !.estimating = y]
        BY <3>2, <4>1 DEF edit
      <4>3. form' = [original |-> o, edited |-> amount, pending |-> p, estimating |-> y]
        BY <2>2, <4>2
      <4>. QED BY <4>3
    <3>. QED BY <1>8, <3>1, <3>2
  <2>4. IsForm(form') /\ form'.original = form.original
    BY <2>2, <2>3 DEF IsForm
  <2>. QED BY <2>1, <2>4 DEF FormInv
<1>. QED BY <1>2, <1>3, <1>4, <1>5, <1>6, <1>7, <1>8, FormDrawn, FormUpdated DEF Next

\* A trove that a transaction or somebody else changed has existed.
LEMMA TroveChanged ==
    ASSUME IsTrove(chain), panel = "trove", othersAct \/ \E n \in DOMAIN txs : mine(n)
    PROVE  IsTrove(chain') /\ (chain'.status = "nonExistent" => chain.status = "nonExistent")
<1>1. PICK s, a, g, i : s \in Statuses /\ chain = [status |-> s, amount |-> a, gain |-> g, initial |-> i]
  BY DEF IsTrove
<1>2. chain.status = s
  BY <1>1
<1>3. CASE chain' = chain
  BY <1>3
<1>4. ASSUME NEW t \in Statuses, t = "nonExistent" => s = "nonExistent",
             NEW b, NEW h, NEW k, chain' = [status |-> t, amount |-> b, gain |-> h, initial |-> k]
      PROVE  IsTrove(chain') /\ (chain'.status = "nonExistent" => chain.status = "nonExistent")
  <2>1. chain'.status = t
    BY <1>4
  <2>. QED BY <1>2, <1>4, <2>1 DEF IsTrove
<1>5. CASE othersAct
  <2>1. CASE chain' = [chain EXCEPT !.amount = @ + 1]
    <3>1. chain' = [status |-> s, amount |-> a + 1, gain |-> g, initial |-> i]
      BY <1>1, <2>1
    <3>. QED BY <1>1, <1>4, <3>1
  <2>2. CASE chain' \in [status : {"closedByLiquidation", "closedByRedemption"}, amount : {0}, gain : BOOLEAN,
                        initial : {0}]
    <3>1. PICK t, b, h, k : /\ t \in {"closedByLiquidation", "closedByRedemption"}
                               /\ chain' = [status |-> t, amount |-> b, gain |-> h, initial |-> k]
      BY <2>2
    <3>. QED BY <1>4, <3>1 DEF Statuses
  <2>. QED BY <1>3, <1>5, <2>1, <2>2 DEF othersAct
<1>6. ASSUME NEW tx, succeeds(tx, chain), chain' = positionAfter(tx, chain)
      PROVE  \E t, b, h, k : /\ t \in Statuses /\ (t = "nonExistent" => s = "nonExistent")
                              /\ chain' = [status |-> t, amount |-> b, gain |-> h, initial |-> k]
  <2>1. CASE ~tx.included
    BY <1>1, <1>6, <2>1 DEF positionAfter
  <2>2. CASE tx.included /\ tx.id = "trove-creation"
    <3>1. chain' = [chain EXCEPT !.status = "open", !.amount = tx.by]
      BY <1>6, <2>2 DEF positionAfter
    <3>2. chain' = [status |-> "open", amount |-> tx.by, gain |-> g, initial |-> i]
      BY <1>1, <3>1
    <3>. QED BY <3>2 DEF Statuses
  <2>3. CASE tx.included /\ tx.id = "trove-adjustment"
    <3>1. chain' = [chain EXCEPT !.amount = @ + tx.by]
      BY <1>6, <2>3 DEF positionAfter
    <3>2. chain' = [status |-> s, amount |-> a + tx.by, gain |-> g, initial |-> i]
      BY <1>1, <3>1
    <3>. QED BY <1>1, <3>2
  <2>4. CASE tx.included /\ tx.id = "trove-closure"
    <3>1. chain' = [chain EXCEPT !.status = "closedByOwner", !.amount = 0]
      BY <1>6, <2>4 DEF positionAfter
    <3>2. chain' = [status |-> "closedByOwner", amount |-> 0, gain |-> g, initial |-> i]
      BY <1>1, <3>1
    <3>. QED BY <3>2 DEF Statuses
  <2>5. CASE tx.included /\ tx.id = "claim-coll-surplus"
    <3>1. chain' = [chain EXCEPT !.gain = FALSE]
      BY <1>6, <2>5 DEF positionAfter
    <3>2. chain' = [status |-> s, amount |-> a, gain |-> FALSE, initial |-> i]
      BY <1>1, <3>1
    <3>. QED BY <1>1, <3>2
  <2>6. CASE tx.included /\ tx.id \in {"stability-deposit", "stake"}
    <3>1. PICK b : b = IF chain.amount + tx.by < 0 THEN 0 ELSE chain.amount + tx.by
      OBVIOUS
    <3>2. PICK j : j = IF tx.id = "stake" THEN 0 ELSE b
      OBVIOUS
    <3>3. chain' = [chain EXCEPT !.amount = b, !.gain = FALSE, !.initial = j]
      BY <1>6, <2>6, <3>1, <3>2 DEF positionAfter
    <3>4. chain' = [status |-> s, amount |-> b, gain |-> FALSE, initial |-> j]
      BY <1>1, <3>3
    <3>. QED BY <1>1, <3>4
  <2>7. CASE tx.included /\ tx.id \notin {"trove-creation", "trove-adjustment", "trove-closure", "claim-coll-surplus",
                                          "stability-deposit", "stake"}
    BY <1>1, <1>6, <2>7 DEF positionAfter
  <2>. QED BY <2>1, <2>2, <2>3, <2>4, <2>5, <2>6, <2>7
<1>7. ASSUME NEW n \in DOMAIN txs, mine(n)
      PROVE  IsTrove(chain') /\ (chain'.status = "nonExistent" => chain.status = "nonExistent")
  <2>1. chain' = chain \/ (succeeds(txs[n], chain) /\ chain' = positionAfter(txs[n], chain))
    BY <1>7 DEF mine
  <2>. QED BY <1>3, <1>4, <1>6, <2>1
<1>. QED BY <1>5, <1>7

\* The steps of a trove's panel.
LEMMA TroveStep == ASSUME TroveInv, [Next]_vars PROVE TroveInv'
<1>. USE DEF panelVars, pageVars
<1>1. ASSUME UNCHANGED <<panel, view, viewRef, chain, shown, seen, raced>> PROVE TroveInv'
  BY <1>1 DEF TroveInv
<1>2. CASE othersAct \/ \E n \in DOMAIN txs : mine(n)
  <2>1. UNCHANGED <<panel, view, viewRef, shown, seen, raced>>
    BY <1>2 DEF othersAct, mine
  <2>. QED BY <1>2, <2>1, TroveChanged DEF TroveInv
<1>3. CASE confirm \/ setPrice \/ liquidate \/ navigate \/ receipt \/ fiveSeconds \/ ExpensiveTroveChangeWarning
           \/ LiquityProvider \/ UNCHANGED vars
  BY <1>1, <1>3 DEF confirm, setPrice, liquidate, navigate, receipt, fiveSeconds, ExpensiveTroveChangeWarning,
                    LiquityProvider, vars
<1>4. ASSUME NEW n, walletAnswers(n) \/ revertReason(n) PROVE TroveInv'
  BY <1>1, <1>4 DEF walletAnswers, revertReason
<1>5. ASSUME NEW amount, edit(amount) PROVE TroveInv'
  BY <1>1, <1>5 DEF edit
<1>6. CASE startAdjusting \/ cancelAdjusting
  <2>1. panel' = "staking"
    BY <1>6 DEF startAdjusting, cancelAdjusting
  <2>. QED BY <2>1 DEF TroveInv
<1>7. CASE storeLoaded
  <2>1. /\ UNCHANGED <<panel, chain>> /\ shown' = chain /\ seen' = chain
        /\ view' = getInitialView(chain) /\ viewRef' = view'
    BY <1>7 DEF storeLoaded
  <2>. QED BY <2>1, FirstView DEF TroveInv
<1>8. CASE storeUpdated
  <2>1. /\ UNCHANGED <<panel, chain, seen, viewRef, raced>> /\ shown' = chain
        /\ panel = "trove" => view' = view
    BY <1>8 DEF storeUpdated
  <2>. QED BY <2>1 DEF TroveInv
<1>9. ASSUME NEW event \in {"OPEN_TROVE_PRESSED", "CANCEL_ADJUST_TROVE_PRESSED", "ADJUST_TROVE_PRESSED",
                     "CLOSE_TROVE_PRESSED", "DEPOSIT_PRESSED", "CANCEL_PRESSED",
                     "ADJUST_DEPOSIT_PRESSED"}, press(event) PROVE TroveInv'
  <2>1. /\ UNCHANGED <<panel, viewRef, chain, shown, seen>> /\ view' = transition(viewRef, event)
        /\ raced' = (raced \/ view # viewRef)
    BY <1>9 DEF press
  <2>. QED BY <2>1, TroveTransitions DEF TroveInv
<1>10. CASE commit
  <2>. DEFINE present == page = "dashboard"
              fresh == present /\ mounted # view
  <2>1. /\ UNCHANGED <<panel, chain, shown>> /\ viewRef' = view /\ view' = viewAfter(present, fresh, shown)
        /\ seen' = shown
        /\ raced' = (raced \/ (present /\ view # viewRef /\ view \in {"LIQUIDATED", "REDEEMED"}
                                 /\ viewEvent(fresh, shown) # "none"))
    BY <1>10 DEF commit
  <2>2. present \in BOOLEAN
    OBVIOUS
  <2>. HIDE DEF present, fresh
  <2>. QED BY <2>1, <2>2, TroveDrawn DEF TroveInv
<1>. QED BY <1>2, <1>3, <1>4, <1>5, <1>6, <1>7, <1>8, <1>9, <1>10 DEF Next

\* Whatever happens on the chain and in the wallet, and in whatever order the store, the
\* receipts and the buttons tell the pages of it, a panel that has been drawn is that of the
\* position the store shows, and its form starts from the amount shown.
THEOREM DrawnAsShown == FrontendSpec => []ViewCurrent
<1>1. Init => FormInv /\ TroveInv
  <2>. SUFFICES ASSUME Init PROVE FormInv /\ TroveInv
    OBVIOUS
  <2>1. FormInv
    BY DEF Init, FormInv, IsForm, NoForm
  <2>2. TroveInv
    <3>. SUFFICES ASSUME panel = "trove" PROVE TroveInv
      BY DEF TroveInv
    <3>1. PICK first : /\ chain = first /\ shown = first /\ seen = first
                       /\ \/ first = NoPosition(panel)
                          \/ first = [NoPosition(panel) EXCEPT !.amount = 1,
                                               !.status = IF panel = "trove" THEN "open" ELSE @,
                                               !.initial = IF panel = "stability" THEN 1 ELSE 0]
      BY DEF Init
    <3>2. PICK g, i : NoPosition(panel) = [status |-> "nonExistent", amount |-> 0, gain |-> g, initial |-> i]
      BY DEF NoPosition
    <3>3. ASSUME first = NoPosition(panel) PROVE IsTrove(first)
      BY <3>2, <3>3, TroveShape DEF Statuses
    <3>4. ASSUME first = [NoPosition(panel) EXCEPT !.amount = 1,
                                                   !.status = IF panel = "trove" THEN "open" ELSE @,
                                                   !.initial = IF panel = "stability" THEN 1 ELSE 0]
          PROVE  IsTrove(first)
      <4>. DEFINE none == [status |-> "nonExistent", amount |-> 0, gain |-> g, initial |-> i]
      <4>1. first = [[[none EXCEPT !.amount = 1] EXCEPT !.status = "open"] EXCEPT !.initial = 0]
        BY <3>2, <3>4
      <4>2. [none EXCEPT !.amount = 1] = [status |-> "nonExistent", amount |-> 1, gain |-> g, initial |-> i]
        OBVIOUS
      <4>3. first = [status |-> "open", amount |-> 1, gain |-> g, initial |-> 0]
        BY <4>1, <4>2
      <4>. QED BY <4>3, TroveShape DEF Statuses
    <3>5. IsTrove(first)
      BY <3>1, <3>3, <3>4
    <3>6. view = "NONE" /\ viewRef = "NONE"
      BY DEF Init
    <3>. QED BY <3>1, <3>5, <3>6 DEF TroveInv, TroveViews, OpenViews
  <2>. QED BY <2>1, <2>2
<1>2. FormInv /\ TroveInv /\ [Next]_vars => FormInv' /\ TroveInv'
  BY FormStep, TroveStep
<1>3. FormInv /\ TroveInv => ViewCurrent
  <2>. SUFFICES ASSUME FormInv, TroveInv, settled PROVE ViewCurrent
    BY DEF ViewCurrent
  <2>1. seen = shown /\ (mounted = view \/ mounted = "nothing")
    BY DEF settled, toDraw
  <2>. QED BY <2>1 DEF ViewCurrent, FormInv, TroveInv, OpenViews
<1>. QED BY <1>1, <1>2, <1>3, PTL DEF FrontendSpec, PanelsSpec
================================================================================
