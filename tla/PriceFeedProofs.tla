---------------------------- MODULE PriceFeedProofs ----------------------------
(***************************************************************************)
(* Proofs about PriceFeed, for every set of answers, every TIMEOUT and any *)
(* number of rounds and blocks.                                            *)
(***************************************************************************)
EXTENDS PriceFeed, TLAPS

(***************************************************************************)
(* Facts about the operators.                                              *)
(***************************************************************************)

\* An answer that uint256 can hold is scaled to itself, both having 18 digits.
LEMMA PriceOfPositive ==
    ASSUME NEW r, r.answer \in Int, r.answer > 0, r.answer < Word
    PROVE  PriceOf(r) = r.answer
  BY WordAssumption DEF PriceOf, scalePriceByDigits, decimals, TARGET_DIGITS

\* A scaled answer is an unsigned integer.
LEMMA PriceOfType ==
    ASSUME NEW r, r.answer \in Int
    PROVE  PriceOf(r) \in Nat
  BY WordAssumption DEF PriceOf, scalePriceByDigits, decimals, TARGET_DIGITS

\* What PriceFeedTypeOK says of one oracle.
RoundsOK(rounds, bn) ==
    /\ rounds \in Seq(Response)
    /\ \A i \in DOMAIN rounds :
          /\ rounds[i].roundId = i
          /\ rounds[i].answer \in Answers
          /\ rounds[i].currentChainBN \in 1..bn
          /\ i > 1 => rounds[i - 1].currentChainBN <= rounds[i].currentChainBN

\* PriceFeedTypeOK, one oracle at a time.
LEMMA TypeOKRounds ==
    PriceFeedTypeOK <=> /\ RoundsOK(mainRounds, blockNumber)
               /\ RoundsOK(backupRounds, blockNumber)
               /\ blockNumber \in Nat \ {0}
               /\ owned \in BOOLEAN
               /\ status \in Status
               /\ lastGoodPrice \in Nat
  BY DEF PriceFeedTypeOK, RoundsOK

\* A current response that is neither bad nor frozen is the latest round, and
\* that round is fresh.
LEMMA GoodResponseIsFresh ==
    ASSUME NEW rounds, NEW rev \in BOOLEAN, blockNumber \in Nat \ {0},
           RoundsOK(rounds, blockNumber),
           NEW r, r = CurrentResponse(rounds, rev),
           ~badResponse(r), ~isFrozen(r)
    PROVE  Fresh(rounds, PriceOf(r))
  <1>1. r # ZeroResponse
    BY DEF badResponse, ZeroResponse
  <1>2. rounds \in Seq(Response) /\ Len(rounds) \in Nat
    BY DEF RoundsOK
  <1>3. Len(rounds) \in DOMAIN rounds /\ r = rounds[Len(rounds)]
    BY <1>1 DEF CurrentResponse, latestRoundData, getRoundData
  <1>4. Len(rounds) > 0
    BY <1>2, <1>3
  <1>5. r.currentChainBN \in 1..blockNumber
    BY <1>3 DEF RoundsOK
  <1>6. r.answer \in Int
    BY <1>3, PriceFeedAssumption DEF RoundsOK
  <1> QED
    BY <1>3, <1>4, <1>5, <1>6, PriceFeedAssumption DEF Fresh, badResponse, isFrozen

\* The L1 block number a keeper reads back is a number.
LEMMA LatestBlockNumber ==
    ASSUME NEW rounds \in Seq(Response)
    PROVE  latestRoundData(rounds).blockNumber \in Nat
  <1>1. CASE Len(rounds) \in DOMAIN rounds
    <2>1. rounds[Len(rounds)] \in Response
      BY <1>1
    <2> QED
      BY <1>1, <2>1 DEF latestRoundData, getRoundData, Response
  <1>2. CASE Len(rounds) \notin DOMAIN rounds
    BY <1>2 DEF latestRoundData, getRoundData, ZeroResponse
  <1> QED
    BY <1>1, <1>2

\* Appending a round keeps the shape of the rounds.
LEMMA FeedKeepsRounds ==
    ASSUME NEW rounds, NEW answer \in Answers, NEW l1 \in Nat, blockNumber \in Nat \ {0},
           RoundsOK(rounds, blockNumber)
    PROVE  RoundsOK(feedBaseFeeValue(rounds, answer, l1, blockNumber), blockNumber)
  <1> DEFINE new == [answer |-> answer, blockNumber |-> l1,
                     currentChainBN |-> blockNumber, roundId |-> Len(rounds) + 1]
             after == Append(rounds, new)
  <1>1. rounds \in Seq(Response) /\ Len(rounds) \in Nat /\ DOMAIN rounds = 1..Len(rounds)
    BY DEF RoundsOK
  <1>2. new \in Response
    BY <1>1, PriceFeedAssumption DEF Response
  <1>3. /\ after \in Seq(Response)
        /\ DOMAIN after = 1..(Len(rounds) + 1)
        /\ \A i \in 1..Len(rounds) : after[i] = rounds[i]
        /\ after[Len(rounds) + 1] = new
    BY <1>1, <1>2
  <1>4. ASSUME NEW i \in 1..(Len(rounds) + 1)
        PROVE  /\ after[i].roundId = i
               /\ after[i].answer \in Answers
               /\ after[i].currentChainBN \in 1..blockNumber
               /\ i > 1 => after[i - 1].currentChainBN <= after[i].currentChainBN
    <2>1. CASE i \in 1..Len(rounds)
      <3>1. after[i] = rounds[i] /\ (i > 1 => after[i - 1] = rounds[i - 1])
        BY <1>1, <1>3, <2>1
      <3> QED
        BY <1>1, <2>1, <3>1 DEF RoundsOK
    <2>2. CASE i = Len(rounds) + 1
      <3>1. after[i] = new
        BY <1>3, <2>2
      <3>2. i > 1 => /\ after[i - 1] = rounds[i - 1]
                     /\ rounds[i - 1].currentChainBN \in 1..blockNumber
        <4> SUFFICES ASSUME i > 1
                     PROVE  /\ after[i - 1] = rounds[i - 1]
                            /\ rounds[i - 1].currentChainBN \in 1..blockNumber
          OBVIOUS
        <4>1. i - 1 \in 1..Len(rounds)
          BY <1>1, <2>2
        <4>2. after[i - 1] = rounds[i - 1]
          BY <1>3, <4>1
        <4> QED
          BY <1>1, <4>1, <4>2 DEF RoundsOK
      <3>3. new.roundId = i /\ new.answer = answer /\ new.currentChainBN = blockNumber
        BY <2>2
      <3> HIDE DEF new, after
      <3> QED
        BY <3>1, <3>2, <3>3, <1>1
    <2> QED
      BY <1>1, <2>1, <2>2
  <1> QED
    BY <1>3, <1>4 DEF RoundsOK, feedBaseFeeValue

(***************************************************************************)
(* What one call of fetchPrice, or setAddresses, does to the stored price. *)
(***************************************************************************)
Outcome ==
    /\ status' \in Status
    /\ \/ lastGoodPrice' = lastGoodPrice
       \/ Fresh(mainRounds, lastGoodPrice')
       \/ Fresh(backupRounds, lastGoodPrice')

\* fetchPrice keeps the price or stores a fresh one, in every case.
LEMMA FetchOutcome ==
    ASSUME PriceFeedTypeOK, NEW reverts \in SUBSET Reads, fetchPrice(reverts)
    PROVE  Outcome
  <1> DEFINE m  == CurrentResponse(mainRounds, "mainLatest" \in reverts)
             pm == PrevResponse(mainRounds, m, "mainPrev" \in reverts)
             b  == CurrentResponse(backupRounds, "backupLatest" \in reverts)
             pb == PrevResponse(backupRounds, b, "backupPrev" \in reverts)
  <1>1. ~badResponse(m) /\ ~isFrozen(m) => Fresh(mainRounds, PriceOf(m))
    <2>1. ("mainLatest" \in reverts) \in BOOLEAN
      OBVIOUS
    <2> QED
      BY <2>1, TypeOKRounds, GoodResponseIsFresh
  <1>2. ~badResponse(b) /\ ~isFrozen(b) => Fresh(backupRounds, PriceOf(b))
    <2>1. ("backupLatest" \in reverts) \in BOOLEAN
      OBVIOUS
    <2> QED
      BY <2>1, TypeOKRounds, GoodResponseIsFresh
  <1>3. \/ FetchMainWorking(m, pm, b, pb)
        \/ FetchBackupMainUntrusted(m, pm, b, pb)
        \/ FetchBothUntrusted(m, pm, b)
        \/ FetchBackupMainFrozen(m, pm, b)
        \/ FetchMainBackupUntrusted(m, pm, b)
    BY DEF fetchPrice
  <1> HIDE DEF m, pm, b, pb
  <1>4. CASE FetchMainWorking(m, pm, b, pb)
    BY <1>1, <1>2, <1>4
       DEF FetchMainWorking, Outcome, Status, mainOracleIsBroken, backupOracleIsBroken,
           ReturnLastGoodPrice, StoreGoodPrice
  <1>5. CASE FetchBackupMainUntrusted(m, pm, b, pb)
    BY <1>1, <1>2, <1>5
       DEF FetchBackupMainUntrusted, bothOraclesLiveAndUnbrokenAndSimilarPrice, Outcome,
           Status, mainOracleIsBroken, backupOracleIsBroken, ReturnLastGoodPrice, StoreGoodPrice
  <1>6. CASE FetchBothUntrusted(m, pm, b)
    BY <1>1, <1>6
       DEF FetchBothUntrusted, bothOraclesLiveAndUnbrokenAndSimilarPrice, Outcome,
           Status, mainOracleIsBroken, ReturnLastGoodPrice, StoreGoodPrice
  <1>7. CASE FetchBackupMainFrozen(m, pm, b)
    BY <1>1, <1>2, <1>7
       DEF FetchBackupMainFrozen, Outcome, Status, mainOracleIsBroken, backupOracleIsBroken,
           ReturnLastGoodPrice, StoreGoodPrice
  <1>8. CASE FetchMainBackupUntrusted(m, pm, b)
    BY <1>1, <1>8
       DEF FetchMainBackupUntrusted, Outcome, Status, mainOracleIsBroken,
           ReturnLastGoodPrice, StoreGoodPrice
  <1> QED
    BY <1>3, <1>4, <1>5, <1>6, <1>7, <1>8

\* setAddresses stores a fresh price of the main oracle.
LEMMA SetAddressesOutcome ==
    ASSUME PriceFeedTypeOK, setAddresses
    PROVE  status' \in Status /\ Fresh(mainRounds, lastGoodPrice')
  <1> DEFINE m == CurrentResponse(mainRounds, FALSE)
  <1>1. ~badResponse(m) /\ ~isFrozen(m) /\ StoreGoodPrice("mainOracleWorking", m)
    BY DEF setAddresses, mainOracleIsBroken
  <1>2. Fresh(mainRounds, PriceOf(m))
    BY <1>1, TypeOKRounds, GoodResponseIsFresh
  <1> QED
    BY <1>1, <1>2 DEF StoreGoodPrice, Status

\* A fresh price is a natural number, and a positive one that a round reported.
LEMMA FreshPrice ==
    ASSUME NEW rounds, NEW price, RoundsOK(rounds, blockNumber), Fresh(rounds, price)
    PROVE  /\ price \in Nat /\ price > 0
           /\ \E i \in DOMAIN rounds : rounds[i].answer > 0 /\ price = PriceOf(rounds[i])
  <1> DEFINE i == Len(rounds)
  <1>1. rounds \in Seq(Response) /\ i \in DOMAIN rounds
    BY DEF RoundsOK, Fresh
  <1>2. rounds[i].answer \in Int /\ rounds[i].answer < Word
    BY <1>1, PriceFeedAssumption DEF RoundsOK
  <1>3. rounds[i].answer > 0 /\ price = PriceOf(rounds[i])
    BY DEF Fresh
  <1>4. price = rounds[i].answer
    BY <1>2, <1>3, PriceOfPositive
  <1>5. price \in Nat /\ price > 0
    BY <1>2, <1>3, <1>4
  <1>6. \E j \in DOMAIN rounds : rounds[j].answer > 0 /\ price = PriceOf(rounds[j])
    BY <1>1, <1>3
  <1> QED
    BY <1>5, <1>6

--------------------------------------------------------------------------------
(***************************************************************************)
(* The theorems.                                                           *)
(***************************************************************************)

\* Type correctness: round numbers are keys, no round is written in the future
\* or out of block order, and the feed's own state has its types.
THEOREM TypeCorrect == PriceFeedSpec => []PriceFeedTypeOK
  <1>1. PriceFeedInit => PriceFeedTypeOK
    <2> SUFFICES ASSUME PriceFeedInit PROVE PriceFeedTypeOK
      OBVIOUS
    <2>1. RoundsOK(<<>>, 1)
      BY DEF RoundsOK
    <2> QED
      BY <2>1, TypeOKRounds DEF PriceFeedInit, Status
  <1>2. PriceFeedTypeOK /\ [PriceFeedNext]_feedVars => PriceFeedTypeOK'
    <2> SUFFICES ASSUME PriceFeedTypeOK, [PriceFeedNext]_feedVars
                 PROVE  /\ RoundsOK(mainRounds', blockNumber')
                        /\ RoundsOK(backupRounds', blockNumber')
                        /\ blockNumber' \in Nat \ {0}
                        /\ owned' \in BOOLEAN
                        /\ status' \in Status
                        /\ lastGoodPrice' \in Nat
      BY DEF PriceFeedTypeOK, RoundsOK
    <2> USE TypeOKRounds
    <2>1. CASE setAddresses
      BY <2>1, SetAddressesOutcome, FreshPrice DEF setAddresses
    <2>2. ASSUME NEW reverts \in SUBSET Reads, fetchPrice(reverts)
          PROVE  PriceFeedTypeOK'
      <3>1. Outcome
        BY <2>2, FetchOutcome
      <3>2. lastGoodPrice' \in Nat
        BY <3>1, FreshPrice DEF Outcome
      <3> QED
        BY <2>2, <3>1, <3>2 DEF fetchPrice, Outcome, PriceFeedTypeOK
    <2>3. ASSUME NEW answer \in Answers, FeedMain(answer)
          PROVE  RoundsOK(mainRounds', blockNumber)
      <3>1. latestRoundData(mainRounds).blockNumber + 1 \in Nat
        BY LatestBlockNumber DEF RoundsOK
      <3> QED
        BY <2>3, <3>1, FeedKeepsRounds DEF FeedMain
    <2>4. ASSUME NEW answer \in Answers, FeedBackup(answer)
          PROVE  RoundsOK(backupRounds', blockNumber)
      <3>1. latestRoundData(backupRounds).blockNumber + 1 \in Nat
        BY LatestBlockNumber DEF RoundsOK
      <3> QED
        BY <2>4, <3>1, FeedKeepsRounds DEF FeedBackup
    <2>5. CASE NextBlock
      <3>1. \A rounds : RoundsOK(rounds, blockNumber) => RoundsOK(rounds, blockNumber + 1)
        BY DEF RoundsOK
      <3> QED
        BY <2>5, <3>1 DEF NextBlock
    <2>6. CASE UNCHANGED feedVars
      BY <2>6 DEF feedVars
    <2> QED
      BY <2>1, <2>2, <2>3, <2>4, <2>5, <2>6 DEF PriceFeedNext, FeedMain, FeedBackup, PriceFeedTypeOK, RoundsOK
  <1> QED
    BY <1>1, <1>2, PTL DEF PriceFeedSpec

\* A price is stored only while it is the latest round of an oracle, positive,
\* and at most TIMEOUT blocks old.
THEOREM FreshOnly == PriceFeedSpec => StoredPriceFresh
  <1> DEFINE Step == lastGoodPrice' # lastGoodPrice =>
                       \/ Fresh(mainRounds, lastGoodPrice')
                       \/ Fresh(backupRounds, lastGoodPrice')
  <1>1. PriceFeedTypeOK /\ [PriceFeedNext]_feedVars => [Step]_feedVars
    <2> SUFFICES ASSUME PriceFeedTypeOK, PriceFeedNext PROVE Step
      OBVIOUS
    <2>1. CASE setAddresses
      BY <2>1, SetAddressesOutcome
    <2>2. CASE \E reverts \in SUBSET Reads : fetchPrice(reverts)
      BY <2>2, FetchOutcome DEF Outcome
    <2> QED
      BY <2>1, <2>2 DEF PriceFeedNext, FeedMain, FeedBackup, NextBlock
  <1> QED
    BY <1>1, TypeCorrect, PTL DEF PriceFeedSpec, StoredPriceFresh

\* The price of a connected feed is positive and was reported by an oracle.
THEOREM Provenance == PriceFeedSpec => []PriceProvenance
  <1> DEFINE Reported(rounds, price) ==
               \E i \in DOMAIN rounds : rounds[i].answer > 0 /\ price = PriceOf(rounds[i])
             Good == /\ lastGoodPrice > 0
                     /\ \/ Reported(mainRounds, lastGoodPrice)
                        \/ Reported(backupRounds, lastGoodPrice)
  <1>0. PriceProvenance <=> (~owned => Good)
    BY DEF PriceProvenance
  <1>1. PriceFeedInit => PriceProvenance
    BY DEF PriceFeedInit, PriceProvenance
  <1>2. PriceFeedTypeOK /\ PriceProvenance /\ [PriceFeedNext]_feedVars => PriceProvenance'
    <2> SUFFICES ASSUME PriceFeedTypeOK, ~owned => Good, [PriceFeedNext]_feedVars
                 PROVE  (~owned => Good)'
      BY <1>0 DEF PriceProvenance
    <2> USE TypeOKRounds
    <2>1. CASE setAddresses
      <3>1. lastGoodPrice' > 0 /\ Reported(mainRounds, lastGoodPrice')
        BY <2>1, SetAddressesOutcome, FreshPrice
      <3> QED
        BY <2>1, <3>1 DEF setAddresses
    <2>2. CASE \E reverts \in SUBSET Reads : fetchPrice(reverts)
      <3>1. Outcome /\ ~owned /\ UNCHANGED <<mainRounds, backupRounds, owned>>
        BY <2>2, FetchOutcome DEF fetchPrice
      <3>2. CASE lastGoodPrice' = lastGoodPrice
        BY <3>1, <3>2
      <3>3. CASE Fresh(mainRounds, lastGoodPrice')
        BY <3>1, <3>3, FreshPrice
      <3>4. CASE Fresh(backupRounds, lastGoodPrice')
        BY <3>1, <3>4, FreshPrice
      <3> QED
        BY <3>1, <3>2, <3>3, <3>4 DEF Outcome
    <2>3. ASSUME NEW answer \in Answers, FeedMain(answer)
          PROVE  (~owned => Good)'
      <3>1. \A i \in DOMAIN mainRounds : i \in DOMAIN mainRounds' /\ mainRounds'[i] = mainRounds[i]
        BY <2>3 DEF FeedMain, feedBaseFeeValue, RoundsOK
      <3> QED
        BY <2>3, <3>1 DEF FeedMain
    <2>4. ASSUME NEW answer \in Answers, FeedBackup(answer)
          PROVE  (~owned => Good)'
      <3>1. \A i \in DOMAIN backupRounds :
               i \in DOMAIN backupRounds' /\ backupRounds'[i] = backupRounds[i]
        BY <2>4 DEF FeedBackup, feedBaseFeeValue, RoundsOK
      <3> QED
        BY <2>4, <3>1 DEF FeedBackup
    <2>5. CASE NextBlock
      BY <2>5 DEF NextBlock
    <2>6. CASE UNCHANGED feedVars
      BY <2>6 DEF feedVars
    <2> QED
      BY <2>1, <2>2, <2>3, <2>4, <2>5, <2>6 DEF PriceFeedNext
  <1> QED
    BY <1>1, <1>2, TypeCorrect, PTL DEF PriceFeedSpec

(***************************************************************************)
(* The return to the main oracle.                                          *)
(***************************************************************************)

\* The largest price that bothOraclesSimilarPrice compares without overflow.
NoOverflow == \A a \in Answers : a > 0 => a * DECIMAL_PRECISION < Word

\* A rounded quotient of at most m bounds the dividend.
LEMMA QuotientBound ==
    ASSUME NEW x \in Nat, NEW y \in Nat \ {0}, NEW m \in Nat, x \div y <= m
    PROVE  x < (m + 1) * y
  BY SMT

\* A difference between two naturals, scaled, is no larger than the larger one.
LEMMA ScaledDifference ==
    ASSUME NEW p \in Nat, NEW q \in Nat, NEW d \in Nat, q <= p
    PROVE  (p - q) * d \in Nat /\ (p - q) * d <= p * d
  BY SMT

\* Prices that cannot overflow agree when bothOraclesSimilarPrice says so.
LEMMA SimilarPricesAgree ==
    ASSUME NoOverflow, NEW m, NEW b, m.answer \in Answers, b.answer \in Answers,
           m.answer > 0, b.answer > 0, bothOraclesSimilarPrice(m, b)
    PROVE  Agree(PriceOf(m), PriceOf(b))
  <1>1. PICK p \in Nat \ {0} : p = PriceOf(m) /\ p * DECIMAL_PRECISION < Word
    <2>1. m.answer \in Int /\ m.answer < Word
      BY PriceFeedAssumption
    <2>2. PriceOf(m) = m.answer
      BY <2>1, PriceOfPositive
    <2> QED
      BY <2>1, <2>2 DEF NoOverflow
  <1>2. PICK q \in Nat \ {0} : q = PriceOf(b) /\ q * DECIMAL_PRECISION < Word
    <2>1. b.answer \in Int /\ b.answer < Word
      BY PriceFeedAssumption
    <2>2. PriceOf(b) = b.answer
      BY <2>1, PriceOfPositive
    <2> QED
      BY <2>1, <2>2 DEF NoOverflow
  <1> DEFINE l == Larger(p, q)
             s == Smaller(p, q)
  <1>3. l \in Nat /\ s \in Nat \ {0} /\ s <= l /\ l * DECIMAL_PRECISION < Word
    BY <1>1, <1>2 DEF Larger, Smaller
  <1>4. ((((l - s) * DECIMAL_PRECISION) % Word) \div s) <= MAX_PRICE_DIFFERENCE_BETWEEN_ORACLES
    BY <1>1, <1>2 DEF bothOraclesSimilarPrice
  <1> HIDE DEF l, s
  <1>5. DECIMAL_PRECISION \in Nat /\ Word \in Nat \ {0}
    BY PriceFeedAssumption, WordAssumption
  <1>6. PICK x \in Nat : x = (l - s) * DECIMAL_PRECISION /\ x < Word
    BY <1>3, <1>5, ScaledDifference
  <1>7. MAX_PRICE_DIFFERENCE_BETWEEN_ORACLES \in Nat
    BY <1>5 DEF MAX_PRICE_DIFFERENCE_BETWEEN_ORACLES
  <1>8. x % Word = x
    BY <1>5, <1>6
  <1>9. x < (MAX_PRICE_DIFFERENCE_BETWEEN_ORACLES + 1) * s
    BY <1>3, <1>4, <1>6, <1>7, <1>8, QuotientBound
  <1> QED
    BY <1>1, <1>2, <1>6, <1>9 DEF Agree, l, s

\* Until setAddresses has been called the status is the zero of its enum, so
\* that no call of it is a return.
OwnedWorking == owned => status = "mainOracleWorking"

\* A call of fetchPrice that returns to the main oracle has good responses of
\* both oracles that agree, and stores the main one.
LEMMA FetchReturns ==
    ASSUME PriceFeedTypeOK, NEW reverts \in SUBSET Reads, fetchPrice(reverts),
           status # "mainOracleWorking", status' = "mainOracleWorking"
    PROVE  \E m, b : /\ m = CurrentResponse(mainRounds, "mainLatest" \in reverts)
                     /\ b = CurrentResponse(backupRounds, "backupLatest" \in reverts)
                     /\ ~badResponse(m) /\ ~isFrozen(m)
                     /\ ~badResponse(b) /\ ~isFrozen(b)
                     /\ bothOraclesSimilarPrice(m, b)
                     /\ lastGoodPrice' = PriceOf(m)
  <1> DEFINE m  == CurrentResponse(mainRounds, "mainLatest" \in reverts)
             pm == PrevResponse(mainRounds, m, "mainPrev" \in reverts)
             b  == CurrentResponse(backupRounds, "backupLatest" \in reverts)
             pb == PrevResponse(backupRounds, b, "backupPrev" \in reverts)
             Good == /\ ~badResponse(m) /\ ~isFrozen(m)
                     /\ ~badResponse(b) /\ ~isFrozen(b)
                     /\ bothOraclesSimilarPrice(m, b)
                     /\ lastGoodPrice' = PriceOf(m)
  <1> SUFFICES Good
    OBVIOUS
  <1>1. \/ FetchBackupMainUntrusted(m, pm, b, pb)
        \/ FetchBothUntrusted(m, pm, b)
        \/ FetchBackupMainFrozen(m, pm, b)
        \/ FetchMainBackupUntrusted(m, pm, b)
    BY DEF fetchPrice, FetchMainWorking
  <1> HIDE DEF m, pm, b, pb
  <1> USE DEF mainOracleIsBroken, backupOracleIsBroken, ReturnLastGoodPrice, StoreGoodPrice,
              bothOraclesLiveAndUnbrokenAndSimilarPrice
  <1>2. CASE FetchBackupMainUntrusted(m, pm, b, pb)
    BY <1>2 DEF FetchBackupMainUntrusted
  <1>3. CASE FetchBothUntrusted(m, pm, b)
    BY <1>3 DEF FetchBothUntrusted
  <1>4. CASE FetchBackupMainFrozen(m, pm, b)
    BY <1>4 DEF FetchBackupMainFrozen
  <1>5. CASE FetchMainBackupUntrusted(m, pm, b)
    BY <1>5 DEF FetchMainBackupUntrusted
  <1> QED
    BY <1>1, <1>2, <1>3, <1>4, <1>5

\* For prices whose fixed-point multiple fits into a word, the main oracle is
\* trusted again only when its fresh price and a fresh price of the backup agree.
THEOREM ReturnNeedsAgreement == NoOverflow => (PriceFeedSpec => ReturnToMainNeedsAgreement)
  <1> DEFINE Return ==
               status # "mainOracleWorking" /\ status' = "mainOracleWorking" =>
                 /\ Fresh(mainRounds, lastGoodPrice')
                 /\ LET q == PriceOf(latestRoundData(backupRounds))
                    IN  Fresh(backupRounds, q) /\ Agree(lastGoodPrice', q)
  <1> SUFFICES ASSUME NoOverflow PROVE PriceFeedSpec => ReturnToMainNeedsAgreement
    OBVIOUS
  <1>1. PriceFeedInit => OwnedWorking
    BY DEF PriceFeedInit, OwnedWorking
  <1>2. OwnedWorking /\ [PriceFeedNext]_feedVars => OwnedWorking'
    BY DEF OwnedWorking, PriceFeedNext, feedVars, setAddresses, fetchPrice, FeedMain, FeedBackup, NextBlock,
           StoreGoodPrice
  <1>3. PriceFeedTypeOK /\ OwnedWorking /\ [PriceFeedNext]_feedVars => [Return]_feedVars
    <2> SUFFICES ASSUME PriceFeedTypeOK, OwnedWorking, PriceFeedNext,
                        status # "mainOracleWorking", status' = "mainOracleWorking"
                 PROVE  /\ Fresh(mainRounds, lastGoodPrice')
                        /\ Fresh(backupRounds, PriceOf(latestRoundData(backupRounds)))
                        /\ Agree(lastGoodPrice', PriceOf(latestRoundData(backupRounds)))
      OBVIOUS
    <2>1. PICK reverts \in SUBSET Reads : fetchPrice(reverts)
      BY DEF PriceFeedNext, setAddresses, FeedMain, FeedBackup, NextBlock, OwnedWorking
    <2>2. PICK m, b : /\ m = CurrentResponse(mainRounds, "mainLatest" \in reverts)
                      /\ b = CurrentResponse(backupRounds, "backupLatest" \in reverts)
                      /\ ~badResponse(m) /\ ~isFrozen(m)
                      /\ ~badResponse(b) /\ ~isFrozen(b)
                      /\ bothOraclesSimilarPrice(m, b)
                      /\ lastGoodPrice' = PriceOf(m)
      BY <2>1, FetchReturns
    <2>3. ("mainLatest" \in reverts) \in BOOLEAN /\ ("backupLatest" \in reverts) \in BOOLEAN
      OBVIOUS
    <2>4. Fresh(mainRounds, PriceOf(m)) /\ Fresh(backupRounds, PriceOf(b))
      BY <2>2, <2>3, TypeOKRounds, GoodResponseIsFresh
    <2>5. m = latestRoundData(mainRounds) /\ b = latestRoundData(backupRounds)
      BY <2>2 DEF CurrentResponse, badResponse, ZeroResponse
    <2>6. m.answer \in Answers /\ b.answer \in Answers
      BY <2>4, <2>5, TypeOKRounds DEF Fresh, RoundsOK, latestRoundData, getRoundData
    <2>7. m.answer > 0 /\ b.answer > 0
      BY <2>4, <2>5 DEF Fresh, latestRoundData, getRoundData
    <2> QED
      BY <2>2, <2>4, <2>5, <2>6, <2>7, SimilarPricesAgree
  <1> QED
    BY <1>1, <1>2, <1>3, TypeCorrect, PTL DEF PriceFeedSpec, ReturnToMainNeedsAgreement
================================================================================
