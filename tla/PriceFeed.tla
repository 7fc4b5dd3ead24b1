------------------------------- MODULE PriceFeed -------------------------------
(***************************************************************************)
(* PriceFeed.sol between its two oracles: a main and a backup BTCOracle    *)
(* that their keepers feed at their own pace, blocks that pass, and        *)
(* fetchPrice, which every operation of the protocol calls and which       *)
(* anybody may call.  fetchPrice reads four responses (the latest and the  *)
(* previous round of each oracle), each inside a try/catch, decides which  *)
(* oracle to trust, and either stores a new lastGoodPrice or returns the   *)
(* old one.  The value returned is always the lastGoodPrice of the new     *)
(* state, so it needs no variable of its own.                              *)
(***************************************************************************)
EXTENDS Integers, Sequences

(***************************************************************************)
(* The price oracle contract BTCOracle.sol.  A keeper holding the SETTER   *)
(* role appends rounds; anybody reads the latest round or a round by its   *)
(* number.  The mapping responseById together with latestRound is the      *)
(* sequence of rounds written so far: round i is rounds[i] and             *)
(* latestRound is Len(rounds).  A round that was never written reads as    *)
(* the all-zero struct, as any Solidity mapping entry does.                *)
(***************************************************************************)
\* 2^256 in the contract: unsigned arithmetic is modulo Word.
CONSTANT Word

ASSUME WordAssumption == Word \in Nat /\ Word > 1

\* The decimals of every BTCOracle.
decimals == 18

\* What a read returns: roundId, answer and currentChainBN are the fields the
\* price feed copies; blockNumber is the L1 block the value was taken from.
Response == [answer : Int, blockNumber : Nat, currentChainBN : Nat, roundId : Nat]

ZeroResponse == [answer |-> 0, blockNumber |-> 0, currentChainBN |-> 0, roundId |-> 0]

getRoundData(rounds, id) ==
    IF id \in DOMAIN rounds THEN rounds[id] ELSE ZeroResponse

latestRoundData(rounds) == getRoundData(rounds, Len(rounds))

\* The update is refused unless the L1 block number grows.
FeedAccepted(rounds, blockNumber) ==
    blockNumber > latestRoundData(rounds).blockNumber

\* The rounds after feedBaseFeeValue(newValue, blockNumber) mined in block bn.
feedBaseFeeValue(rounds, newValue, blockNumber, bn) ==
    Append(rounds, [answer |-> newValue, blockNumber |-> blockNumber,
                    currentChainBN |-> bn, roundId |-> Len(rounds) + 1])

--------------------------------------------------------------------------------
CONSTANTS
    Answers,            \* prices a keeper may feed, bad ones included
    TIMEOUT,            \* blocks after which an oracle counts as frozen (69)
    DECIMAL_PRECISION,  \* fixed-point unit of BaseMath (1e18)
    MaxBlock,           \* bound: last block number
    MaxMainRounds,      \* bound: rounds fed to the main oracle
    MaxBackupRounds     \* bound: rounds fed to the backup oracle

ASSUME PriceFeedAssumption ==
    /\ Answers \subseteq Int
    /\ \A a \in Answers : a < Word
    /\ TIMEOUT \in Nat
    /\ DECIMAL_PRECISION \in Nat
    /\ MaxBlock \in Nat /\ MaxMainRounds \in Nat /\ MaxBackupRounds \in Nat

VARIABLES
    mainRounds,     \* rounds of the main oracle
    backupRounds,   \* rounds of the backup oracle
    blockNumber,    \* block.number of this chain
    owned,          \* FALSE once setAddresses has renounced the ownership
    status,
    lastGoodPrice

feedVars == <<mainRounds, backupRounds, blockNumber, owned, status, lastGoodPrice>>

Status == {"mainOracleWorking", "usingBackupMainUntrusted", "bothOraclesUntrusted",
           "usingBackupMainFrozen", "usingMainBackupUntrusted"}

TARGET_DIGITS == 18
MAX_PRICE_DEVIATION_PERCENTAGE_FROM_PREVIOUS_ROUND == 176
MAX_PRICE_DIFFERENCE_BETWEEN_ORACLES == DECIMAL_PRECISION \div 20

(***************************************************************************)
(* The four reads.  A read that reverts is caught and leaves the all-zero  *)
(* response; the number of the previous round is computed from whatever    *)
(* round number was read, and wraps around below zero.                     *)
(***************************************************************************)
Reads == {"mainLatest", "mainPrev", "backupLatest", "backupPrev"}

CurrentResponse(rounds, reverts) ==
    IF reverts THEN ZeroResponse ELSE latestRoundData(rounds)

PrevResponse(rounds, current, reverts) ==
    IF reverts THEN ZeroResponse
    ELSE getRoundData(rounds, (current.roundId - 1) % Word)

(***************************************************************************)
(* Conditions on responses.                                                *)
(***************************************************************************)

\* _badMainOracleResponse and _backupOracleIsBroken have the same body.
badResponse(r) ==
    \/ r.roundId = 0
    \/ r.currentChainBN = 0 \/ r.currentChainBN > blockNumber
    \/ r.answer <= 0

mainOracleIsBroken(current, prev) == badResponse(current) \/ badResponse(prev)

backupOracleIsBroken(r) == badResponse(r)

\* Mutated form: the age is taken from the L1 block number.
isFrozen_L1Block(r) == blockNumber - r.blockNumber > TIMEOUT

isFrozen(r) == blockNumber - r.currentChainBN > TIMEOUT

\* uint256(answer), then scaled to TARGET_DIGITS digits.
scalePriceByDigits(answer, digits) ==
    LET price == answer % Word
    IN  IF digits = TARGET_DIGITS THEN price
        ELSE IF digits > TARGET_DIGITS THEN price \div 10^(digits - TARGET_DIGITS)
        ELSE (price * 10^(TARGET_DIGITS - digits)) % Word

PriceOf(r) == scalePriceByDigits(r.answer, decimals)

Larger(p, q) == IF p > q THEN p ELSE q
Smaller(p, q) == IF p < q THEN p ELSE q

\* Unchecked 0.6 arithmetic: the product wraps at Word.
priceChangeAboveMax(current, prev) ==
    LET p == PriceOf(current)
        q == PriceOf(prev)
        threshold ==
          ((Larger(p, q) * MAX_PRICE_DEVIATION_PERCENTAGE_FROM_PREVIOUS_ROUND) % Word) \div 1000
    IN  Larger(p, q) - Smaller(p, q) > threshold

bothOraclesSimilarPrice(m, b) ==
    LET p == PriceOf(m)
        q == PriceOf(b)
        percentPriceDifference ==
          (((Larger(p, q) - Smaller(p, q)) * DECIMAL_PRECISION) % Word) \div Smaller(p, q)
    IN  percentPriceDifference <= MAX_PRICE_DIFFERENCE_BETWEEN_ORACLES

\* Mutated form: a frozen backup is good enough.
bothOraclesLiveAndUnbrokenAndSimilarPrice_FrozenBackup(m, pm, b) ==
    /\ ~backupOracleIsBroken(b)
    /\ ~mainOracleIsBroken(m, pm) /\ ~isFrozen(m)
    /\ bothOraclesSimilarPrice(m, b)

bothOraclesLiveAndUnbrokenAndSimilarPrice(m, pm, b) ==
    /\ ~backupOracleIsBroken(b) /\ ~isFrozen(b)
    /\ ~mainOracleIsBroken(m, pm) /\ ~isFrozen(m)
    /\ bothOraclesSimilarPrice(m, b)

(***************************************************************************)
(* The two ways fetchPrice ends: with the stored price or with a new one.  *)
(***************************************************************************)
ReturnLastGoodPrice(s) == status' = s /\ UNCHANGED lastGoodPrice

StoreGoodPrice(s, r) == status' = s /\ lastGoodPrice' = PriceOf(r)

--------------------------------------------------------------------------------
(***************************************************************************)
(* fetchPrice, one action per case of its status.  m, pm, b and pb are the *)
(* current and previous response of the main and of the backup oracle.     *)
(***************************************************************************)

\* CASE 1: the last price came from the main oracle.
FetchMainWorking(m, pm, b, pb) ==
    /\ status = "mainOracleWorking"
    /\ \/ /\ mainOracleIsBroken(m, pm)
          /\ \/ /\ backupOracleIsBroken(b)
                /\ ReturnLastGoodPrice("bothOraclesUntrusted")
             \/ /\ ~backupOracleIsBroken(b) /\ isFrozen(b)
                /\ ReturnLastGoodPrice("usingBackupMainUntrusted")
             \/ /\ ~backupOracleIsBroken(b) /\ ~isFrozen(b)
                /\ StoreGoodPrice("usingBackupMainUntrusted", b)
       \/ /\ ~mainOracleIsBroken(m, pm) /\ isFrozen(m)
          /\ \/ /\ backupOracleIsBroken(b)
                /\ ReturnLastGoodPrice("usingMainBackupUntrusted")
             \/ /\ ~backupOracleIsBroken(b) /\ isFrozen(b)
                /\ ReturnLastGoodPrice("usingBackupMainFrozen")
             \/ /\ ~backupOracleIsBroken(b) /\ ~isFrozen(b)
                /\ StoreGoodPrice("usingBackupMainFrozen", b)
       \/ /\ ~mainOracleIsBroken(m, pm) /\ ~isFrozen(m)
          /\ priceChangeAboveMax(m, pm)
          /\ \/ /\ backupOracleIsBroken(b) \/ priceChangeAboveMax(b, pb)
                /\ ReturnLastGoodPrice("bothOraclesUntrusted")
             \/ /\ ~(backupOracleIsBroken(b) \/ priceChangeAboveMax(b, pb))
                /\ isFrozen(b)
                /\ ReturnLastGoodPrice("usingBackupMainUntrusted")
             \/ /\ ~(backupOracleIsBroken(b) \/ priceChangeAboveMax(b, pb))
                /\ ~isFrozen(b)
                /\ StoreGoodPrice("usingBackupMainUntrusted", b)
       \/ /\ ~mainOracleIsBroken(m, pm) /\ ~isFrozen(m)
          /\ ~priceChangeAboveMax(m, pm)
          /\ \/ /\ backupOracleIsBroken(b)
                /\ StoreGoodPrice("usingMainBackupUntrusted", m)
             \/ /\ ~backupOracleIsBroken(b)
                /\ StoreGoodPrice("mainOracleWorking", m)

\* CASE 2: the last price came from the backup, the main oracle is untrusted.
FetchBackupMainUntrusted(m, pm, b, pb) ==
    /\ status = "usingBackupMainUntrusted"
    /\ \/ /\ bothOraclesLiveAndUnbrokenAndSimilarPrice(m, pm, b)
          /\ StoreGoodPrice("mainOracleWorking", m)
       \/ /\ ~bothOraclesLiveAndUnbrokenAndSimilarPrice(m, pm, b)
          /\ \/ /\ backupOracleIsBroken(b)
                /\ ReturnLastGoodPrice("bothOraclesUntrusted")
             \/ /\ ~backupOracleIsBroken(b) /\ isFrozen(b)
                /\ ReturnLastGoodPrice(status)
             \/ /\ ~backupOracleIsBroken(b) /\ ~isFrozen(b)
                /\ priceChangeAboveMax(b, pb)
                /\ ReturnLastGoodPrice("bothOraclesUntrusted")
             \/ /\ ~backupOracleIsBroken(b) /\ ~isFrozen(b)
                /\ ~priceChangeAboveMax(b, pb)
                /\ StoreGoodPrice(status, b)

\* CASE 3: both oracles were untrusted.
FetchBothUntrusted(m, pm, b) ==
    /\ status = "bothOraclesUntrusted"
    /\ \/ /\ bothOraclesLiveAndUnbrokenAndSimilarPrice(m, pm, b)
          /\ StoreGoodPrice("mainOracleWorking", m)
       \/ /\ ~bothOraclesLiveAndUnbrokenAndSimilarPrice(m, pm, b)
          /\ ReturnLastGoodPrice(status)

\* CASE 4: the backup is in use because the main oracle froze.
FetchBackupMainFrozen(m, pm, b) ==
    /\ status = "usingBackupMainFrozen"
    /\ \/ /\ mainOracleIsBroken(m, pm)
          /\ \/ /\ backupOracleIsBroken(b)
                /\ ReturnLastGoodPrice("bothOraclesUntrusted")
             \/ /\ ~backupOracleIsBroken(b) /\ isFrozen(b)
                /\ ReturnLastGoodPrice("usingBackupMainUntrusted")
             \/ /\ ~backupOracleIsBroken(b) /\ ~isFrozen(b)
                /\ StoreGoodPrice("usingBackupMainUntrusted", b)
       \/ /\ ~mainOracleIsBroken(m, pm) /\ isFrozen(m)
          /\ \/ /\ backupOracleIsBroken(b)
                /\ ReturnLastGoodPrice("usingMainBackupUntrusted")
             \/ /\ ~backupOracleIsBroken(b) /\ isFrozen(b)
                /\ ReturnLastGoodPrice(status)
             \/ /\ ~backupOracleIsBroken(b) /\ ~isFrozen(b)
                /\ StoreGoodPrice(status, b)
       \/ /\ ~mainOracleIsBroken(m, pm) /\ ~isFrozen(m)
          /\ \/ /\ backupOracleIsBroken(b)
                /\ StoreGoodPrice("usingMainBackupUntrusted", m)
             \/ /\ ~backupOracleIsBroken(b) /\ isFrozen(b)
                /\ ReturnLastGoodPrice(status)
             \/ /\ ~backupOracleIsBroken(b) /\ ~isFrozen(b)
                /\ bothOraclesSimilarPrice(m, b)
                /\ StoreGoodPrice("mainOracleWorking", m)
             \/ /\ ~backupOracleIsBroken(b) /\ ~isFrozen(b)
                /\ ~bothOraclesSimilarPrice(m, b)
                /\ StoreGoodPrice("usingBackupMainUntrusted", b)

\* Mutated form: case 5 never trusts the backup again.
FetchMainBackupUntrusted_NoReturn(m, pm, b) ==
    /\ status = "usingMainBackupUntrusted"
    /\ \/ /\ mainOracleIsBroken(m, pm)
          /\ ReturnLastGoodPrice("bothOraclesUntrusted")
       \/ /\ ~mainOracleIsBroken(m, pm) /\ isFrozen(m)
          /\ ReturnLastGoodPrice(status)
       \/ /\ ~mainOracleIsBroken(m, pm) /\ ~isFrozen(m)
          /\ StoreGoodPrice(status, m)

\* CASE 5: the main oracle is in use, the backup is untrusted.
FetchMainBackupUntrusted(m, pm, b) ==
    /\ status = "usingMainBackupUntrusted"
    /\ \/ /\ mainOracleIsBroken(m, pm)
          /\ ReturnLastGoodPrice("bothOraclesUntrusted")
       \/ /\ ~mainOracleIsBroken(m, pm) /\ isFrozen(m)
          /\ ReturnLastGoodPrice(status)
       \/ /\ ~mainOracleIsBroken(m, pm) /\ ~isFrozen(m)
          /\ bothOraclesLiveAndUnbrokenAndSimilarPrice(m, pm, b)
          /\ StoreGoodPrice("mainOracleWorking", m)
       \/ /\ ~mainOracleIsBroken(m, pm) /\ ~isFrozen(m)
          /\ ~bothOraclesLiveAndUnbrokenAndSimilarPrice(m, pm, b)
          /\ \/ /\ priceChangeAboveMax(m, pm)
                /\ ReturnLastGoodPrice("bothOraclesUntrusted")
             \/ /\ ~priceChangeAboveMax(m, pm)
                /\ StoreGoodPrice(status, m)

\* One call of fetchPrice in which the reads of the set reverts revert.
fetchPrice(reverts) ==
    LET m  == CurrentResponse(mainRounds, "mainLatest" \in reverts)
        pm == PrevResponse(mainRounds, m, "mainPrev" \in reverts)
        b  == CurrentResponse(backupRounds, "backupLatest" \in reverts)
        pb == PrevResponse(backupRounds, b, "backupPrev" \in reverts)
    IN  /\ ~owned
        /\ \/ FetchMainWorking(m, pm, b, pb)
           \/ FetchBackupMainUntrusted(m, pm, b, pb)
           \/ FetchBothUntrusted(m, pm, b)
           \/ FetchBackupMainFrozen(m, pm, b)
           \/ FetchMainBackupUntrusted(m, pm, b)
        /\ UNCHANGED <<mainRounds, backupRounds, blockNumber, owned>>

--------------------------------------------------------------------------------
(***************************************************************************)
(* The other steps of the system.                                          *)
(***************************************************************************)

\* The owner connects the oracles; reverts unless the main one is good.
setAddresses ==
    LET m  == CurrentResponse(mainRounds, FALSE)
        pm == PrevResponse(mainRounds, m, FALSE)
    IN  /\ owned
        /\ ~mainOracleIsBroken(m, pm) /\ ~isFrozen(m)
        /\ StoreGoodPrice("mainOracleWorking", m)
        /\ owned' = FALSE
        /\ UNCHANGED <<mainRounds, backupRounds, blockNumber>>

\* The keepers take every value from the next L1 block.
FeedMain(answer) ==
    LET l1 == latestRoundData(mainRounds).blockNumber + 1
    IN  /\ Len(mainRounds) < MaxMainRounds
        /\ FeedAccepted(mainRounds, l1)
        /\ mainRounds' = feedBaseFeeValue(mainRounds, answer, l1, blockNumber)
        /\ UNCHANGED <<backupRounds, blockNumber, owned, status, lastGoodPrice>>

FeedBackup(answer) ==
    LET l1 == latestRoundData(backupRounds).blockNumber + 1
    IN  /\ Len(backupRounds) < MaxBackupRounds
        /\ FeedAccepted(backupRounds, l1)
        /\ backupRounds' = feedBaseFeeValue(backupRounds, answer, l1, blockNumber)
        /\ UNCHANGED <<mainRounds, blockNumber, owned, status, lastGoodPrice>>

NextBlock ==
    /\ blockNumber < MaxBlock
    /\ blockNumber' = blockNumber + 1
    /\ UNCHANGED <<mainRounds, backupRounds, owned, status, lastGoodPrice>>

\* Before setAddresses the storage is zero: status is the first enum value.
PriceFeedInit ==
    /\ mainRounds = <<>>
    /\ backupRounds = <<>>
    /\ blockNumber = 1
    /\ owned = TRUE
    /\ status = "mainOracleWorking"
    /\ lastGoodPrice = 0

PriceFeedNext ==
    \/ setAddresses
    \/ \E reverts \in SUBSET Reads : fetchPrice(reverts)
    \/ \E answer \in Answers : FeedMain(answer) \/ FeedBackup(answer)
    \/ NextBlock

PriceFeedSpec == PriceFeedInit /\ [][PriceFeedNext]_feedVars

\* Every operation of the protocol calls fetchPrice and anybody may, so calls in
\* which no read reverts keep coming.
FairPriceFeedSpec == PriceFeedSpec /\ WF_feedVars(fetchPrice({}))
--------------------------------------------------------------------------------
(***************************************************************************)
(* Properties.                                                             *)
(***************************************************************************)

\* Type correctness of the stored state.  The round number inside a struct is
\* the key it is stored under, the block it was written in has been mined, and
\* later rounds are not written in earlier blocks (feedBaseFeeValue).
PriceFeedTypeOK ==
    /\ \A rounds \in {mainRounds, backupRounds} :
          /\ rounds \in Seq(Response)
          /\ \A i \in DOMAIN rounds :
                /\ rounds[i].roundId = i
                /\ rounds[i].answer \in Answers
                /\ rounds[i].currentChainBN \in 1..blockNumber
                /\ i > 1 => rounds[i - 1].currentChainBN <= rounds[i].currentChainBN
    /\ blockNumber \in Nat \ {0}
    /\ owned \in BOOLEAN
    /\ status \in Status
    /\ lastGoodPrice \in Nat

\* Once the feed is connected the price it returns is positive and was reported
\* by one of the oracles in some round: no path of fetchPrice, with any of its
\* reads reverting, stores the zero struct or a non-positive answer.
PriceProvenance ==
    ~owned =>
      /\ lastGoodPrice > 0
      /\ \E rounds \in {mainRounds, backupRounds} : \E i \in DOMAIN rounds :
            rounds[i].answer > 0 /\ lastGoodPrice = PriceOf(rounds[i])

\* A price is stored only while it is fresh: it is the latest round of an
\* oracle and that round is at most TIMEOUT blocks old.  Each of the ten places
\* where fetchPrice and setAddresses store a price depends on earlier returns
\* for this.
Fresh(rounds, price) ==
    /\ Len(rounds) > 0
    /\ price = PriceOf(rounds[Len(rounds)])
    /\ rounds[Len(rounds)].answer > 0
    /\ rounds[Len(rounds)].currentChainBN <= blockNumber
    /\ blockNumber <= rounds[Len(rounds)].currentChainBN + TIMEOUT

StoredPriceFresh ==
    [][lastGoodPrice' # lastGoodPrice =>
         Fresh(mainRounds, lastGoodPrice') \/ Fresh(backupRounds, lastGoodPrice')]_feedVars

\* The main oracle is trusted again, from any other status, only when its
\* latest price is fresh and a fresh, positive price of the backup is within 5%
\* of it (cases 2 to 5 of fetchPrice).  5% is meant to the last digit of the
\* rounded quotient that bothOraclesSimilarPrice compares.
Agree(p, q) ==
    (Larger(p, q) - Smaller(p, q)) * DECIMAL_PRECISION
      < (MAX_PRICE_DIFFERENCE_BETWEEN_ORACLES + 1) * Smaller(p, q)

ReturnToMainNeedsAgreement ==
    [][status # "mainOracleWorking" /\ status' = "mainOracleWorking" =>
         /\ Fresh(mainRounds, lastGoodPrice')
         /\ LET q == PriceOf(latestRoundData(backupRounds))
            IN  Fresh(backupRounds, q) /\ Agree(lastGoodPrice', q)]_feedVars

\* The two oracles are live and agree on what they say now.
OraclesAgree ==
    /\ ~owned
    /\ bothOraclesLiveAndUnbrokenAndSimilarPrice(
          latestRoundData(mainRounds),
          getRoundData(mainRounds, Len(mainRounds) - 1),
          latestRoundData(backupRounds))

\* From whatever status, if the oracles stay live and in agreement the feed
\* comes back to the main oracle and to its current price again and again: no
\* status is a trap.  (It need not stay there: a main price that differs from its
\* own previous round by more than 17.6% sends case 1 away again.)
Recovery ==
    <>[]OraclesAgree =>
      []<>(status = "mainOracleWorking" /\ lastGoodPrice = PriceOf(latestRoundData(mainRounds)))

\* The comment on fetchPrice: "now both oracles are not allowed to have a price
\* diviation of more then 12.5% between consecutive block", read with the bound
\* the code uses: a stored price never comes from a round that deviates from the
\* round before it by more than the maximum.
NoDeviatingRoundStored ==
    [][~owned /\ lastGoodPrice' # lastGoodPrice =>
         \E rounds \in {mainRounds, backupRounds} :
            /\ Fresh(rounds, lastGoodPrice')
            /\ Len(rounds) > 1 =>
                 ~priceChangeAboveMax(rounds[Len(rounds)], rounds[Len(rounds) - 1])]_feedVars
================================================================================
