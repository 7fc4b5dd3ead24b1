---------------------------- MODULE MCPriceAndOrder -----------------------------
(***************************************************************************)
(* The two contracts TroveManager asks, for TLC: PriceFeed for the price,  *)
(* with the answers of MCPriceFeed, and SortedTroves for the order of the  *)
(* troves, with the hints of the client.  They share no state, so their    *)
(* interleavings are left out: part says which of them moves.              *)
(***************************************************************************)
EXTENDS MCPriceFeed, Hints

VARIABLE part

MCInit == PriceFeedInit /\ Init /\ part \in {"priceFeed", "sortedTroves"}

\* 104 is the backup's: the main oracle reports 100 when the two are to agree.
MCNext ==
    /\ UNCHANGED part
    /\ \/ /\ part = "priceFeed" /\ PriceFeedNext /\ UNCHANGED vars
          /\ \A i \in DOMAIN mainRounds' : mainRounds'[i].answer # 104
       \/ part = "sortedTroves" /\ Next /\ UNCHANGED feedVars

\* The part that stands still owes no step: nothing is searched for, and before
\* setAddresses there is no price to fetch.
MCSpec ==
    /\ MCInit /\ [][MCNext]_<<part, feedVars, vars>>
    /\ WF_feedVars(fetchPrice({}))
    /\ WF_vars(ReInsertFind \/ DescendStep \/ AscendStep \/ Link)
================================================================================
