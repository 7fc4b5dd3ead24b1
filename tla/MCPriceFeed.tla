------------------------------ MODULE MCPriceFeed ------------------------------
(***************************************************************************)
(* Instance of PriceFeed for TLC.  -1 is a bad answer, 100 and 104 agree   *)
(* within 5%, and 130 deviates by more than 17.6% from both.               *)
(***************************************************************************)
EXTENDS PriceFeed

MCAnswers == {-1, 100, 104, 130}

\* No bad answers: the divergence needs none.
MCGoodAnswers == {100, 130}
================================================================================
