--------------------------------- MODULE MCLQTY ---------------------------------
(***************************************************************************)
(* Where LQTY comes from and what it earns, for TLC: the StabilityPool with *)
(* CommunityIssuance, LQTYStaking with the Unipool, and the two tokens.     *)
(* They share no state, so their interleavings are left out: part says      *)
(* which of them moves.                                                     *)
(***************************************************************************)
EXTENDS StabilityPool, LQTY, Tokens, TLC

CONSTANTS
    MaxPoolOperations, MaxStakingOperations, MaxTokenOperations   \* how many operations are made

VARIABLES
    part,
    operations            \* how many were made

MCInit ==
    /\ Init /\ LQTYInit /\ TokensInit /\ operations = 0
    /\ part \in {"pool", "staking"} \cup Names

MCNext ==
    /\ UNCHANGED part /\ operations' = operations + 1
    /\ \/ part = "pool" /\ operations < MaxPoolOperations /\ Next /\ UNCHANGED <<lqtyVars, tokensVars>>
       \/ part = "staking" /\ operations < MaxStakingOperations /\ LQTYNext /\ UNCHANGED <<vars, tokensVars>>
       \/ /\ part \in Names /\ operations < MaxTokenOperations /\ TokensNext /\ UNCHANGED <<vars, lqtyVars>>
          /\ \A name \in Names \ {part} : token'[name] = token[name] /\ \A p \in signed' : p.of # name

MCSpec == MCInit /\ [][MCNext]_<<vars, lqtyVars, tokensVars, part, operations>>

\* In the first year the multisig "can transfer LQTY (vesting) to lockup contracts"
\* (DuringLockupPeriodTest.js): a transfer to a registered one does not revert as
\* long as the multisig has the LQTY.
MultisigMayLockUp ==
    isFirstYear /\ isRegisteredLockup("LockupContract") =>
       \A amount \in Amounts : token["LQTY"].balances[multisig] >= amount =>
          ENABLED transfer("LQTY", multisig, "LockupContract", amount)

UsersSymmetry == {d @@ u : d \in Permutations(Depositors), u \in Permutations(Users)}
================================================================================
