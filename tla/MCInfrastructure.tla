---------------------------- MODULE MCInfrastructure ----------------------------
(***************************************************************************)
(* What surrounds the protocol, for TLC: the providers, the deployment     *)
(* scripts and the simulation of the LUSD market.  They share no state, so *)
(* their interleavings are left out: part says which of them moves.        *)
(***************************************************************************)
EXTENDS WebSocketAugmented, BatchedProvider, Deployment, MacroModel

MCDeployParams == {[useRealPriceFeed |-> real, createUniswapPair |-> real] : real \in BOOLEAN}

VARIABLE part

\* Where the WebSocket does not move, no step of its fairness can be taken.
MCInit ==
    /\ WebSocketInit /\ BatchedInit /\ DeploymentInit /\ TaskInit /\ MacroInit
    /\ part \in {"webSocket", "batched", "deployment", "deployTask", "macroModel"}
    /\ part # "webSocket" => net.head = MaxHeight
    /\ part # "macroModel" =>
          policy /\ simulated = [i \in 1..initial_open |-> CHOOSE t \in drawnTroves(7) : TRUE] /\ price_ether = 7
    /\ part # "deployTask" => task = noTask("mainnet", TRUE)
    /\ part # "batched" => variant = "BatchedProvider" /\ ~_multicall

\* A session waits for a transaction or listens for its receipt.
MCNext ==
    /\ UNCHANGED part
    /\ \/ /\ part = "webSocket" /\ WebSocketNext /\ UNCHANGED <<batchVars, deploymentVars, taskVars, macroVars>>
          /\ wait'.step = "none" \/ receipts'.registered = 0
       \/ part = "batched" /\ BatchedNext /\ UNCHANGED <<wsVars, deploymentVars, taskVars, macroVars>>
       \/ part = "deployment" /\ DeploymentNext /\ UNCHANGED <<wsVars, batchVars, taskVars, macroVars>>
       \/ part = "deployTask" /\ TaskNext /\ UNCHANGED <<wsVars, batchVars, deploymentVars, macroVars>>
       \/ part = "macroModel" /\ MacroNext /\ UNCHANGED <<wsVars, batchVars, deploymentVars, taskVars>>

MCSpec == MCInit /\ [][MCNext]_<<part, wsVars, batchVars, deploymentVars, taskVars, macroVars>> /\ WebSocketFairness
================================================================================
