------------------------------- MODULE Deployment -------------------------------
(***************************************************************************)
(* The deployment scripts of packages/contracts.  The operator runs         *)
(* hardhat deploy, with or without a tag, as often as it takes: a run may   *)
(* be cut off between any two steps, a call may be rejected and a read of   *)
(* the chain may fail.  A contract that was deployed when its run was cut   *)
(* off is not on record and is deployed again, so that several instances of *)
(* a contract can be on the chain and the others must know the right one.   *)
(*                                                                         *)
(* midl is external: deploy does nothing for a contract on record,          *)
(* callContract queues a call and fails when an argument is undefined,      *)
(* execute sends what is queued, in order, fails at the first call that is  *)
(* rejected, and then records what was deployed.                            *)
(***************************************************************************)
EXTENDS Sequences, Integers, FiniteSets, SequencesExt

CONSTANT MaxRuns   \* bound on the runs of hardhat deploy

VARIABLES
    records,   \* per contract the instance on record, 0 when there is none
    deployed,  \* per contract the number of instances on the chain
    knows,     \* per contract and instance the instances it was given
    fed,       \* per instance of BTCOracle the blocks fed to it, last first
    run        \* [number, tag, todo: scripts, step, queue] of hardhat deploy

deploymentVars == <<records, deployed, knows, fed, run>>

\* A script deploys a contract, feeds the oracle or sets contracts up.
deploying(contract, args) == [does |-> "deploy", contract |-> contract, args |-> args]
settingUp(contracts) == [does |-> "setUp", contracts |-> contracts]

deploy_BTCOracle == deploying("BTCOracle", {})
deploy_PriceFeed == deploying("PriceFeed", {})
deploy_SortedTroves == deploying("SortedTroves", {})
deploy_TroveManager == deploying("TroveManager", {})
deploy_ActivePool == deploying("ActivePool", {})
deploy_StabilityPool == deploying("StabilityPool", {})
deploy_GasPool == deploying("GasPool", {})
deploy_DefaultPool == deploying("DefaultPool", {})
deploy_CollSurplusPool == deploying("CollSurplusPool", {})
deploy_BorrowerOperations == deploying("BorrowerOperations", {})
deploy_HintHelpers == deploying("HintHelpers", {})
deploy_LUSD_token == deploying("LUSDToken", {"TroveManager", "StabilityPool", "BorrowerOperations"})
deploy_CommunityIssuance == deploying("CommunityIssuance", {})
deploy_MultiTroveGetter == deploying("MultiTroveGetter", {"TroveManager", "SortedTroves"})
deploy_LQTYStaking == deploying("LQTYStaking", {})
deploy_LQTYToken == deploying("LQTYToken", {"CommunityIssuance", "LQTYStaking"})
deploy_Unipool == deploying("Unipool", {})
set_Oracle == [does |-> "feed", blocks |-> <<7, 8, 9>>]
openPosition == settingUp(<<>>)
set_LQTYContracts == settingUp(<<"CommunityIssuance">>)
set_Unipool == settingUp(<<"Unipool">>)
set_CoreContracts ==
    settingUp(<<"SortedTroves", "TroveManager", "PriceFeed", "BorrowerOperations", "StabilityPool",
                "ActivePool", "DefaultPool", "CollSurplusPool", "HintHelpers", "LQTYStaking">>)

\* The contracts whose addresses a contract is set up with.
setParams_SortedTroves == {"TroveManager", "BorrowerOperations"}
setAddresses_TroveManager ==
    {"BorrowerOperations", "ActivePool", "DefaultPool", "StabilityPool", "GasPool",
     "CollSurplusPool", "PriceFeed", "LUSDToken", "SortedTroves", "LQTYToken", "LQTYStaking"}
setAddresses_PriceFeed == {"BTCOracle"}
setAddresses_BorrowerOperations ==
    {"TroveManager", "ActivePool", "DefaultPool", "StabilityPool", "GasPool",
     "CollSurplusPool", "PriceFeed", "SortedTroves", "LUSDToken", "LQTYStaking"}
setAddresses_StabilityPool ==
    {"BorrowerOperations", "TroveManager", "ActivePool", "LUSDToken", "SortedTroves", "PriceFeed", "CommunityIssuance"}
setAddresses_ActivePool == {"BorrowerOperations", "TroveManager", "StabilityPool", "DefaultPool"}
setAddresses_DefaultPool == {"TroveManager", "ActivePool"}
setAddresses_CollSurplusPool == {"BorrowerOperations", "TroveManager", "ActivePool"}
setAddresses_HintHelpers == {"SortedTroves", "TroveManager"}
setAddresses_LQTYStaking == {"LQTYToken", "LUSDToken", "TroveManager", "BorrowerOperations", "ActivePool"}
setAddresses_CommunityIssuance == {"LQTYToken", "StabilityPool"}
setParams_Unipool == {"LQTYToken"}
setUpWith ==
    [SortedTroves |-> setParams_SortedTroves, TroveManager |-> setAddresses_TroveManager,
     PriceFeed |-> setAddresses_PriceFeed, BorrowerOperations |-> setAddresses_BorrowerOperations,
     StabilityPool |-> setAddresses_StabilityPool, ActivePool |-> setAddresses_ActivePool,
     DefaultPool |-> setAddresses_DefaultPool, CollSurplusPool |-> setAddresses_CollSurplusPool,
     HintHelpers |-> setAddresses_HintHelpers, LQTYStaking |-> setAddresses_LQTYStaking,
     CommunityIssuance |-> setAddresses_CommunityIssuance, Unipool |-> setParams_Unipool]

\* Every script, in the order of the file names.
main == <<deploy_BTCOracle, deploy_PriceFeed, deploy_SortedTroves, deploy_TroveManager, deploy_ActivePool,
          deploy_StabilityPool, deploy_GasPool, deploy_DefaultPool, deploy_CollSurplusPool,
          deploy_BorrowerOperations, deploy_HintHelpers, deploy_LUSD_token, deploy_CommunityIssuance,
          deploy_MultiTroveGetter, deploy_LQTYStaking, deploy_LQTYToken, set_Oracle, set_CoreContracts,
          set_LQTYContracts, openPosition, deploy_Unipool, set_Unipool>>

\* A script's dependencies run before it; two of the tags they name,
\* HOGToken and HOGStaking, belong to no script, and neither does FeesRouter.
setCoreContracts == <<deploy_PriceFeed, deploy_SortedTroves, deploy_TroveManager, deploy_ActivePool,
                      deploy_DefaultPool, deploy_GasPool, deploy_StabilityPool, deploy_CollSurplusPool,
                      deploy_LUSD_token, deploy_BorrowerOperations, deploy_CommunityIssuance,
                      deploy_HintHelpers, deploy_LQTYStaking, set_CoreContracts>>
updateLQTYTokenContracts == <<deploy_StabilityPool, deploy_LQTYToken, deploy_CommunityIssuance,
                              set_LQTYContracts, set_Unipool>>
setOracle == <<set_Oracle, openPosition>>

Tagged == [main |-> main, setCoreContracts |-> setCoreContracts,
           updateLQTYTokenContracts |-> updateLQTYTokenContracts, setOracle |-> setOracle]

Contracts == {s.contract : s \in {t \in ToSet(main) : t.does = "deploy"}}
Constructed == [c \in Contracts |-> (CHOOSE s \in ToSet(main) : s.does = "deploy" /\ s.contract = c).args]

idle == [number |-> 0, tag |-> "none", todo |-> <<>>, step |-> "idle", queue |-> <<>>]

DeploymentInit ==
    /\ records = [c \in Contracts |-> 0] /\ deployed = [c \in Contracts |-> 0]
    /\ knows = [c \in Contracts |-> <<>>] /\ fed = <<>> /\ run = idle

\* The addresses on record, and whether a set of them is complete.
addresses(args) == [c \in args |-> records[c]]
recorded(args) == \A c \in args : records[c] # 0

\* A read that fails taken for no owner.
isOwnershipRenounced_OnError(contract, failed) ==
    failed \/ (records[contract] # 0 /\ DOMAIN knows[contract][records[contract]] # {})

\* owner() is read; an error, also that there is no contract, counts as an owner.
isOwnershipRenounced(contract, failed) ==
    /\ records[contract] # 0 /\ ~failed
    /\ DOMAIN knows[contract][records[contract]] # {}

stopped == [run EXCEPT !.step = "idle", !.todo = <<>>, !.queue = <<>>]

startRun(tag) ==
    /\ run.step = "idle" /\ run.number < MaxRuns
    /\ run' = [number |-> run.number + 1, tag |-> tag, todo |-> Tagged[tag], step |-> "script", queue |-> <<>>]
    /\ UNCHANGED <<records, deployed, knows, fed>>

\* What is sent: the contract, and its arguments as they are on record now.
deployCall(script) == [does |-> "deploy", contract |-> script.contract, args |-> addresses(script.args)]
setUpCall(contract) == [does |-> "setUp", contract |-> contract, args |-> addresses(setUpWith[contract])]

\* midl.deploy; a contract on record is not deployed again.
deployScript(script) ==
    /\ script.does = "deploy"
    /\ run' = IF records[script.contract] # 0 THEN [run EXCEPT !.step = "execute"]
              ELSE IF recorded(script.args)
                   THEN [run EXCEPT !.step = "execute", !.queue = <<deployCall(script)>>]
                   ELSE stopped

\* feedBaseFeeValue, for one block after another (grantRole follows).
feedScript(script) ==
    /\ script.does = "feed"
    /\ run' = IF recorded({"BTCOracle"})
              THEN [run EXCEPT !.step = "execute",
                               !.queue = [i \in DOMAIN script.blocks |-> [does |-> "feed", block |-> script.blocks[i]]]]
              ELSE stopped

\* The contracts that are not set up are, one after the other, each with the
\* addresses on record.
setUpCalls(contracts, failed) ==
    LET calls[i \in 0..Len(contracts)] ==
            IF i = 0 THEN <<>>
            ELSE IF isOwnershipRenounced(contracts[i], contracts[i] \in failed) THEN calls[i - 1]
            ELSE Append(calls[i - 1], setUpCall(contracts[i]))
    IN  calls[Len(contracts)]

setUpScript(script, failed) ==
    /\ script.does = "setUp"
    /\ run' = IF \A c \in ToSet(script.contracts) :
                    isOwnershipRenounced(c, c \in failed) \/ recorded({c} \cup setUpWith[c])
              THEN [run EXCEPT !.step = "execute", !.queue = setUpCalls(script.contracts, failed)]
              ELSE stopped

\* A script up to its execute.
runScript ==
    /\ run.step = "script" /\ run.todo # <<>>
    /\ LET script == Head(run.todo) IN
       \/ deployScript(script)
       \/ feedScript(script)
       \/ script.does = "setUp"
          /\ \E failed \in SUBSET ToSet(script.contracts) : setUpScript(script, failed)
    /\ UNCHANGED <<records, deployed, knows, fed>>

oracleWorking(oracle) == Len(fed[oracle]) >= 2

\* A contract accepts to be set up once, and PriceFeed not with an oracle that
\* has no two rounds or whose last one is old.
callAccepted(call, fresh) ==
    CASE call.does = "deploy" -> TRUE
      [] call.does = "feed" -> \A block \in ToSet(fed[records["BTCOracle"]]) : block < call.block
      [] call.does = "setUp" ->
            /\ DOMAIN knows[call.contract][records[call.contract]] = {}
            /\ call.contract = "PriceFeed" => fresh /\ oracleWorking(call.args["BTCOracle"])

applied(call) ==
    \/ /\ call.does = "deploy"
       /\ deployed' = [deployed EXCEPT ![call.contract] = @ + 1]
       /\ knows' = [knows EXCEPT ![call.contract] = Append(@, call.args)]
       /\ fed' = IF call.contract = "BTCOracle" THEN Append(fed, <<>>) ELSE fed
    \/ /\ call.does = "feed"
       /\ fed' = [fed EXCEPT ![records["BTCOracle"]] = Append(@, call.block)]
       /\ UNCHANGED <<deployed, knows>>
    \/ /\ call.does = "setUp"
       /\ knows' = [knows EXCEPT ![call.contract][records[call.contract]] = call.args]
       /\ UNCHANGED <<deployed, fed>>

\* execute sends the next call, or fails with it; `fresh`: the oracle's last
\* round is recent.
sendCall ==
    /\ run.step = "execute" /\ run.queue # <<>>
    /\ \E fresh \in BOOLEAN :
          IF callAccepted(Head(run.queue), fresh)
          THEN applied(Head(run.queue)) /\ run' = [run EXCEPT !.queue = Tail(@)]
          ELSE run' = stopped /\ UNCHANGED <<deployed, knows, fed>>
    /\ UNCHANGED records

\* execute returns: what was deployed is on record, the next script is due.
endScript ==
    /\ run.step = "execute" /\ run.queue = <<>>
    /\ LET script == Head(run.todo) IN
       records' = IF script.does = "deploy" /\ records[script.contract] = 0
                  THEN [records EXCEPT ![script.contract] = deployed[script.contract]] ELSE records
    /\ run' = [run EXCEPT !.step = "script", !.todo = Tail(@)]
    /\ UNCHANGED <<deployed, knows, fed>>

endRun ==
    /\ run.step = "script" /\ run.todo = <<>>
    /\ run' = [run EXCEPT !.step = "idle"]
    /\ UNCHANGED <<records, deployed, knows, fed>>

\* The process is cut off, by the operator or by a network error.
cutOff ==
    /\ run.step \in {"script", "execute"}
    /\ run' = stopped
    /\ UNCHANGED <<records, deployed, knows, fed>>

DeploymentNext ==
    \/ \E tag \in DOMAIN Tagged : startRun(tag)
    \/ runScript \/ sendCall \/ endScript \/ endRun \/ cutOff

DeploymentSpec == DeploymentInit /\ [][DeploymentNext]_deploymentVars

--------------------------------------------------------------------------------
(***************************************************************************)
(* The task deploy of packages/lib-ethers.  It deploys all of the contracts *)
(* anew, each when the one before is mined, sends the calls that connect    *)
(* them all at once, with consecutive nonces, waits for all of them, and    *)
(* writes the addresses to a file that clients connect by.  It may be cut   *)
(* off anywhere, a transaction may be refused, the answer to one that was   *)
(* accepted may be lost, and what a run sent is mined in the order of the   *)
(* nonces, also when the run is over and the next one has begun.            *)
(***************************************************************************)
CONSTANTS
    Networks,    \* networks the task is run on
    DeployParams,  \* its options: [useRealPriceFeed, createUniswapPair]
    MaxTasks,    \* bounds on the runs of the task and
    MaxReverts   \* on its transactions that revert

ASSUME DeployParamsAssumption == DeployParams \subseteq [useRealPriceFeed : BOOLEAN, createUniswapPair : BOOLEAN]

VARIABLES
    task,     \* [network, useLiveVersion, number, params: of this run, todo, sent: nonces that are awaited]
    account,  \* the deployer's: [nonce: the next to be mined, pending: transactions]
    mined,    \* what was done on the chain: [run, does, contract]
    file      \* [run, rewardRate, _priceFeedIsTestnet, _uniTokenIsMock], or noFile

taskVars == <<task, account, mined, file>>

hasOracles(network) == network \in {"mainnet", "rinkeby", "kovan", "goerli", "sepolia"}
hasWETH(network) == network \in {"mainnet", "ropsten", "rinkeby", "goerli", "kovan", "sepolia"}
hasFactory(network) == network \in {"mainnet", "ropsten", "rinkeby", "goerli", "kovan"}

\* The contracts that are deployed, in this order, and those that are connected.
deployContracts(priceFeedIsTestnet) ==
    <<"ActivePool", "BorrowerOperations", "TroveManager", "CollSurplusPool", "CommunityIssuance", "DefaultPool",
      "HintHelpers", "LockupContractFactory", "LQTYStaking", IF priceFeedIsTestnet THEN "PriceFeedTestnet" ELSE "PriceFeed",
      "SortedTroves", "StabilityPool", "GasPool", "Unipool", "LUSDToken", "LQTYToken", "MultiTroveGetter">>
connections ==
    <<"SortedTroves", "TroveManager", "BorrowerOperations", "StabilityPool", "ActivePool", "DefaultPool",
      "CollSurplusPool", "HintHelpers", "LQTYStaking", "LockupContractFactory", "CommunityIssuance", "Unipool">>

sending(does, contracts) == [i \in DOMAIN contracts |-> [does |-> does, contract |-> contracts[i]]]
doing(what) == <<[does |-> what, contract |-> "none"]>>

\* The Uniswap pair of WETH and LUSD, or a mock of it.
createUniswapV2Pair == sending("deploy", <<"pair">>)
deployMockUniToken == sending("deploy", <<"ERC20Mock">>)
deployTellorCaller == sending("deploy", <<"TellorCaller">>)
hookUpPriceFeed == sending("hook", <<"PriceFeed">>)

deployAndSetupContracts(priceFeedIsTestnet, createPair) ==
    sending("deploy", deployContracts(priceFeedIsTestnet)) \o (IF createPair THEN createUniswapV2Pair ELSE deployMockUniToken)
    \o doing("connect") \o doing("read")
deployTask(params) ==
    deployAndSetupContracts(~params.useRealPriceFeed, params.createUniswapPair)
    \o (IF params.useRealPriceFeed THEN deployTellorCaller \o hookUpPriceFeed ELSE <<>>) \o doing("write")

noFile == [run |-> 0, rewardRate |-> FALSE, _priceFeedIsTestnet |-> TRUE, _uniTokenIsMock |-> TRUE]
noTask(network, live) ==
    [network |-> network, useLiveVersion |-> live, number |-> 0,
     params |-> [useRealPriceFeed |-> FALSE, createUniswapPair |-> FALSE], rewardRate |-> FALSE, todo |-> <<>>, sent |-> {}]

TaskInit ==
    /\ \E network \in Networks, live \in BOOLEAN : task = noTask(network, live)
    /\ account = [nonce |-> 0, pending |-> {}] /\ mined = {} /\ file = noFile

aborted == [noTask(task.network, task.useLiveVersion) EXCEPT !.number = task.number]

startTask(params) ==
    /\ task.todo = <<>> /\ task.number < MaxTasks
    /\ params.useRealPriceFeed => hasOracles(task.network)
    /\ params.createUniswapPair => hasWETH(task.network)
    /\ task' = [task EXCEPT !.number = @ + 1, !.params = params, !.rewardRate = FALSE, !.todo = deployTask(params)]
    /\ UNCHANGED <<account, mined, file>>

due == Head(task.todo)
waiting == task.todo # <<>> /\ task.sent # {}
ready(what) == task.todo # <<>> /\ task.sent = {} /\ due.does \in what

transactionAt(nonce, does, contract) == [nonce |-> nonce, run |-> task.number, does |-> does, contract |-> contract]
usedNonces == {tx.nonce : tx \in account.pending}
\* What the node answers for the pending block: the first nonce that is free.
pendingNonce ==
    CHOOSE n \in account.nonce..(account.nonce + Cardinality(usedNonces)) :
        n \notin usedNonces /\ \A k \in account.nonce..(n - 1) : k \in usedNonces

\* The artifacts of this repository: LQTYToken's constructor takes one argument less.
deployable(contract) ==
    /\ contract = "LQTYToken" => task.useLiveVersion
    /\ contract = "pair" => hasFactory(task.network)

\* One transaction; it is accepted or refused, or accepted and the answer is lost.
sendNext ==
    /\ ready({"deploy", "hook"})
    /\ LET tx == transactionAt(pendingNonce, due.does, due.contract) IN
       \/ /\ deployable(due.contract)
          /\ account' = [account EXCEPT !.pending = @ \cup {tx}]
          /\ task' \in {[task EXCEPT !.sent = {tx.nonce}], aborted}
       \/ task' = aborted /\ UNCHANGED account
    /\ UNCHANGED <<mined, file>>

\* connectContracts: the nonces count from the transactions that are mined.  A
\* nonce in use is refused; `refused` and `unanswered` fail as above.
connectContracts(refused, unanswered) ==
    /\ ready({"connect"})
    /\ LET txs == {transactionAt(account.nonce + i - 1, "connect", connections[i]) : i \in DOMAIN connections}
           taken == {tx \in txs : tx.nonce \notin usedNonces /\ tx.contract \notin refused} IN
       /\ account' = [account EXCEPT !.pending = @ \cup taken]
       /\ task' = IF taken = txs /\ unanswered = {} THEN [task EXCEPT !.sent = {tx.nonce : tx \in txs}] ELSE aborted
    /\ UNCHANGED <<mined, file>>

\* The chain: the next transaction is mined, and may revert.
mine ==
    /\ \E tx \in account.pending, succeeds \in BOOLEAN :
          /\ tx.nonce = account.nonce
          /\ ~succeeds => account.nonce - Cardinality(mined) < MaxReverts
          /\ account' = [nonce |-> account.nonce + 1, pending |-> account.pending \ {tx}]
          /\ mined' = IF succeeds THEN mined \cup {[run |-> tx.run, does |-> tx.does, contract |-> tx.contract]} ELSE mined
    /\ UNCHANGED <<task, file>>

done(number, does, contract) == [run |-> number, does |-> does, contract |-> contract] \in mined

\* wait: every transaction that was sent is mined; one that reverted fails.
transactionsMined ==
    /\ waiting /\ \A nonce \in task.sent : nonce < account.nonce
    /\ LET awaited == IF due.does = "connect" THEN ToSet(connections) ELSE {due.contract} IN
       task' = IF \A c \in awaited : done(task.number, due.does, c)
               THEN [task EXCEPT !.todo = Tail(@), !.sent = {}] ELSE aborted
    /\ UNCHANGED <<account, mined, file>>

\* Unipool has a reward rate once it is connected.
readFigures ==
    /\ ready({"read"})
    /\ task' = [task EXCEPT !.rewardRate = done(task.number, "connect", "Unipool"), !.todo = Tail(@)]
    /\ UNCHANGED <<account, mined, file>>

writeDeployment ==
    /\ ready({"write"})
    /\ file' = [run |-> task.number, rewardRate |-> task.rewardRate,
                _priceFeedIsTestnet |-> ~task.params.useRealPriceFeed, _uniTokenIsMock |-> ~task.params.createUniswapPair]
    /\ task' = aborted /\ UNCHANGED <<account, mined>>

\* The process is cut off, or a read fails.
taskCutOff ==
    /\ task.todo # <<>> /\ task' = aborted
    /\ UNCHANGED <<account, mined, file>>

TaskNext ==
    \/ \E params \in DeployParams : startTask(params)
    \/ sendNext
    \/ \E failing \in {{}} \cup {{c} : c \in ToSet(connections)} : connectContracts(failing, {}) \/ connectContracts({}, failing)
    \/ mine \/ transactionsMined \/ readFigures \/ writeDeployment \/ taskCutOff

TaskSpec == TaskInit /\ [][TaskNext]_taskVars

\* Clients connect by the file, with the interfaces it says the contracts have.
getAbi(deployment) ==
    [priceFeed |-> IF deployment._priceFeedIsTestnet THEN "PriceFeedTestnet" ELSE "PriceFeed",
     uniToken |-> IF deployment._uniTokenIsMock THEN "ERC20Mock" ELSE "pair"]
connectToContracts(deployment) ==
    (ToSet(deployContracts(TRUE)) \ {"PriceFeedTestnet"}) \cup {getAbi(deployment).priceFeed, getAbi(deployment).uniToken}

--------------------------------------------------------------------------------
\* When hardhat deploy has run all of its scripts, every contract they set up is
\* set up, and each of them, like those that take addresses in their
\* constructors, knows exactly the contracts on record.
scriptsWire ==
    run.step = "script" /\ run.todo = <<>> /\ run.tag = "main" =>
        \A c \in Contracts :
            LET args == IF c \in DOMAIN setUpWith THEN setUpWith[c] ELSE Constructed[c] IN
            records[c] # 0 /\ knows[c][records[c]] = addresses(args)

\* The file that the task leaves names contracts of one run, all deployed, of
\* the kinds it says, and connected, with the reward rate they have since, and
\* a real price feed has its oracles.
taskWires ==
    file.run # 0 =>
        /\ \A c \in connectToContracts(file) : done(file.run, "deploy", c)
        /\ \A c \in ToSet(connections) : done(file.run, "connect", c)
        /\ ~file._priceFeedIsTestnet => done(file.run, "hook", "PriceFeed")
        /\ file.rewardRate

\* A deployment that is complete is wired, whatever the earlier runs left
\* behind: orphaned instances, half of the contracts set up, reads that failed
\* (deploy/*, scriptsWire); transactions that were sent before a run failed and
\* are mined in the next (lib-ethers/utils/deploy.ts, taskWires).
CompleteRunWires == scriptsWire /\ taskWires
================================================================================
