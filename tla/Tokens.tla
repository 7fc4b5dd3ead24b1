--------------------------------- MODULE Tokens ---------------------------------
(***************************************************************************)
(* LUSDToken and LQTYToken, with the lockup of LQTY.  Both are ERC20 tokens *)
(* with the permits of EIP 2612; the contracts of the protocol move LUSD   *)
(* without an allowance, LQTYStaking LQTY, and in the first year the        *)
(* multisig may send its LQTY to a registered lockup only.                  *)
(*                                                                         *)
(* Every transaction of a user, of the protocol and of anybody who tries is *)
(* one step; one that is refused leaves no trace, so a refusal is a guard.  *)
(* The protocol's contracts are external to this module: they pay users out *)
(* of what they hold and call the functions only they may call.             *)
(***************************************************************************)
EXTENDS Integers, FiniteSets

CONSTANTS
    Holders,                 \* addresses of users,
    multisig, bountyAddress, \* two of them
    Million,                 \* _1_MILLION LQTY
    OneYear,                 \* ONE_YEAR_IN_SECONDS
    Amounts, Deadlines, Recipients,   \* inputs; Recipients are addresses
    MaxTokenTime, MaxSigned  \* bounds: time, permits that are signed

zeroAddress == "zero"
Contracts == {"BorrowerOperations", "TroveManager", "StabilityPool", "GasPool", "LQTYStaking",
              "CommunityIssuance", "Unipool", "LockupContract", "LUSDToken", "LQTYToken"}
Addresses == Holders \cup Contracts \cup {zeroAddress}

ASSUME TokensAssumption ==
    /\ multisig \in Holders /\ bountyAddress \in Holders /\ Million \in Nat
    /\ Holders \cap (Contracts \cup {zeroAddress}) = {}
    /\ Amounts \subseteq Nat /\ OneYear \in Nat /\ MaxTokenTime \in Nat /\ MaxSigned \in Nat
    /\ Deadlines \subseteq Nat /\ Recipients \subseteq Addresses

VARIABLES
    token,      \* of "LUSD" and "LQTY": [balances, totalSupply, allowances, nonces]; no
                \* contract approves a spender or is one
    clock,      \* [time: since the deployment, chainID]
    signed,     \* permits that were signed: [of, owner, spender, amount, nonce, deadline, domain]
    lockup,     \* [lqtyToken: of the factory, deployer, beneficiary, unlockTime]
    sender      \* msg.sender of the last transaction

tokensVars == <<token, clock, signed, lockup, sender>>

--------------------------------------------------------------------------------
(***************************************************************************)
(* What both tokens do.                                                    *)
(***************************************************************************)
_transfer(t, from, to, amount) ==
    LET debited == [t.balances EXCEPT ![from] = @ - amount]
    IN  [t EXCEPT !.balances = [debited EXCEPT ![to] = @ + amount]]
transferable(t, from, to, amount) ==
    from # zeroAddress /\ to # zeroAddress /\ t.balances[from] >= amount

_mint(t, account, amount) ==
    [t EXCEPT !.totalSupply = @ + amount, !.balances[account] = @ + amount]
_burn(t, account, amount) ==
    [t EXCEPT !.balances[account] = @ - amount, !.totalSupply = @ - amount]
_approve(t, owner, spender, amount) == [t EXCEPT !.allowances[owner][spender] = amount]

\* The domain is cached at deployment, on chain 1, and built anew on another
\* chain; a signature for one domain is none for another.
buildDomainSeparator(name) == [name |-> name, chainID |-> clock.chainID]
cachedDomainSeparator(name) == [name |-> name, chainID |-> 1]
domainSeparator(name) == IF clock.chainID = 1 THEN cachedDomainSeparator(name) ELSE buildDomainSeparator(name)

\* The signature's digest is that of the owner's next nonce, which is used up.
permitted(t, p) ==
    [_approve(t, p.owner, p.spender, p.amount) EXCEPT !.nonces[p.owner] = @ + 1]
permitValid(name, p) ==
    /\ p.deadline >= clock.time
    /\ p.of = name /\ p.domain = domainSeparator(name) /\ p.nonce = token[name].nonces[p.owner]

--------------------------------------------------------------------------------
(***************************************************************************)
(* What they refuse.                                                       *)
(***************************************************************************)
isFirstYear == clock.time < OneYear

\* LockupContractFactory.isRegisteredLockup
isRegisteredLockup(address) == address = "LockupContract" /\ lockup.deployer # zeroAddress

\* No function of LQTYToken sets the factory it asks: the call is one to the
\* zero address and reverts.
lockupContractFactory == zeroAddress
requireRecipientIsRegisteredLC(to) == lockupContractFactory # zeroAddress /\ isRegisteredLockup(to)

requireValidRecipientOfLUSD(to) ==
    to \notin {zeroAddress, "LUSDToken", "StabilityPool", "TroveManager", "BorrowerOperations"}
requireValidRecipientOfLQTY(to) ==
    to \notin {zeroAddress, "LQTYToken", "CommunityIssuance", "LQTYStaking"}
requireValidRecipient(name, to) ==
    IF name = "LUSD" THEN requireValidRecipientOfLUSD(to) ELSE requireValidRecipientOfLQTY(to)

\* _requireCallerIsNotMultisig and _requireSenderIsNotMultisig, in the first year
requireNotMultisig(name, account) == name = "LQTY" /\ isFirstYear => account # multisig

--------------------------------------------------------------------------------
transaction(name, caller, t) ==
    /\ token' = [token EXCEPT ![name] = t]
    /\ sender' = caller
    /\ UNCHANGED <<clock, signed, lockup>>

transfer(name, caller, to, amount) ==
    /\ name = "LQTY" /\ caller = multisig /\ isFirstYear => requireRecipientIsRegisteredLC(to)
    /\ requireValidRecipient(name, to)
    /\ transferable(token[name], caller, to, amount)
    /\ transaction(name, caller, _transfer(token[name], caller, to, amount))

approve(name, caller, spender, amount) ==
    /\ requireNotMultisig(name, caller) /\ spender # zeroAddress
    /\ transaction(name, caller, _approve(token[name], caller, spender, amount))

\* Mutated form: the multisig's LQTY can be moved by somebody else.
transferFrom_Multisig(name, caller, from, to, amount) ==
    /\ requireValidRecipient(name, to)
    /\ transferable(token[name], from, to, amount)
    /\ token[name].allowances[from][caller] >= amount
    /\ transaction(name, caller,
         _approve(_transfer(token[name], from, to, amount), from, caller, token[name].allowances[from][caller] - amount))
transferFrom(name, caller, from, to, amount) ==
    /\ requireNotMultisig(name, from)
    /\ requireValidRecipient(name, to)
    /\ transferable(token[name], from, to, amount)
    /\ token[name].allowances[from][caller] >= amount
    /\ transaction(name, caller,
         _approve(_transfer(token[name], from, to, amount), from, caller, token[name].allowances[from][caller] - amount))

increaseAllowance(name, caller, spender, addedValue) ==
    /\ requireNotMultisig(name, caller) /\ spender # zeroAddress
    /\ transaction(name, caller,
         _approve(token[name], caller, spender, token[name].allowances[caller][spender] + addedValue))

decreaseAllowance(name, caller, spender, subtractedValue) ==
    /\ requireNotMultisig(name, caller) /\ spender # zeroAddress
    /\ token[name].allowances[caller][spender] >= subtractedValue
    /\ transaction(name, caller,
         _approve(token[name], caller, spender, token[name].allowances[caller][spender] - subtractedValue))

\* Anybody may hand in what an owner signed.  The multisig is not excepted.
permit(name, caller, p) ==
    /\ permitValid(name, p) /\ p.spender # zeroAddress
    /\ transaction(name, caller, permitted(token[name], p))

--------------------------------------------------------------------------------
(***************************************************************************)
(* The functions for the protocol's contracts.                             *)
(***************************************************************************)
mint(caller, account, amount) ==
    /\ caller = "BorrowerOperations" /\ account # zeroAddress
    /\ transaction("LUSD", caller, _mint(token["LUSD"], account, amount))

burn(caller, account, amount) ==
    /\ caller \in {"BorrowerOperations", "TroveManager", "StabilityPool"}
    /\ token["LUSD"].balances[account] >= amount
    /\ transaction("LUSD", caller, _burn(token["LUSD"], account, amount))

sendToPool(caller, from, poolAddress, amount) ==
    /\ caller = "StabilityPool"
    /\ transferable(token["LUSD"], from, poolAddress, amount)
    /\ transaction("LUSD", caller, _transfer(token["LUSD"], from, poolAddress, amount))

returnFromPool(caller, poolAddress, receiver, amount) ==
    /\ caller \in {"TroveManager", "StabilityPool"}
    /\ transferable(token["LUSD"], poolAddress, receiver, amount)
    /\ transaction("LUSD", caller, _transfer(token["LUSD"], poolAddress, receiver, amount))

sendToLQTYStaking(caller, from, amount) ==
    /\ caller = "LQTYStaking" /\ requireNotMultisig("LQTY", from)
    /\ transferable(token["LQTY"], from, "LQTYStaking", amount)
    /\ transaction("LQTY", caller, _transfer(token["LQTY"], from, "LQTYStaking", amount))

--------------------------------------------------------------------------------
(***************************************************************************)
(* The lockup: one contract, whoever deploys it through the factory.       *)
(***************************************************************************)
noLockup == [lqtyToken |-> zeroAddress, deployer |-> zeroAddress, beneficiary |-> zeroAddress, unlockTime |-> 0]

setLQTYTokenAddress ==
    /\ lockup.lqtyToken = zeroAddress
    /\ lockup' = [lockup EXCEPT !.lqtyToken = "LQTYToken"]
    /\ UNCHANGED <<token, clock, signed, sender>>

requireUnlockTimeIsAtLeastOneYearAfterSystemDeployment(unlockTime) == unlockTime >= OneYear

deployLockupContract(caller, beneficiary, unlockTime) ==
    /\ lockup.lqtyToken # zeroAddress /\ lockup.deployer = zeroAddress
    /\ requireUnlockTimeIsAtLeastOneYearAfterSystemDeployment(unlockTime)
    /\ lockup' = [lockup EXCEPT !.deployer = caller, !.beneficiary = beneficiary, !.unlockTime = unlockTime]
    /\ UNCHANGED <<token, clock, signed, sender>>

withdrawLQTY(caller) ==
    /\ lockup.deployer # zeroAddress
    /\ caller = lockup.beneficiary /\ clock.time >= lockup.unlockTime
    /\ transfer("LQTY", "LockupContract", lockup.beneficiary, token["LQTY"].balances["LockupContract"])

--------------------------------------------------------------------------------
emptyToken ==
    [balances |-> [a \in Addresses |-> 0], totalSupply |-> 0,
     allowances |-> [a \in Holders |-> [s \in Holders |-> 0]], nonces |-> [a \in Holders |-> 0]]

\* The constructor of LQTYToken
bountyEntitlement == 2 * Million
depositorsAndFrontEndsEntitlement == 32 * Million
lpRewardsEntitlement == (4 * Million) \div 3
multisigEntitlement ==
    100 * Million - bountyEntitlement - depositorsAndFrontEndsEntitlement - lpRewardsEntitlement
allocated ==
    LET bounties == _mint(emptyToken, bountyAddress, bountyEntitlement)
        issuance == _mint(bounties, "CommunityIssuance", depositorsAndFrontEndsEntitlement)
        rewards == _mint(issuance, "Unipool", lpRewardsEntitlement)
    IN  _mint(rewards, multisig, multisigEntitlement)

TokensInit ==
    /\ token = [LUSD |-> emptyToken, LQTY |-> allocated]
    /\ clock = [time |-> 0, chainID |-> 1] /\ signed = {}
    /\ lockup = noLockup /\ sender = zeroAddress

\* An owner signs a permit, for a nonce that is due or will be.
sign(name, owner, spender, amount, nonce, deadline) ==
    /\ signed' = signed \cup {[of |-> name, owner |-> owner, spender |-> spender, amount |-> amount,
                               nonce |-> nonce, deadline |-> deadline, domain |-> domainSeparator(name)]}
    /\ UNCHANGED <<token, clock, lockup, sender>>

passTime ==
    /\ clock.time < MaxTokenTime /\ clock' = [clock EXCEPT !.time = @ + 1]
    /\ UNCHANGED <<token, signed, lockup, sender>>
\* The chain splits, and this is the part with the new id.
chainSplits ==
    /\ clock.chainID = 1 /\ clock' = [clock EXCEPT !.chainID = 2]
    /\ UNCHANGED <<token, signed, lockup, sender>>

Names == {"LUSD", "LQTY"}

UserAction ==
    \E name \in Names, caller \in Holders :
       \/ \E amount \in Amounts, other \in Holders :
             \/ approve(name, caller, other, amount)
             \/ increaseAllowance(name, caller, other, amount) \/ decreaseAllowance(name, caller, other, amount)
       \/ \E amount \in Amounts, to \in Recipients :
             transfer(name, caller, to, amount) \/ \E from \in Holders : transferFrom(name, caller, from, to, amount)
       \/ \E p \in signed : permit(name, caller, p)

\* Contracts pay users out of what they hold.
paysOut == [LUSD |-> {"LQTYStaking"}, LQTY |-> {"LQTYStaking", "CommunityIssuance", "Unipool"}]

ProtocolAction ==
    \E amount \in Amounts, user \in Holders :
       \/ \E name \in Names : \E contract \in paysOut[name] : transfer(name, contract, user, amount)
       \/ \E caller \in Contracts \cup Holders :
             \/ \E account \in {user, "GasPool", "LQTYStaking"} : mint(caller, account, amount)
             \/ \E account \in {user, "GasPool", "StabilityPool"} : burn(caller, account, amount)
             \/ sendToPool(caller, user, "StabilityPool", amount)
             \/ \E pool \in {"GasPool", "StabilityPool"} : returnFromPool(caller, pool, user, amount)
             \/ sendToLQTYStaking(caller, user, amount)

LockupAction ==
    \/ setLQTYTokenAddress
    \/ \E caller \in Holders :
          \/ withdrawLQTY(caller)
          \/ \E user \in Holders, unlockTime \in 0..MaxTokenTime : deployLockupContract(caller, user, unlockTime)

SignAction ==
    \E name \in Names, owner \in Holders, spender \in Holders, amount \in Amounts, nonce \in 0..1, deadline \in Deadlines :
       Cardinality(signed) < MaxSigned /\ sign(name, owner, spender, amount, nonce, deadline)

TokensNext == UserAction \/ ProtocolAction \/ LockupAction \/ SignAction \/ passTime \/ chainSplits

TokensSpec == TokensInit /\ [][TokensNext]_tokensVars

--------------------------------------------------------------------------------
\* LUSD may be taken by the three contracts of the protocol, LQTY by LQTYStaking.
trusted(name) ==
    IF name = "LUSD" THEN {"BorrowerOperations", "TroveManager", "StabilityPool"} ELSE {"LQTYStaking"}

\* What of a token leaves an address is moved by its owner, by the protocol, or
\* by a spender whose allowance falls by as much.
spendsOwn(name) ==
    \A a \in Addresses :
       LET spent == token[name].balances[a] - token'[name].balances[a] IN
       spent > 0 =>
          \/ sender' \in {a} \cup trusted(name)
          \/ a \in Holders /\ sender' \in Holders
             /\ token[name].allowances[a][sender'] - token'[name].allowances[a][sender'] = spent

\* An allowance grows by its owner's call or by a permit the owner signed for
\* this chain, which is not expired and cannot be used again.
grantsOwn(name) ==
    \A a, s \in Holders :
       token'[name].allowances[a][s] > token[name].allowances[a][s] =>
          \/ sender' = a
          \/ \E p \in signed :
                /\ p.of = name /\ p.owner = a /\ p.spender = s /\ p.amount = token'[name].allowances[a][s]
                /\ p.domain.chainID = clock.chainID /\ p.deadline >= clock.time
                /\ p.nonce < token'[name].nonces[a] /\ p.nonce >= token[name].nonces[a]

\* Of two balances of LQTY, before a step and after it: in the first year what
\* left the multisig is in a registered lockup, and before its time nothing left
\* the lockup.
keepsLocked(before, after) ==
    /\ isFirstYear /\ after[multisig] < before[multisig] =>
          /\ isRegisteredLockup("LockupContract")
          /\ after["LockupContract"] - before["LockupContract"] = before[multisig] - after[multisig]
    /\ clock.time < lockup.unlockTime => after["LockupContract"] >= before["LockupContract"]

\* Nothing is taken that its owner did not give: see spendsOwn and grantsOwn;
\* and by whatever function, LQTY of the multisig does not enter circulation in the
\* first year nor that of a lockup before its time (LockupContract: "LQTY tokens
\* originating from Liquity AG cannot enter circulating supply").
OnlyAuthorised ==
    [][/\ \A name \in Names : spendsOwn(name) /\ grantsOwn(name)
       /\ keepsLocked(token["LQTY"].balances, token'["LQTY"].balances)]_tokensVars
================================================================================
