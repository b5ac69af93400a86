---------------------------- MODULE SmartAccount ----------------------------
(***************************************************************************)
(* The on-chain account (contracts/solidity/src/SmartAccount.sol): the     *)
(* only path by which an agent moves value.  A transaction either reverts, *)
(* which changes nothing, or runs its whole body atomically; so every      *)
(* external function is one action whose guard is the conjunction of the   *)
(* require conditions and whose effect is the function's writes.           *)
(*                                                                         *)
(* Abstractions.  A signature is the address it recovers to, an agent's    *)
(* key signs whatever it likes, and a digest is the intent itself (the     *)
(* digest covers every field).  Strings that are compared by hash are      *)
(* members of Names; DenyList.normalize is the function Normalize.         *)
(***************************************************************************)
EXTENDS Integers, Sequences, Functions

CONSTANTS
    Accounts,         \* addresses that send transactions
    Owner,            \* the account's owner
    EmergencyKey,     \* the brake-only key
    AccountMaxDaily,  \* ceiling on what the whole account spends in a window
    SessionIds,       \* bytes32 session identifiers
    Agents,           \* addresses of agents' session keys
    ZeroAddress,      \* address(0): "no agent", and what a bad signature recovers to
    AgentIds,         \* names of agents
    NoAgentId,        \* the empty one
    Bindings,         \* [agentId, issuedAt, expiresAt]: the fields an intent repeats
    Names,            \* strings that occur as action, method, chain, asset, ...
    Normalize,        \* Names -> Names: case and separators stripped
    EscalationNames,  \* normalized names on the self-escalation list
    AllowanceNames,   \* normalized names on the allowance-surface list
    Whitelists,       \* Dimensions -> set of names; {} leaves a dimension open
    Targets,          \* what an intent asks for: a name per dimension, and its action
    Ceilings,         \* values an owner or the emergency key gives a session ceiling
    Amounts,          \* amounts of intents
    Nonces,           \* nonces of intents
    MaxUint,          \* the largest uint256
    DAY_WINDOW,       \* length of a spending window, in block-timestamp units
    MillisPerSecond,  \* 1000 in the code
    MaxTime           \* bound: the last block timestamp explored

Dimensions == {"chain", "asset", "contractAddr", "method", "recipient"}

Addresses == Agents \cup {ZeroAddress}

Intents ==
    [sessionId: SessionIds, target: Targets, amount: Amounts, nonce: Nonces, binding: Bindings]

NoSession ==
    [agentEvmAddress |-> ZeroAddress,
     binding |-> [agentId |-> NoAgentId, issuedAt |-> 0, expiresAt |-> 0],
     maxPerTx |-> 0, maxDaily |-> 0, revoked |-> FALSE]

ASSUME KeysAssumption ==
    /\ Owner \in Accounts /\ EmergencyKey \in Accounts
    /\ ZeroAddress \notin Agents
    /\ NoAgentId \in AgentIds

ASSUME NumbersAssumption ==
    /\ MaxUint \in Nat
    /\ AccountMaxDaily \in 1..MaxUint       \* constructor: NoAccountCeiling
    /\ Ceilings \subseteq 0..MaxUint
    /\ Amounts \subseteq 0..MaxUint
    /\ Nonces \subseteq 0..MaxUint
    /\ DAY_WINDOW \in Nat \ {0}
    /\ MillisPerSecond \in Nat \ {0}
    /\ MaxTime \in Nat \ {0}

ASSUME FieldsAssumption ==
    /\ Bindings \subseteq [agentId: AgentIds, issuedAt: Nat, expiresAt: Nat]
    /\ Normalize \in [Names -> Names]
    /\ Whitelists \subseteq [Dimensions -> SUBSET Names]
    /\ Targets \subseteq [Dimensions \cup {"action"} -> Names]

VARIABLES
    now,                     \* block.timestamp
    paused, frozen,          \* the two brakes
    accountSpentThisWindow, accountWindowStart,
    sessions,                \* session id -> Session
    whitelists,              \* session id -> Whitelist
    sessionLastNonce, sessionSpentThisWindow, sessionWindowStart,
    executed                 \* the Executed events, in order

brakes == <<paused, frozen>>
registry == <<sessions, whitelists>>
accountWindow == <<accountSpentThisWindow, accountWindowStart>>
sessionWindow == <<sessionSpentThisWindow, sessionWindowStart>>
spending == <<accountWindow, sessionWindow, sessionLastNonce, executed>>
vars == <<now, brakes, registry, spending>>

Session ==
    [agentEvmAddress: Addresses,
     binding: [agentId: AgentIds, issuedAt: Nat, expiresAt: Nat],
     maxPerTx: 0..MaxUint, maxDaily: 0..MaxUint, revoked: BOOLEAN]

Execution == [session: SessionIds, nonce: 0..MaxUint, amount: 0..MaxUint, at: 1..MaxTime]

Init ==
    /\ now = 1
    /\ paused = FALSE
    /\ frozen = FALSE
    /\ accountSpentThisWindow = 0
    /\ accountWindowStart = 0
    /\ sessions = [id \in SessionIds |-> NoSession]
    /\ whitelists = [id \in SessionIds |-> [d \in Dimensions |-> {}]]
    /\ sessionLastNonce = [id \in SessionIds |-> 0]
    /\ sessionSpentThisWindow = [id \in SessionIds |-> 0]
    /\ sessionWindowStart = [id \in SessionIds |-> 0]
    /\ executed = <<>>

-----------------------------------------------------------------------------
(* Views and helpers. *)

IsRegistered(id) == sessions[id].agentEvmAddress # ZeroAddress

BlockTimestampMs == now * MillisPerSecond

Expired(id) == BlockTimestampMs > sessions[id].binding.expiresAt

\* Solidity 0.8 arithmetic reverts when the sum does not fit.
AddFits(a, b) == a + b <= MaxUint

\* Mutant: the comparison the other way round.
WindowOverEarly(start) == start = 0 \/ now - start < DAY_WINDOW

\* A window is over DAY_WINDOW after it opened; 0 is a window that never did.
WindowOver(start) == start = 0 \/ now - start >= DAY_WINDOW

\* Mutant: the window outlasts a day by one.
RolledAccountWindowLate ==
    IF accountWindowStart = 0 \/ now - accountWindowStart > DAY_WINDOW
    THEN [start |-> now, spent |-> 0]
    ELSE [start |-> accountWindowStart, spent |-> accountSpentThisWindow]

\* _rollAccountWindow and _rollWindow: the window an execution is charged to.
RolledAccountWindow ==
    IF WindowOver(accountWindowStart)
    THEN [start |-> now, spent |-> 0]
    ELSE [start |-> accountWindowStart, spent |-> accountSpentThisWindow]

RolledSessionWindow(id) ==
    IF WindowOver(sessionWindowStart[id])
    THEN [start |-> now, spent |-> 0]
    ELSE [start |-> sessionWindowStart[id], spent |-> sessionSpentThisWindow[id]]

CurrentAccountSpent ==
    IF WindowOver(accountWindowStart) THEN 0 ELSE accountSpentThisWindow

\* Mutant: the view keeps a window one instant longer than the execution does.
CurrentSessionSpentLate(id) ==
    IF sessionWindowStart[id] = 0 \/ now - sessionWindowStart[id] > DAY_WINDOW
    THEN 0 ELSE sessionSpentThisWindow[id]

CurrentSessionSpent(id) ==
    IF WindowOver(sessionWindowStart[id]) THEN 0 ELSE sessionSpentThisWindow[id]

EstimateMaxLoss ==
    IF AccountMaxDaily > CurrentAccountSpent THEN AccountMaxDaily - CurrentAccountSpent ELSE 0

SessionRemaining(id) ==
    IF sessions[id].maxDaily > CurrentSessionSpent(id)
    THEN sessions[id].maxDaily - CurrentSessionSpent(id) ELSE 0

\* The per-transaction ceiling deliberately does not cap the quoted loss.
SessionMaxLoss(id) ==
    IF ~IsRegistered(id) \/ sessions[id].revoked \/ Expired(id) THEN 0
    ELSE IF sessions[id].maxDaily > 0 /\ SessionRemaining(id) < EstimateMaxLoss
         THEN SessionRemaining(id)
         ELSE EstimateMaxLoss

Denied(target) ==
    \E name \in {target["action"], target["method"]} :
        Normalize[name] \in EscalationNames \cup AllowanceNames

InList(list, name) == list = {} \/ name \in list

WhitelistAllows(id, target) == \A d \in Dimensions : InList(whitelists[id][d], target[d])

-----------------------------------------------------------------------------
(* Session management. *)

\* Mutant: the id of a revoked session can be used again.
CanRegisterRevoked(id) == ~IsRegistered(id) \/ sessions[id].revoked

\* An id is taken once an agent address other than 0 is stored under it.
CanRegister(id) == ~IsRegistered(id)

RegisterSession(caller, id, agent, binding, maxPerTx, maxDaily, whitelist) ==
    /\ caller = Owner
    /\ ~frozen
    /\ binding.expiresAt > binding.issuedAt
    /\ ~(maxPerTx = 0 /\ maxDaily = 0)
    /\ CanRegister(id)
    /\ sessions' = [sessions EXCEPT ![id] =
            [agentEvmAddress |-> agent, binding |-> binding,
             maxPerTx |-> maxPerTx, maxDaily |-> maxDaily, revoked |-> FALSE]]
    /\ whitelists' = [whitelists EXCEPT ![id] = whitelist]
    /\ UNCHANGED <<now, brakes, spending>>

RevokeSession(caller, id) ==
    /\ caller = Owner
    /\ sessions' = [sessions EXCEPT ![id].revoked = TRUE]
    /\ UNCHANGED <<now, brakes, whitelists, spending>>

(* The brakes: the emergency key pulls them, the owner releases them. *)

Pause(caller) ==
    /\ caller = EmergencyKey
    /\ paused' = TRUE
    /\ UNCHANGED <<now, frozen, registry, spending>>

Freeze(caller) ==
    /\ caller = EmergencyKey
    /\ frozen' = TRUE
    /\ UNCHANGED <<now, paused, registry, spending>>

Resume(caller) ==
    /\ caller = Owner
    /\ paused' = FALSE
    /\ UNCHANGED <<now, frozen, registry, spending>>

\* Mutant: the emergency key lifts its own brake.
UnfreezeByAnyKey(caller) ==
    /\ caller \in {Owner, EmergencyKey}
    /\ frozen' = FALSE
    /\ UNCHANGED <<now, paused, registry, spending>>

Unfreeze(caller) ==
    /\ caller = Owner
    /\ frozen' = FALSE
    /\ UNCHANGED <<now, paused, registry, spending>>

\* Compares the numbers, although 0 stands for "no ceiling".
EmergencyReduceLimit(caller, id, newMaxPerTx, newMaxDaily) ==
    /\ caller = EmergencyKey
    /\ IsRegistered(id)
    /\ newMaxPerTx <= sessions[id].maxPerTx
    /\ newMaxDaily <= sessions[id].maxDaily
    /\ sessions' = [sessions EXCEPT ![id].maxPerTx = newMaxPerTx, ![id].maxDaily = newMaxDaily]
    /\ UNCHANGED <<now, brakes, whitelists, spending>>

-----------------------------------------------------------------------------
(* Execution.  Anybody may submit an intent; signer is the address its     *)
(* signature recovers to.                                                  *)

\* Mutant: the last nonce is accepted again.
NonceIsNextOrLast(id, nonce) == nonce >= sessionLastNonce[id]

NonceIsNext(id, nonce) == nonce > sessionLastNonce[id]

\* Steps 1 to 5 of executeFromAgent.
Authorized(intent, signer) ==
    LET s == sessions[intent.sessionId] IN
    /\ ~paused /\ ~frozen
    /\ IsRegistered(intent.sessionId)
    /\ ~s.revoked
    /\ ~Expired(intent.sessionId)
    /\ intent.binding = s.binding
    /\ signer = s.agentEvmAddress
    /\ NonceIsNext(intent.sessionId, intent.nonce)
    /\ ~Denied(intent.target)
    /\ WhitelistAllows(intent.sessionId, intent.target)

AccountHasRoom(spent, amount) == AddFits(spent, amount) /\ spent + amount <= AccountMaxDaily

\* Step 6, against the windows as they are after rolling.
WithinCeilings(intent, account, session) ==
    LET s == sessions[intent.sessionId] IN
    /\ s.maxPerTx > 0 => intent.amount <= s.maxPerTx
    /\ AccountHasRoom(account.spent, intent.amount)
    /\ AddFits(session.spent, intent.amount)
    /\ s.maxDaily > 0 => session.spent + intent.amount <= s.maxDaily

ExecuteFromAgent(intent, signer) ==
    LET id == intent.sessionId
        account == RolledAccountWindow
        session == RolledSessionWindow(id)
    IN  /\ Authorized(intent, signer)
        /\ WithinCeilings(intent, account, session)
        /\ sessionLastNonce' = [sessionLastNonce EXCEPT ![id] = intent.nonce]
        /\ accountWindowStart' = account.start
        /\ accountSpentThisWindow' = account.spent + intent.amount
        /\ sessionWindowStart' = [sessionWindowStart EXCEPT ![id] = session.start]
        /\ sessionSpentThisWindow' =
                [sessionSpentThisWindow EXCEPT ![id] = session.spent + intent.amount]
        /\ executed' = Append(executed,
                [session |-> id, nonce |-> intent.nonce, amount |-> intent.amount, at |-> now])
        /\ UNCHANGED <<now, brakes, registry>>

\* The chain: the next block has a later timestamp.
NextBlock ==
    /\ now < MaxTime
    /\ now' = now + 1
    /\ UNCHANGED <<brakes, registry, spending>>

\* Everything a transaction sent by this account can do besides executing.
Administer(caller) ==
    \/ \E id \in SessionIds, agent \in Addresses, binding \in Bindings,
          perTx \in Ceilings, daily \in Ceilings, list \in Whitelists :
            RegisterSession(caller, id, agent, binding, perTx, daily, list)
    \/ \E id \in SessionIds : RevokeSession(caller, id)
    \/ Pause(caller)
    \/ Freeze(caller)
    \/ Resume(caller)
    \/ Unfreeze(caller)
    \/ \E id \in SessionIds, perTx \in Ceilings, daily \in Ceilings :
            EmergencyReduceLimit(caller, id, perTx, daily)

Execute == \E intent \in Intents, signer \in Addresses : ExecuteFromAgent(intent, signer)

Next ==
    \/ NextBlock
    \/ \E caller \in Accounts : Administer(caller)
    \/ Execute

Spec == Init /\ [][Next]_vars

-----------------------------------------------------------------------------
(* Properties. *)

\* Every variable keeps its declared type.
TypeOK ==
    /\ now \in 1..MaxTime
    /\ paused \in BOOLEAN
    /\ frozen \in BOOLEAN
    /\ accountSpentThisWindow \in 0..MaxUint
    /\ accountWindowStart \in 0..MaxTime
    /\ sessions \in [SessionIds -> Session]
    /\ whitelists \in [SessionIds -> [Dimensions -> SUBSET Names]]
    /\ sessionLastNonce \in [SessionIds -> 0..MaxUint]
    /\ sessionSpentThisWindow \in [SessionIds -> 0..MaxUint]
    /\ sessionWindowStart \in [SessionIds -> 0..MaxTime]
    /\ executed \in Seq(Execution)

\* A signed intent moves money once: among the Executed events of a session
\* the nonces strictly increase (executeFromAgent step 3), whatever happens
\* to the session in between.
NonceSpentOnce ==
    \A i, j \in DOMAIN executed :
        i < j /\ executed[i].session = executed[j].session => executed[i].nonce < executed[j].nonce

Moved == [i \in DOMAIN executed |-> executed[i].amount]

Total(events) == SumFunctionOnSet(Moved, events)

\* The counters the ceilings are compared with agree with the events: each is
\* the sum of what was really executed since its window opened (_rollWindow,
\* _rollAccountWindow and step 6 never lose or double a payment).
CountersMatchEvents ==
    /\ accountSpentThisWindow =
            Total({i \in DOMAIN executed : executed[i].at >= accountWindowStart})
    /\ \A id \in SessionIds : sessionSpentThisWindow[id] =
            Total({i \in DOMAIN executed :
                        executed[i].session = id /\ executed[i].at >= sessionWindowStart[id]})

\* Windows are consecutive and not sliding, so a period as long as a window
\* can touch two of them.  It never holds more than two ceilings' worth: the
\* bound an owner can rely on for any 24 hours.
TwoCeilingsInAnyDay ==
    \A from \in 1..now :
        Total({i \in DOMAIN executed : executed[i].at \in from..(from + DAY_WINDOW - 1)})
            <= 2 * AccountMaxDaily

\* What the windows stand for: with the types, the counters are what was
\* really executed, and no period of 24 hours holds more than two ceilings.
WindowsAreFaithful == TypeOK /\ CountersMatchEvents /\ TwoCeilingsInAnyDay

Executions(id) == {i \in DOMAIN executed : executed[i].session = id}

\* Revoking a registered session is final: no later call revives it, replaces
\* its key or dates, or executes with it.
RevocationIsFinal ==
    [][\A id \in SessionIds : IsRegistered(id) /\ sessions[id].revoked =>
            /\ sessions'[id].revoked
            /\ sessions'[id].agentEvmAddress = sessions[id].agentEvmAddress
            /\ sessions'[id].binding = sessions[id].binding
            /\ Executions(id)' = Executions(id)]_vars

\* The loss quoted by the views before an execution covers that execution,
\* and the account's quote shrinks by exactly what left (estimateMaxLoss and
\* sessionMaxLoss read the windows without rolling them; executeFromAgent
\* rolls them).
QuotedLossCoversSpend ==
    [][executed' # executed =>
            LET e == executed'[Len(executed')] IN
            /\ e.amount <= SessionMaxLoss(e.session)
            /\ EstimateMaxLoss' = EstimateMaxLoss - e.amount]_vars

\* INV-006: a transaction of the emergency key (when it is not also the owner)
\* releases no brake, registers and revives nothing, moves nothing and raises
\* no stored limit.
EmergencyOnlyBrakes ==
    [][EmergencyKey # Owner /\ Administer(EmergencyKey) =>
            /\ paused => paused'
            /\ frozen => frozen'
            /\ UNCHANGED spending
            /\ \A id \in SessionIds :
                 /\ sessions'[id].agentEvmAddress = sessions[id].agentEvmAddress
                 /\ sessions[id].revoked => sessions'[id].revoked
                 /\ sessions'[id].maxPerTx <= sessions[id].maxPerTx
                 /\ sessions'[id].maxDaily <= sessions[id].maxDaily]_vars

\* What the comment at SmartAccount.sol:219 and INV-006 say of the emergency
\* key: it never raises a limit.  Measured by what a session can lose rather
\* than by the stored number this is false, because 0 means "unlimited".
EmergencyNeverRaisesLoss ==
    [][EmergencyKey # Owner /\ Administer(EmergencyKey) =>
            \A id \in SessionIds : SessionMaxLoss(id)' <= SessionMaxLoss(id)]_vars

\* The contract keeps the promise of BoundedSpender.
Promise ==
    INSTANCE BoundedSpender WITH
        SessionNames <- SessionIds, PaymentNonces <- Nonces, PaymentAmounts <- Amounts,
        Ceiling <- AccountMaxDaily, Window <- DAY_WINDOW,
        clock <- now, windowStart <- accountWindowStart, windowSpent <- accountSpentThisWindow,
        paid <- {<<executed[i].session, executed[i].nonce>> : i \in DOMAIN executed}

KeepsPromise == Promise!Spec
=============================================================================
