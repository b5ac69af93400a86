------------------------- MODULE SmartAccountEngine -------------------------
(***************************************************************************)
(* The account's JavaScript engine (packages/chain-eth/src/                *)
(* smart-account.js).  Its operations are synchronous but one:             *)
(* executeFromAgent awaits the verification of a post-quantum signature    *)
(* between its early checks and its ceilings, so for such a session a call *)
(* is two actions, with anything in between.  For a session with an EVM    *)
(* key, and for a preview, it never awaits and is one action.              *)
(*                                                                         *)
(* Abstractions.  An intent carries a valid signature of its session's     *)
(* agent over the amount claimed: without one the call returns a refusal   *)
(* and changes nothing.  A target is what the five whitelist dimensions    *)
(* and the deny lists look at.  Amounts are BigInts: they do not overflow. *)
(***************************************************************************)
EXTENDS Integers, Sequences, Functions

CONSTANTS
    Callers, Owner, EmergencyKey,
    AccountLimited,   \* FALSE for the policy type 'unlimited'
    AccountMaxDaily,
    SessionIds,
    Schemes,          \* how agents sign: "evm" (agentEvmAddress) or "pqc" (agentPublicKey)
    Bindings,         \* [agentId, issuedAt, expiresAt] a session is registered with
    Targets,          \* chain, asset, contract, method and recipient of an intent
    DeniedTargets,    \* those whose action or method is on a deny list
    Whitelists,       \* sets of targets: the product of the session's lists
    Ceilings, Amounts, Nonces,
    Calls,            \* executeFromAgent calls that may be in flight together
    dayWindowMs,
    MaxClock,         \* bound: the last instant explored
    MaxExecutions     \* bound: executions in a behaviour

Intents ==
    [sessionId: SessionIds, nonce: Nonces, amount: Amounts, target: Targets, binding: Bindings]

NoCall == [status |-> "idle"]

NoSession == [status |-> "none"]

ASSUME EngineAssumption ==
    /\ Owner \in Callers /\ EmergencyKey \in Callers
    /\ AccountLimited \in BOOLEAN
    /\ AccountMaxDaily \in Nat
    /\ Schemes \subseteq {"evm", "pqc"}
    /\ \A b \in Bindings : b.issuedAt \in Nat /\ b.expiresAt \in Nat
    /\ DeniedTargets \subseteq Targets
    /\ Whitelists \subseteq SUBSET Targets
    /\ Ceilings \subseteq Nat
    /\ Amounts \subseteq Nat
    /\ Nonces \subseteq Nat \ {0}
    /\ dayWindowMs \in Nat \ {0}
    /\ MaxClock \in Nat \ {0}
    /\ MaxExecutions \in Nat

VARIABLES
    clock,                          \* Date.now()
    frozen, paused,
    sessions,
    spendWindowStart,               \* 0 stands for null
    spentInWindow,
    calls,                          \* the executeFromAgent calls that await a verification
    executed                        \* the executions that returned ok, in order

brakes == <<frozen, paused>>
window == <<spendWindowStart, spentInWindow>>
vars == <<clock, brakes, sessions, window, calls, executed>>

Session ==
    [status: {"active", "revoked"}, scheme: Schemes, binding: Bindings, whitelist: SUBSET Targets,
     maxPerTx: Nat, maxDaily: Nat, lastNonce: Nat, spent: Nat]

\* now is the value of Date.now() the call started with; after counts the
\* executions that had returned by then.
Call == [status: {"verifying"}, intent: Intents, now: 1..MaxClock, after: 0..MaxExecutions]

Execution == [session: SessionIds, nonce: Nonces, amount: Amounts, after: 0..MaxExecutions]

Init ==
    /\ clock = 1
    /\ frozen = FALSE
    /\ paused = FALSE
    /\ sessions = [id \in SessionIds |-> NoSession]
    /\ spendWindowStart = 0
    /\ spentInWindow = 0
    /\ calls = [c \in Calls |-> NoCall]
    /\ executed = <<>>

Registered(id) == sessions[id].status # "none"

Active(id) == sessions[id].status = "active"

InFlight == {c \in Calls : calls[c] # NoCall}

-----------------------------------------------------------------------------
(* Privileged operations.  by is the authenticated caller. *)

\* Both ceilings must be given, and 0 is a ceiling like any other.
RegisterSession(by, id, scheme, binding, whitelist, maxPerTx, maxDaily) ==
    /\ by = Owner
    /\ ~Registered(id)
    /\ binding.issuedAt > 0 /\ binding.expiresAt > binding.issuedAt
    /\ binding.expiresAt > clock
    /\ sessions' = [sessions EXCEPT ![id] =
            [status |-> "active", scheme |-> scheme, binding |-> binding, whitelist |-> whitelist,
             maxPerTx |-> maxPerTx, maxDaily |-> maxDaily, lastNonce |-> 0, spent |-> 0]]
    /\ UNCHANGED <<clock, brakes, window, calls, executed>>

RevokeSession(by, id) ==
    /\ by \in {Owner, EmergencyKey}
    /\ Registered(id)
    /\ sessions' = [sessions EXCEPT ![id].status = "revoked"]
    /\ UNCHANGED <<clock, brakes, window, calls, executed>>

SetBrakes(froze, halted) ==
    /\ frozen' = froze
    /\ paused' = halted
    /\ UNCHANGED <<clock, sessions, window, calls, executed>>

Pause(by) == by \in {Owner, EmergencyKey} /\ SetBrakes(frozen, TRUE)
Resume(by) == by = Owner /\ SetBrakes(frozen, FALSE)
Freeze(by) == by = EmergencyKey /\ SetBrakes(TRUE, paused)
Unfreeze(by) == by = Owner /\ SetBrakes(FALSE, paused)

\* Mutant: the daily limit is compared with the per-transaction one.
ReducesDailyBelowPerTx(id, maxDaily) == maxDaily <= sessions[id].maxPerTx

ReducesDaily(id, maxDaily) == maxDaily <= sessions[id].maxDaily

\* maxPerTx is stored before maxDaily is looked at: a call refused for its
\* maxDaily has taken effect in part.  Leaving a limit out keeps it.
EmergencyReduceLimit(by, id, maxPerTx, maxDaily) ==
    /\ by = EmergencyKey
    /\ Registered(id)
    /\ maxPerTx <= sessions[id].maxPerTx
    /\ sessions' = [sessions EXCEPT
            ![id].maxPerTx = maxPerTx,
            ![id].maxDaily = IF ReducesDaily(id, maxDaily) THEN maxDaily ELSE @]
    /\ UNCHANGED <<clock, brakes, window, calls, executed>>

-----------------------------------------------------------------------------
(* executeFromAgent. *)

BrakesOff == ~frozen /\ ~paused

\* Mutant: the nonce is compared with the last one only for equality.
NonceDiffers(id, nonce) == nonce # sessions[id].lastNonce

NonceIsNext(id, nonce) == nonce > sessions[id].lastNonce

\* Steps 1 to 6, which run before any await.
Admitted(intent) ==
    LET s == sessions[intent.sessionId] IN
    /\ BrakesOff
    /\ Active(intent.sessionId)
    /\ s.binding.expiresAt > clock
    /\ intent.binding = s.binding
    /\ intent.target \notin DeniedTargets
    /\ intent.target \in s.whitelist
    /\ NonceIsNext(intent.sessionId, intent.nonce)

\* rollWindow: an account that never spent has no window to roll.
RolledWindow(now) ==
    IF AccountLimited /\ spendWindowStart # 0 /\ now - spendWindowStart >= dayWindowMs
    THEN [start |-> now, spent |-> 0]
    ELSE [start |-> spendWindowStart, spent |-> spentInWindow]

PerTxOk(intent) == intent.amount <= sessions[intent.sessionId].maxPerTx

AccountHasRoom(now, amount) ==
    AccountLimited => RolledWindow(now).spent + amount <= AccountMaxDaily

SessionHasRoom(id, amount) == sessions[id].spent + amount <= sessions[id].maxDaily

\* A per-transaction refusal comes before the window is rolled, the others after.
Roll(now) ==
    /\ spendWindowStart' = RolledWindow(now).start
    /\ spentInWindow' = RolledWindow(now).spent

RefusePerTx(intent) ==
    /\ ~PerTxOk(intent)
    /\ UNCHANGED <<window, sessions, executed>>

RefuseCeiling(intent, now) ==
    /\ PerTxOk(intent)
    /\ ~(AccountHasRoom(now, intent.amount) /\ SessionHasRoom(intent.sessionId, intent.amount))
    /\ Roll(now)
    /\ UNCHANGED <<sessions, executed>>

\* Mutant: what the session spent in total is forgotten with every nonce.
AccruedOverwrites(s, intent) == [s EXCEPT !.lastNonce = intent.nonce, !.spent = intent.amount]

Accrued(s, intent) == [s EXCEPT !.lastNonce = intent.nonce, !.spent = @ + intent.amount]

\* Step 10.  Nothing of Admitted is looked at again.
Commit(intent, now, after) ==
    LET id == intent.sessionId
        rolled == RolledWindow(now)
    IN  /\ PerTxOk(intent)
        /\ AccountHasRoom(now, intent.amount)
        /\ SessionHasRoom(id, intent.amount)
        /\ Len(executed) < MaxExecutions
        /\ sessions' = [sessions EXCEPT ![id] = Accrued(@, intent)]
        /\ spentInWindow' = rolled.spent + (IF AccountLimited THEN intent.amount ELSE 0)
        /\ spendWindowStart' = IF rolled.start = 0 THEN now ELSE rolled.start
        /\ executed' = Append(executed,
                [session |-> id, nonce |-> intent.nonce, amount |-> intent.amount, after |-> after])

Settle(intent, now, after) ==
    \/ RefusePerTx(intent)
    \/ RefuseCeiling(intent, now)
    \/ Commit(intent, now, after)

\* A session with an EVM key: the digest is verified without awaiting.
ExecuteEvm(intent) ==
    /\ Admitted(intent)
    /\ sessions[intent.sessionId].scheme = "evm"
    /\ Settle(intent, clock, Len(executed))
    /\ UNCHANGED <<clock, brakes, calls>>

BeginVerification(c, intent) ==
    /\ calls[c] = NoCall
    /\ Admitted(intent)
    /\ sessions[intent.sessionId].scheme = "pqc"
    /\ calls' = [calls EXCEPT ![c] =
            [status |-> "verifying", intent |-> intent, now |-> clock, after |-> Len(executed)]]
    /\ UNCHANGED <<clock, brakes, sessions, window, executed>>

\* enforceAmountBinding checks the expiry once more after the verification.
EndVerification(c) ==
    /\ calls[c] # NoCall
    /\ \/ /\ clock >= calls[c].intent.binding.expiresAt
          /\ UNCHANGED <<sessions, window, executed>>
       \/ /\ clock < calls[c].intent.binding.expiresAt
          /\ Settle(calls[c].intent, calls[c].now, calls[c].after)
    /\ calls' = [calls EXCEPT ![c] = NoCall]
    /\ UNCHANGED <<clock, brakes>>

\* A preview skips the signature and the commit, but not rollWindow.
Preview(intent) ==
    /\ Admitted(intent)
    /\ PerTxOk(intent)
    /\ Roll(clock)
    /\ UNCHANGED <<clock, brakes, sessions, calls, executed>>

Tick ==
    /\ clock < MaxClock
    /\ clock' = clock + 1
    /\ UNCHANGED <<brakes, sessions, window, calls, executed>>

Administer(by) ==
    \/ \E id \in SessionIds, scheme \in Schemes, binding \in Bindings, whitelist \in Whitelists,
          perTx \in Ceilings, daily \in Ceilings :
            RegisterSession(by, id, scheme, binding, whitelist, perTx, daily)
    \/ \E id \in SessionIds : RevokeSession(by, id)
    \/ Pause(by) \/ Resume(by) \/ Freeze(by) \/ Unfreeze(by)
    \/ \E id \in SessionIds, perTx \in Ceilings, daily \in Ceilings :
            EmergencyReduceLimit(by, id, perTx, daily)

Next ==
    \/ Tick
    \/ \E by \in Callers : Administer(by)
    \/ \E intent \in Intents : ExecuteEvm(intent) \/ Preview(intent)
    \/ \E c \in Calls, intent \in Intents : BeginVerification(c, intent)
    \/ \E c \in Calls : EndVerification(c)

Spec == Init /\ [][Next]_vars

-----------------------------------------------------------------------------
(* estimateMaxLoss. *)

AccountRemaining == AccountMaxDaily - spentInWindow

SessionRemaining(id) == sessions[id].maxDaily - sessions[id].spent

\* The view reads the window as it was last left, without rolling it.
MaxLossCeiling(id) ==
    IF ~Active(id) THEN 0
    ELSE IF sessions[id].binding.expiresAt <= clock THEN 0
    ELSE IF AccountLimited /\ AccountRemaining < SessionRemaining(id) THEN AccountRemaining
    ELSE SessionRemaining(id)

-----------------------------------------------------------------------------
(* Properties. *)

\* Every variable keeps its type.
TypeOK ==
    /\ clock \in 1..MaxClock
    /\ frozen \in BOOLEAN
    /\ paused \in BOOLEAN
    /\ \A id \in SessionIds : Registered(id) =>
            /\ sessions[id].status \in {"active", "revoked"}
            /\ sessions[id].spent \in Nat
            /\ sessions[id].lastNonce \in {0} \cup Nonces
            /\ sessions[id].maxPerTx \in Ceilings
            /\ sessions[id].maxDaily \in Ceilings
    /\ spendWindowStart \in 0..MaxClock
    /\ spentInWindow \in Nat
    /\ calls \in [Calls -> {NoCall} \cup Call]
    /\ executed \in Seq(Execution)

\* However the calls in flight interleave, a window of a limited account holds
\* at most the account's ceiling: step 8 and step 10 of executeFromAgent run
\* without an await between them.
AccountCeilingHolds == AccountLimited => spentInWindow <= AccountMaxDaily

Moved == [i \in DOMAIN executed |-> executed[i].amount]
Of(id) == {i \in DOMAIN executed : executed[i].session = id}
Total(id) == SumFunctionOnSet(Moved, Of(id))

\* What a session has spent is the sum of its executions over its whole life,
\* also when several of its calls were in flight together.
SessionSpentIsLifetime ==
    \A id \in SessionIds : Total(id) = (IF Registered(id) THEN sessions[id].spent ELSE 0)

\* The books of the engine, with their types: windows within the account's
\* ceiling, sessions charged for all they executed, calls in flight or not.
SpendIsAccounted == TypeOK /\ AccountCeilingHolds /\ SessionSpentIsLifetime

\* Without an await the nonces of a session strictly increase: a signature
\* checked by verifyIntentDigest is good for one execution.
EvmSignaturesSingleUse ==
    \A i, j \in DOMAIN executed :
        /\ i < j
        /\ executed[i].session = executed[j].session
        /\ sessions[executed[i].session].scheme = "evm"
        => executed[i].nonce < executed[j].nonce

\* While a brake holds no call enters, and each execution uses up a call that
\* was in flight already: what can still move is bounded by those calls.
BrakesAdmitNothing ==
    (paused \/ frozen) /\ (paused' \/ frozen') =>
        /\ InFlight' \subseteq InFlight
        /\ executed' # executed => InFlight' # InFlight

\* INV-006: no call of the emergency key raises what a session can lose, also
\* when it is refused half-way.
EmergencyNeverRaisesLoss ==
    EmergencyKey # Owner /\ Administer(EmergencyKey) =>
        \A id \in SessionIds :
            Registered(id) =>
                /\ sessions'[id].maxPerTx <= sessions[id].maxPerTx
                /\ SessionRemaining(id)' <= SessionRemaining(id)
                /\ Active(id)' => Active(id)

\* Both hold of every step: brakes and the emergency key only ever lower what
\* can still be lost.
BrakesHold == [][BrakesAdmitNothing /\ EmergencyNeverRaisesLoss]_vars

\* What smart-account.js:529-535 says: a signature is single-use, it cannot be
\* executed again.  Here in its weakest form: not by a call that starts after
\* the execution has returned.
NoReplayAfterReturn ==
    \A i, j \in DOMAIN executed :
        /\ i < j
        /\ executed[i].session = executed[j].session
        /\ executed[i].nonce = executed[j].nonce
        => executed[j].after < i

\* What smart-account.js:250-253 says of estimateMaxLoss: it is the worst an
\* agent can do now.
EstimateCoversExecution ==
    [][executed' # executed =>
            LET e == executed'[Len(executed')] IN e.amount <= MaxLossCeiling(e.session)]_vars
=============================================================================
