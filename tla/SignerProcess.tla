---------------------------- MODULE SignerProcess ----------------------------
(***************************************************************************)
(* The isolated signer: the parent's handle (packages/agent-keys/src/      *)
(* signer.js), the worker that holds the key (signer-worker.js), the two   *)
(* pipes between them, and the SDK call that signs an asset intent under a *)
(* session (agent-sdk/src/keys.js).  The pipes are reliable and ordered;   *)
(* either side may read late, the worker may go at any time, and its exit  *)
(* event may overtake what it wrote.                                       *)
(*                                                                         *)
(* Abstractions.  A signature is the call whose content it signs; contents *)
(* are reduced to the channel they use, their amount and their shape.      *)
(***************************************************************************)
EXTENDS SessionKey, Sequences, FiniteSetsExt

CONSTANTS
    Calls,        \* calls of the handle's methods
    Requests,     \* what a call may ask: channel, amount, shape
    BoundPolicies,  \* metadata.spendPolicy of the envelope; NoPolicy if it has none
    ParentPolicies, \* the policy spawnAgentSigner is given; NoPolicy if none
    Sessions,       \* the session it is given; NoSession if none
    Issuer          \* the issuer whose public key the caller holds

\* "asset" is signAgentAsset, which ends in sign_intent.
Channels == {"sign", "sign_intent", "asset", "sign_message", "ping"}
Shapes == {"plain", "hash", "intent", "large", "huge"}

Nobody == 0       \* the free slot of the pings
NoSession == Refused
Unused == [channel |-> "none", amount |-> Absent, shape |-> "plain"]

ASSUME RequestsAssumption ==
    \A r \in Requests : r.channel \in Channels /\ r.shape \in Shapes /\ r.amount \in SpendAmounts

ASSUME CallsAssumption == Nobody \notin Calls

\* Ceilings and thresholds are integers, as BigInt makes them.
ASSUME PoliciesAssumption ==
    /\ BoundPolicies \subseteq SpendConfigs(PolicyTypes)
    /\ ParentPolicies \subseteq SpendConfigs(PolicyTypes)
    /\ \A held \in Sessions : HasLimits(held.scope)

VARIABLES
    worker,       \* booting, ready, failed (init_fail), leaving (exit received), gone
    policy,       \* the worker's policy
    handle,       \* spawning, open, closed, or lost (spawnSigner rejected)
    toWorker, toParent,
    requestId,    \* the handle's counter
    pending,      \* request id -> call, for the entries of the pending map
    pinging,      \* the call under the key 'ping' of the same map
    request,      \* call -> what it asked
    outcome,      \* call -> idle, waiting, or how its promise was settled
    result,       \* call -> the call whose content a resolved signature covers
    bound, asked, \* the policies of the envelope and of the parent
    session,      \* the session of the parent's asset calls
    signatures    \* calls whose content was signed

setup == <<bound, asked, session>>
calls == <<request, outcome, result>>
table == <<requestId, pending, pinging>>
vars == <<worker, policy, handle, toWorker, toParent, table, calls, setup, signatures>>

\* spawnAgentSigner: an explicit policy goes before the session's limits.
PolicyFor(given, held) ==
    IF given # NoPolicy \/ held = NoSession THEN given ELSE PolicyOfSession(held.scope)

\* createAgentIdentity or encryptPrivateKey bind a policy or none.
Init ==
    /\ bound \in BoundPolicies
    /\ session \in Sessions
    /\ asked \in {PolicyFor(given, session) : given \in ParentPolicies}
    /\ worker = "booting"
    /\ policy = NoPolicy
    /\ handle = "spawning"
    /\ toWorker = <<[type |-> "init", id |-> 0, call |-> Nobody]>>
    /\ toParent = <<>>
    /\ requestId = 0
    /\ pending = <<>>
    /\ pinging = Nobody
    /\ request = [c \in Calls |-> Unused]
    /\ outcome = [c \in Calls |-> "idle"]
    /\ result = [c \in Calls |-> Nobody]
    /\ signatures = {}

Reply(type, msg) == toParent' = Append(toParent, [type |-> type, id |-> msg.id, call |-> msg.call])

-----------------------------------------------------------------------------
(* The worker. *)

Alive == worker \notin {"gone"}

Receives(type) == Alive /\ toWorker # <<>> /\ Head(toWorker).type = type /\ toWorker' = Tail(toWorker)

\* The bound policy is authoritative; without one the parent's is taken.
InitWorker ==
    /\ Receives("init")
    /\ \/ /\ worker' = "ready"
          /\ policy' = IF bound = NoPolicy THEN asked ELSE CombineSpendPolicies(bound, asked)
          /\ Reply("init_ok", Head(toWorker))
       \/ /\ worker' = "failed"
          /\ policy' = policy
          /\ Reply("init_fail", Head(toWorker))
    /\ UNCHANGED <<handle, table, calls, setup, signatures>>

HasPolicy == policy.type # "absent"

\* An intent's amount is read from what is signed: without one that is a
\* number, and not a negative one, there is nothing to sign.
HasIntentAmount(r) ==
    r.shape \notin {"plain", "large"} /\ r.amount.tag = "number" /\ r.amount.n >= 0

\* The tests of a message's form come before any policy.
Refuses(r) ==
    CASE r.channel = "sign" ->
            bound # NoPolicy \/ (HasPolicy /\ r.amount = Absent)
      [] r.channel \in {"sign_intent", "asset"} ->
            ~HasIntentAmount(r)
      [] OTHER -> r.shape \in {"hash", "intent", "large"}

\* The worker's own view: nothing is counted as spent today.
Verdict(r) ==
    IF r.channel = "sign_message" \/ ~HasPolicy THEN "allow"
    ELSE CheckSpendAllowedTiered(policy, r.amount, 0)

HandleSign(type, reply, signs) ==
    /\ Receives(type)
    /\ Reply(reply, Head(toWorker))
    /\ signatures' = IF signs THEN signatures \cup {Head(toWorker).call} ELSE signatures
    /\ UNCHANGED <<worker, policy, handle, table, calls, setup>>

Handle(type) ==
    /\ toWorker # <<>> /\ Head(toWorker).type = type
    /\ LET r == request[Head(toWorker).call] IN
       CASE worker \in {"booting", "failed"} \/ Refuses(r) -> HandleSign(type, "sign_fail", FALSE)
         [] OTHER -> CASE Verdict(r) = "allow" -> HandleSign(type, "signature", TRUE)
                       [] Verdict(r) = "timelock" -> HandleSign(type, "sign_timelock", FALSE)
                       [] OTHER -> HandleSign(type, "sign_fail", FALSE)

HandlePing ==
    /\ Receives("ping")
    /\ Reply("pong", Head(toWorker))
    /\ UNCHANGED <<worker, policy, handle, table, calls, setup, signatures>>

\* The process ends 50 ms later, and serves what it reads until then.
HandleExit ==
    /\ Receives("exit")
    /\ Reply("exiting", Head(toWorker))
    /\ worker' = "leaving"
    /\ UNCHANGED <<policy, handle, table, calls, setup, signatures>>

\* A line beyond the input cap ends the worker.
HandleOverflow ==
    /\ Receives("overflow")
    /\ worker' = "gone"
    /\ UNCHANGED <<policy, handle, toParent, table, calls, setup, signatures>>

\* Idle time-out, SIGTERM, SIGKILL, the parent's end, or the exit announced.
Leave ==
    /\ Alive
    /\ worker' = "gone"
    /\ UNCHANGED <<policy, handle, toWorker, toParent, table, calls, setup, signatures>>

-----------------------------------------------------------------------------
(* The parent. *)

\* init_ok hands the handle out; init_fail and a time-out reject, and leave
\* the worker as it is.
SpawnEnds ==
    /\ handle = "spawning"
    /\ \/ /\ toParent # <<>>
          /\ toParent' = Tail(toParent)
          /\ handle' = IF Head(toParent).type = "init_ok" THEN "open" ELSE "lost"
       \/ /\ handle' = "lost"
          /\ toParent' = toParent
    /\ UNCHANGED <<worker, policy, toWorker, table, calls, setup, signatures>>

\* signAgentAsset: a session of the issuer that admits the amount.
SessionAdmits(r) ==
    /\ session # NoSession
    /\ VerifySessionSignature(session, Issuer)
    /\ r.amount.tag = "number" /\ r.amount.n >= 0
    /\ WithinSessionLimits(session.scope, r.amount.n, 0)

\* What the parent refuses without asking the worker.
RefusedLocally(r) ==
    \/ r.channel = "sign_message" /\ r.shape \in {"hash", "intent", "large"}
    \/ r.channel = "asset" /\ ~SessionAdmits(r)

\* Mutant: ids count the entries of the map.
NextIdFromMap == Cardinality(DOMAIN pending) + 1

NextId == requestId + 1

Line(r) ==
    CASE r.shape = "huge" -> "overflow"
      [] r.shape # "huge" /\ r.channel = "asset" -> "sign_intent"
      [] OTHER -> r.channel

\* sign, signIntent, signMessage, signAgentAsset
Call(c, r) ==
    /\ outcome[c] = "idle"
    /\ r.channel # "ping"
    /\ handle \in {"open", "closed"}
    /\ request' = [request EXCEPT ![c] = r]
    /\ IF handle = "closed" \/ RefusedLocally(r)
       THEN /\ outcome' = [outcome EXCEPT ![c] = "refused"]
            /\ UNCHANGED <<table, toWorker>>
       ELSE /\ requestId' = NextId
            /\ pending' = [i \in DOMAIN pending \cup {NextId} |->
                               IF i = NextId THEN c ELSE pending[i]]
            /\ outcome' = [outcome EXCEPT ![c] = "waiting"]
            /\ toWorker' = Append(toWorker, [type |-> Line(r), id |-> NextId, call |-> c])
            /\ UNCHANGED pinging
    /\ UNCHANGED <<worker, policy, handle, toParent, result, setup, signatures>>

\* Every ping takes the same entry; _closed is not tested.
Ping(c, r) ==
    /\ outcome[c] = "idle"
    /\ r.channel = "ping"
    /\ handle \in {"open", "closed"}
    /\ request' = [request EXCEPT ![c] = r]
    /\ pinging' = c
    /\ outcome' = [outcome EXCEPT ![c] = "waiting"]
    /\ toWorker' = Append(toWorker, [type |-> "ping", id |-> 0, call |-> c])
    /\ UNCHANGED <<worker, policy, handle, toParent, requestId, pending, result, setup, signatures>>

Without(id) == [i \in DOMAIN pending \ {id} |-> pending[i]]

Settlement == [signature |-> "signed", sign_fail |-> "refused", sign_timelock |-> "timelocked"]

\* _handleResponse: an answer nobody waits for is dropped.
HandleResponse ==
    /\ handle \in {"open", "closed"}
    /\ toParent # <<>>
    /\ toParent' = Tail(toParent)
    /\ LET msg == Head(toParent) IN
       CASE msg.type = "pong" ->
               /\ outcome' = IF pinging = Nobody THEN outcome
                             ELSE [outcome EXCEPT ![pinging] = "pong"]
               /\ pinging' = Nobody
               /\ UNCHANGED <<pending, result>>
         [] msg.type \in DOMAIN Settlement /\ msg.id \in DOMAIN pending ->
               /\ outcome' = [outcome EXCEPT ![pending[msg.id]] = Settlement[msg.type]]
               /\ result' = [result EXCEPT ![pending[msg.id]] =
                                IF msg.type = "signature" THEN msg.call ELSE Nobody]
               /\ pending' = Without(msg.id)
               /\ UNCHANGED pinging
         [] OTHER -> UNCHANGED <<outcome, result, pending, pinging>>
    /\ UNCHANGED <<worker, policy, handle, toWorker, requestId, request, setup, signatures>>

\* The timer of a request; a ping's timer frees the entry whoever holds it.
TimeOut(c) ==
    /\ outcome[c] = "waiting"
    /\ outcome' = [outcome EXCEPT ![c] = "timed out"]
    /\ IF request[c].channel = "ping"
       THEN pinging' = Nobody /\ pending' = pending
       ELSE /\ pending' = [i \in {j \in DOMAIN pending : pending[j] # c} |-> pending[i]]
            /\ pinging' = pinging
    /\ UNCHANGED <<worker, policy, handle, toWorker, toParent, requestId, request, result, setup, signatures>>

\* Mutant: a ping's timer acts only while the entry is its own.
TimeOutOfOwnEntry(c) ==
    /\ outcome[c] = "waiting"
    /\ request[c].channel = "ping" => pinging = c
    /\ TimeOut(c)

Expire(c) == TimeOut(c)

\* Everything in the map is rejected; a ping whose entry was replaced is not.
ExitEvent ==
    /\ worker = "gone"
    /\ handle \in {"open", "closed"}
    /\ LET ended == {pending[i] : i \in DOMAIN pending} \cup ({pinging} \ {Nobody}) IN
       /\ ended # {} \/ handle = "open"
       /\ outcome' = [c \in Calls |-> IF c \in ended THEN "terminated" ELSE outcome[c]]
    /\ handle' = "closed"
    /\ pending' = <<>>
    /\ pinging' = Nobody
    /\ UNCHANGED <<worker, policy, toWorker, toParent, requestId, request, result, setup, signatures>>

\* No new request from here on; those that wait go on waiting.
Close ==
    /\ handle = "open"
    /\ handle' = "closed"
    /\ toWorker' = Append(toWorker, [type |-> "exit", id |-> 0, call |-> Nobody])
    /\ UNCHANGED <<worker, policy, toParent, table, calls, setup, signatures>>

-----------------------------------------------------------------------------
Next ==
    \/ InitWorker \/ HandlePing \/ HandleExit \/ HandleOverflow \/ Leave
    \/ \E type \in Channels \ {"ping", "asset"} : Handle(type)
    \/ SpawnEnds \/ HandleResponse \/ ExitEvent \/ Close
    \/ \E c \in Calls, r \in Requests : Call(c, r) \/ Ping(c, r)
    \/ \E c \in Calls : Expire(c)

Spec == Init /\ [][Next]_vars

\* Timers fire: the only thing a caller is promised.
FairSpec == Spec /\ \A c \in Calls : WF_vars(Expire(c))

-----------------------------------------------------------------------------
(* Properties. *)

\* Types, and the map holds exactly the requests that wait: an entry is taken
\* out by its answer, its timer or the exit, whichever comes first.
TypeOK ==
    /\ worker \in {"booting", "ready", "failed", "leaving", "gone"}
    /\ handle \in {"spawning", "open", "closed", "lost"}
    /\ pinging \in Calls \cup {Nobody}
    /\ result \in [Calls -> Calls \cup {Nobody}]
    /\ signatures \subseteq Calls
    /\ DOMAIN pending \subseteq 1..requestId
    /\ {pending[i] : i \in DOMAIN pending} =
            {c \in Calls : outcome[c] = "waiting" /\ request[c].channel # "ping"}

\* A caller is handed the signature of its own content and of no other, in
\* spite of time-outs whose answers arrive later (the handle's ids are never
\* used twice).
AnswerIsOwn == \A c \in Calls : outcome[c] = "signed" => result[c] = c /\ c \in signatures

\* A refusal or a time-lock tells the truth: nothing was signed.  A time-out
\* or a termination does not say so.
RefusedMeansUnsigned ==
    \A c \in Calls : outcome[c] \in {"refused", "timelocked"} => c \notin signatures

\* What a caller is told is true of its own request, in every state in which
\* the map of requests is what it should be.
AnswersAreTrue == TypeOK /\ AnswerIsOwn /\ RefusedMeansUnsigned

\* P0-1: whatever the parent asked for, an amount that is signed under a
\* policy bound to the key would be signed under that policy alone, and one
\* signed by hash never is.
SignedWithinBound ==
    bound # NoPolicy /\ WellFormed(bound) =>
        \A c \in signatures :
            /\ request[c].channel # "sign"
            /\ request[c].channel \in {"sign_intent", "asset"} =>
                    CheckSpendAllowedTiered(bound, request[c].amount, 0) = "allow"

\* The same without the restriction to well-formed policies: "every field
\* resolves to the STRICTER" of the two (takeover.js, combineSpendPolicies).
ParentOnlyTightens ==
    bound # NoPolicy =>
        \A c \in signatures :
            request[c].channel = "sign_intent" =>
                CheckSpendAllowedTiered(bound, request[c].amount, 0) = "allow"

\* keys.js, one call at a time: each amount signed as an asset call, or by a
\* worker whose policy is derived from the session, is one that the session
\* admits with nothing spent yet, also when the parent leaves out the test or
\* the worker's policy is another one.  Neither side counts, so it says
\* nothing of a day: see SessionDayHolds.
EachWithinSession ==
    \A c \in signatures :
        \/ request[c].channel = "asset"
        \/ /\ request[c].channel = "sign_intent"
           /\ session # NoSession
           /\ asked = PolicyOfSession(session.scope)
        => WithinSessionLimits(session.scope, request[c].amount.n, 0)

\* "Cumulative daily spend tracking is the verifier's responsibility (not
\* implemented in this module; the signer process tracks it)" (session.js),
\* and it "independently enforces the same limits" (keys.js): what a worker
\* whose policy is the session's signs on one day stays within maxDaily.  No
\* clock runs in this module: all its calls are of one day.  TLC refutes it.
SessionDayHolds ==
    session # NoSession /\ session.scope.maxDaily > 0 /\ asked = PolicyOfSession(session.scope) =>
        MapThenSumSet(LAMBDA c : request[c].amount.n,
                      {c \in signatures : request[c].channel \in {"sign_intent", "asset"}})
            <= session.scope.maxDaily

\* Every promise is settled, also that of a ping whose entry another ping took.
CallsSettle == \A c \in Calls : outcome[c] = "waiting" ~> outcome[c] # "waiting"
=============================================================================
