----------------------------- MODULE ReplayWindow -----------------------------
(***************************************************************************)
(* The anti-replay window of a service (packages/agent-sdk/src/            *)
(* transport-security.js, message-security.js, store-interface.js).  The   *)
(* instances of a service verify signed envelopes and record each          *)
(* (sender, nonce) in a window, which is one process's memory, one         *)
(* process's file, or a sqlite file the instances share.  A verification   *)
(* is synchronous, but the statements it sends to a shared file interleave *)
(* with those of other instances, and time passes between them.            *)
(*                                                                         *)
(* Abstractions.  An envelope stands for its sender and nonce.  Envelopes  *)
(* with another target, an unknown sender or a bad signature are refused   *)
(* before the window is touched and are left out.  Entries of one instant  *)
(* are evicted in any order.                                               *)
(***************************************************************************)
EXTENDS Integers, FiniteSets

CONSTANTS
    Instances,   \* processes of the service
    Primary,     \* the one that runs when the window is not shared
    Kinds,       \* kinds of window: see WindowKinds
    Envelopes,
    Timestamp,   \* the sender's clock when an envelope was signed
    MaxAge,      \* maxAgeMs: how far that may be from the receiver's clock
    Retention,   \* retentionMs: how long an entry is kept at least
    MaxEntries,
    Failures,    \* whether calls may throw and processes restart
    MaxClock     \* bound

\* createReplayGuard, createReplayStore over createLocalStore without and with
\* a file, and over createSqliteStore.
WindowKinds == {"guard", "memory", "file", "sqlite"}

Shared(k) == k = "sqlite"

Purges(k) == k # "guard"

ASSUME WindowAssumption ==
    /\ Primary \in Instances
    /\ IsFiniteSet(Instances)
    /\ Kinds \subseteq WindowKinds
    /\ Timestamp \in [Envelopes -> Nat]
    /\ MaxAge \in Nat
    /\ Retention \in Nat
    /\ MaxEntries \in Nat
    /\ Failures \in BOOLEAN
    /\ MaxClock \in Nat

\* The default of retentionMs; a window that keeps entries for less forgets
\* envelopes whose timestamp was ahead of the receiver's clock too soon.
ASSUME RetentionAssumption == Retention >= 2 * MaxAge

VARIABLES
    kind,
    now,
    window,      \* entries
    call,        \* what each instance is doing
    known,       \* history: envelopes claimed and neither evicted nor lost since
    repeated,    \* history: claims of a known envelope
    aborted      \* history: a call was cut short

history == <<known, repeated, aborted>>
vars == <<kind, now, window, call, history>>

Entry == [env: Envelopes, updatedAt: Nat]

NoCall == [step |-> "idle"]

Call ==
    {NoCall}
    \cup [step: {"claim"}, env: Envelopes]
    \cup [step: {"count", "purge", "measure"}]
    \cup [step: {"evict"}, excess: Nat]

Init ==
    /\ kind \in Kinds
    /\ now = 0
    /\ window = {}
    /\ call = [i \in Instances |-> NoCall]
    /\ known = {}
    /\ repeated = {}
    /\ aborted = FALSE

Tick ==
    /\ now < MaxClock
    /\ now' = now + 1
    /\ UNCHANGED <<kind, window, call, history>>

Goes(i, state) == call' = [call EXCEPT ![i] = state]

-----------------------------------------------------------------------------
Fresh(env) == now - Timestamp[env] <= MaxAge /\ Timestamp[env] - now <= MaxAge

\* verifyMessageEnvelope up to the window: freshness and signature.
Receive(i, env) ==
    /\ call[i] = NoCall
    /\ Shared(kind) \/ i = Primary
    /\ Fresh(env)
    /\ Goes(i, [step |-> "claim", env |-> env])
    /\ UNCHANGED <<kind, now, window, history>>

Seen(env) == \E entry \in window : entry.env = env

\* claim: the first to record a key has it, also among processes.
Claim(i) ==
    /\ call[i].step = "claim"
    /\ LET env == call[i].env IN
       \/ Seen(env) /\ Goes(i, NoCall) /\ UNCHANGED <<window, known, repeated>>
       \/ /\ ~Seen(env)
          /\ window' = window \cup {[env |-> env, updatedAt |-> now]}
          /\ known' = known \cup {env}
          /\ repeated' = IF env \in known THEN repeated \cup {[env |-> env, updatedAt |-> now]} ELSE repeated
          /\ Goes(i, [step |-> "count"])
    /\ UNCHANGED <<kind, now, aborted>>

-----------------------------------------------------------------------------
(* enforceCapacity, and the eviction at the end of createReplayGuard.record. *)

Full == Cardinality(window) > MaxEntries

Count(i) ==
    /\ call[i].step = "count"
    /\ Goes(i, IF ~Full THEN NoCall ELSE [step |-> IF Purges(kind) THEN "purge" ELSE "measure"])
    /\ UNCHANGED <<kind, now, window, history>>

\* Mutant: an entry goes when its retention ends instead of after.
ExpiredEarly(entry) == entry.updatedAt <= now - Retention

Expired(entry) == entry.updatedAt < now - Retention

Purge(i) ==
    /\ call[i].step = "purge"
    /\ window' = {entry \in window : ~Expired(entry)}
    /\ Goes(i, [step |-> "measure"])
    /\ UNCHANGED <<kind, now, history>>

\* Mutant: one entry too many stays.
ExcessButOne == Cardinality(window) - MaxEntries - 1

Excess == Cardinality(window) - MaxEntries

\* evictOldest counts first ...
Measure(i) ==
    /\ call[i].step = "measure"
    /\ Goes(i, IF Excess <= 0 THEN NoCall ELSE [step |-> "evict", excess |-> Excess])
    /\ UNCHANGED <<kind, now, window, history>>

Oldest(entries, n) ==
    /\ Cardinality(entries) = n
    /\ \A entry \in entries, other \in window \ entries : entry.updatedAt <= other.updatedAt

\* ... and then deletes as many as it counted, or all there are.
Evict(i) ==
    /\ call[i].step = "evict"
    /\ \E entries \in SUBSET window :
        /\ Oldest(entries, IF call[i].excess < Cardinality(window) THEN call[i].excess ELSE Cardinality(window))
        /\ window' = window \ entries
        /\ known' = known \ {entry.env : entry \in entries}
    /\ Goes(i, NoCall)
    /\ UNCHANGED <<kind, now, repeated, aborted>>

-----------------------------------------------------------------------------
(* Failures. *)

\* A statement or a write throws, or the process stops, in the middle of a
\* call.  A local store keeps the key whose write failed.
Abort(i) ==
    /\ Failures
    /\ call[i] # NoCall
    /\ Goes(i, NoCall)
    /\ aborted' = TRUE
    /\ \/ UNCHANGED window
       \/ /\ kind = "file"
          /\ call[i].step = "claim"
          /\ ~Seen(call[i].env)
          /\ window' = window \cup {[env |-> call[i].env, updatedAt |-> now]}
    /\ UNCHANGED <<kind, now, known, repeated>>

\* A restart forgets a window in memory, and one whose file is unreadable.
Restart ==
    /\ Failures
    /\ ~Shared(kind)
    /\ window # {}
    /\ window' = {}
    /\ known' = {}
    /\ call' = [i \in Instances |-> NoCall]
    /\ aborted' = (aborted \/ call[Primary] # NoCall)
    /\ UNCHANGED <<kind, now, repeated>>

Step(i) == Claim(i) \/ Count(i) \/ Purge(i) \/ Measure(i) \/ Evict(i) \/ Abort(i)

Next ==
    \/ Tick
    \/ \E i \in Instances, env \in Envelopes : Receive(i, env)
    \/ \E i \in Instances : Step(i)
    \/ Restart

Spec == Init /\ [][Next]_vars

-----------------------------------------------------------------------------
(* Properties. *)

\* Every variable keeps its type, and a window holds a key once.
TypeOK ==
    /\ kind \in Kinds
    /\ now \in Nat
    /\ window \subseteq Entry
    /\ \A entry, other \in window : entry.env = other.env => entry = other
    /\ call \in [Instances -> Call]
    /\ known \subseteq Envelopes
    /\ repeated \subseteq Entry
    /\ aborted \in BOOLEAN

\* INV-009: the instances of a service claim an envelope once between them,
\* whatever is purged meanwhile, unless the hard cap or a lost file forgot it.
\* A second claim can only be one that came after the envelope went stale, by
\* a call that tested its freshness before.
ClaimedOnce == \A entry \in repeated : entry.updatedAt > Timestamp[entry.env] + MaxAge

\* The cap holds up to the calls that are still enforcing it.
WindowNearCap ==
    ~aborted => Cardinality(window) <= MaxEntries + Cardinality({i \in Instances : call[i] # NoCall})

\* The window has its type, keys once, and stays near its cap.
WindowIsBounded == TypeOK /\ WindowNearCap
=============================================================================
