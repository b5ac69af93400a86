---------------------------- MODULE PolicyTimelock ----------------------------
(***************************************************************************)
(* Time-locked policy changes (PolicyTimelock in packages/agent-keys/src/  *)
(* takeover.js) over a durable store (packages/agent-sdk/src/              *)
(* store-interface.js).  The timelock keeps its pending changes in memory  *)
(* and rewrites the whole list under one key of the store after every      *)
(* change; a restart reads the list back.                                  *)
(*                                                                         *)
(* Every operation is synchronous, so it is one action, with the three     *)
(* ways it can end: it returns; the store throws and the exception reaches *)
(* the caller; the process dies after the store has written and before     *)
(* the caller learns of it.  Dying before the write is Crash.              *)
(*                                                                         *)
(* Abstractions.  A change is its id: agent and policy never change after  *)
(* scheduling.  Notifications are left out: they do not feed back.         *)
(***************************************************************************)
EXTENDS Integers, Sequences

CONSTANTS
    Changes,      \* change ids; crypto.randomUUID never repeats one
    Delay,        \* policyTimelockMs
    Backends,     \* \subseteq {"sqlite", "local"}: stores that may be injected
    Outcomes,     \* the ways an operation can end: \subseteq {"returned", "threw", "died"}
    Crashes,      \* whether the process may stop between operations
    LastClock      \* bound: the last instant explored

ASSUME TimelockAssumption ==
    /\ Delay \in Nat
    /\ Backends \subseteq {"sqlite", "local"}
    /\ Outcomes \subseteq {"returned", "threw", "died"}
    /\ Crashes \in BOOLEAN
    /\ LastClock \in Nat \ {0}

VARIABLES
    clock,          \* Date.now()
    backend,        \* the kind of store
    up,             \* the process runs
    pending,        \* _pending, a set of Change records
    cache,          \* what the store answers a read with
    disk,           \* what survives the process
    used,           \* ids handed out so far
    acknowledged,   \* changes whose scheduleChange returned
    thrown,        \* changes whose scheduleChange threw
    withdrawn,      \* changes whose revokeChange answered revoked, or that clearAll counted
    touched,        \* changes on which an operation other than scheduling was started
    answeredLate,   \* changes whose revokeChange answered 'change already effective'
    delivered       \* change -> instants at which getEffectiveChanges returned it

store == <<cache, disk>>
lockHistory == <<used, acknowledged, thrown, withdrawn, touched, answeredLate, delivered>>
lockVars == <<clock, backend, up, pending, store, lockHistory>>

Change == [change: Changes, createdAt: 1..LastClock, scheduledAt: 1..(LastClock + Delay)]

LockInit ==
    /\ clock = 1
    /\ backend \in Backends
    /\ up = TRUE
    /\ pending = {}
    /\ cache = {}
    /\ disk = {}
    /\ used = {}
    /\ acknowledged = {}
    /\ thrown = {}
    /\ withdrawn = {}
    /\ touched = {}
    /\ answeredLate = {}
    /\ delivered = [c \in Changes |-> <<>>]

Ids(list) == {p.change : p \in list}

-----------------------------------------------------------------------------
(* The store. *)

\* Mutant: the list is handed to the store and never written out.
PersistInMemory(list, outcome) == cache' = list /\ UNCHANGED disk

\* The local store sets its map before it writes the file, and keeps it when
\* the write fails; sqlite has no copy of its own.
Persist(list, outcome) ==
    \/ /\ outcome # "threw"
       /\ cache' = list
       /\ disk' = list
    \/ /\ outcome = "threw"
       /\ cache' = (IF backend = "local" THEN list ELSE cache)
       /\ UNCHANGED disk

\* A write to another key of a local store writes every key's value out.
FlushByAnotherKey ==
    /\ up
    /\ backend = "local"
    /\ disk' = cache
    /\ UNCHANGED <<clock, backend, up, pending, cache, lockHistory>>

\* How an operation leaves the process and its memory.
Ends(outcome, list) ==
    /\ up' = (outcome # "died")
    /\ pending' = IF outcome = "died" THEN {} ELSE list

-----------------------------------------------------------------------------
(* Operations. *)

\* A schedule the store refused is rolled back.
AfterFailedSchedule(p) == pending

EffectiveAt == clock + Delay

ScheduleChange(c, outcome) ==
    LET p == [change |-> c, createdAt |-> clock, scheduledAt |-> EffectiveAt]
        list == pending \cup {p}
    IN  /\ up
        /\ c \notin used
        /\ Persist(list, outcome)
        /\ Ends(outcome, IF outcome = "threw" THEN AfterFailedSchedule(p) ELSE list)
        /\ used' = used \cup {c}
        /\ acknowledged' = IF outcome = "returned" THEN acknowledged \cup {c} ELSE acknowledged
        /\ thrown' = IF outcome = "threw" THEN thrown \cup {c} ELSE thrown
        /\ UNCHANGED <<clock, backend, withdrawn, touched, answeredLate, delivered>>

\* Mutant: a change is due one instant early.
DueEarly(p) == clock + 1 >= p.scheduledAt

Due(p) == clock >= p.scheduledAt

Kept(gone) == pending \ gone

\* A revocation, in time or not, removes the change before it persists and
\* does not put it back when that fails.
RevokeChange(p, outcome) ==
    /\ up
    /\ p \in pending
    /\ Persist(Kept({p}), outcome)
    /\ Ends(outcome, Kept({p}))
    /\ touched' = touched \cup {p.change}
    /\ withdrawn' = IF outcome = "returned" /\ ~Due(p) THEN withdrawn \cup {p.change} ELSE withdrawn
    /\ answeredLate' =
            IF outcome = "returned" /\ Due(p) THEN answeredLate \cup {p.change} ELSE answeredLate
    /\ UNCHANGED <<clock, backend, used, acknowledged, thrown, delivered>>

GetEffectiveChanges(outcome) ==
    LET due == {p \in pending : Due(p)} IN
    /\ up
    /\ due # {}
    /\ Persist(Kept(due), outcome)
    /\ Ends(outcome, Kept(due))
    /\ touched' = touched \cup Ids(due)
    /\ delivered' = [c \in Changes |->
            IF outcome = "returned" /\ c \in Ids(due) THEN Append(delivered[c], clock)
            ELSE delivered[c]]
    /\ UNCHANGED <<clock, backend, used, acknowledged, thrown, withdrawn, answeredLate>>

ClearAll(outcome) ==
    /\ up
    /\ pending # {}
    /\ Persist(Kept(pending), outcome)
    /\ Ends(outcome, Kept(pending))
    /\ touched' = touched \cup Ids(pending)
    /\ withdrawn' = IF outcome = "returned" THEN withdrawn \cup Ids(pending) ELSE withdrawn
    /\ UNCHANGED <<clock, backend, used, acknowledged, thrown, answeredLate, delivered>>

Crash ==
    /\ Crashes
    /\ up
    /\ up' = FALSE
    /\ pending' = {}
    /\ UNCHANGED <<clock, backend, store, lockHistory>>

\* _restore reads the dates back as they were stored.
Reboot ==
    /\ ~up
    /\ up' = TRUE
    /\ cache' = disk
    /\ pending' = disk
    /\ UNCHANGED <<clock, backend, disk, lockHistory>>

TimePasses ==
    /\ clock < LastClock
    /\ clock' = clock + 1
    /\ UNCHANGED <<backend, up, pending, store, lockHistory>>

Operate(outcome) ==
    \/ \E c \in Changes : ScheduleChange(c, outcome)
    \/ \E p \in pending : RevokeChange(p, outcome)
    \/ GetEffectiveChanges(outcome)
    \/ ClearAll(outcome)

LockNext ==
    \/ \E outcome \in Outcomes : Operate(outcome)
    \/ FlushByAnotherKey
    \/ Crash
    \/ Reboot
    \/ TimePasses

LockSpec == LockInit /\ [][LockNext]_lockVars

-----------------------------------------------------------------------------
(* Properties. *)

Delivered(c) == delivered[c] # <<>>

\* Every variable keeps its type, and memory holds nothing while the process
\* is down.
LockTypeOK ==
    /\ clock \in 1..LastClock
    /\ backend \in Backends
    /\ up \in BOOLEAN
    /\ pending \subseteq Change
    /\ cache \subseteq Change
    /\ disk \subseteq Change
    /\ ~up => pending = {}
    /\ used \subseteq Changes
    /\ acknowledged \subseteq used
    /\ thrown \subseteq used
    /\ withdrawn \subseteq used
    /\ touched \subseteq used
    /\ answeredLate \subseteq used
    /\ delivered \in [Changes -> Seq(1..LastClock)]

\* A revocation or a clearance that was acknowledged is final: the change is
\* never returned as effective, whatever the store and the process do later.
WithdrawnNeverTakesEffect == \A c \in withdrawn : ~Delivered(c)

\* No change takes effect before the delay has passed since it was scheduled,
\* counted from the first process that knew it (scheduledAt is absolute).
NoChangeIsEarly ==
    [][\A c \in Changes : delivered'[c] # delivered[c] =>
            \E p \in pending : p.change = c /\ clock >= p.createdAt + Delay]_lockVars

\* A change is handed to the caller at most once: a restart does not bring
\* back what was consumed.
DeliveredOnce == \A c \in Changes : Len(delivered[c]) <= 1

\* An acknowledged change on which nothing was tried since is in the store,
\* and in the memory of a running process: neither a restart nor a failed
\* write of another change loses it.
AcknowledgedIsDurable ==
    \A c \in acknowledged \ touched :
        /\ c \in Ids(disk)
        /\ up => c \in Ids(pending)

\* A schedule that threw is void: over sqlite the change never takes effect.
\* (Over a local store a write to another key can bring it back.)
AbortedNeverTakesEffect == backend = "sqlite" => \A c \in thrown : ~Delivered(c)

\* What was called off stays off and what was delivered stays delivered, in
\* every state that has its types.
SettledStaysSettled ==
    LockTypeOK /\ WithdrawnNeverTakesEffect /\ DeliveredOnce /\ AbortedNeverTakesEffect

\* What takeover.js:373 says: once a change has become effective it cannot be
\* revoked.  A late revocation, answered 'change already effective', leaves
\* the change to be delivered.
LateRevocationKeepsChange == \A c \in answeredLate : Delivered(c) \/ c \in Ids(pending)
=============================================================================
