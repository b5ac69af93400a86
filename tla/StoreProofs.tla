-------------------------- MODULE StoreProofs --------------------------
(***************************************************************************)
(* Proofs about the three components that keep a list in a store: the      *)
(* window of replay protection, the time-lock of policy changes and the    *)
(* audit trail with its collector.                                         *)
(*                                                                         *)
(* ReplayWindow, for any number of instances and envelopes, any clock and  *)
(* any cap.  What carries ClaimedOnce is that a known envelope either      *)
(* still has its entry, made no earlier than MaxAge before its timestamp,  *)
(* or has gone stale: an entry is purged later than Retention, that is     *)
(* twice MaxAge, after it was made.                                        *)
(*                                                                         *)
(* PolicyTimelock, for any changes, any delay, any mix of stores and       *)
(* failures and any clock.  A change lives in three places: the process's  *)
(* memory, what the store answers and what it has on disk.  What is        *)
(* settled has left all three, and a change that was acknowledged and not  *)
(* touched since is in all three; each operation keeps both.               *)
(*                                                                         *)
(* AuditTrail and AuditCollector, for volumes of any size, any number of   *)
(* records, ticks and anchors.  Hashes grow along the trail, and a hash    *)
(* that is neither in the trail nor lost is older than all of it; from     *)
(* this follow where the chain can break, that a cursor names one line,    *)
(* and what comes after it.                                                *)
(***************************************************************************)
EXTENDS ReplayWindow, PolicyTimelock, AuditCollector, FiniteSetTheorems, SequenceTheorems, TLAPS

Stale(env) == now > Timestamp[env] + MaxAge

Remembered(env) ==
    \E entry \in window : entry.env = env /\ entry.updatedAt + MaxAge >= Timestamp[env]

KnownUntilStale == \A env \in known : Remembered(env) \/ Stale(env)

NotFromAfar ==
    \A i \in Instances : call[i].step = "claim" => Timestamp[call[i].env] <= now + MaxAge

FiniteWindow == IsFiniteSet(window)

IInv == TypeOK /\ FiniteWindow /\ NotFromAfar /\ KnownUntilStale /\ ClaimedOnce

USE DEF history, vars

-----------------------------------------------------------------------------
\* The types hold at first and are kept by every step, given a finite window.
LEMMA InitIInv == Init => IInv
<1> SUFFICES ASSUME Init PROVE IInv
    OBVIOUS
<1>1. TypeOK
    BY DEF Init, TypeOK, Call, NoCall
<1>2. FiniteWindow
    BY FS_EmptySet DEF Init, FiniteWindow
<1>3. NotFromAfar /\ KnownUntilStale /\ ClaimedOnce
    BY DEF Init, NotFromAfar, KnownUntilStale, ClaimedOnce, NoCall
<1> QED
    BY <1>1, <1>2, <1>3 DEF IInv

\* A step of one instance leaves the calls of the others as they were.
LEMMA OneCallMoves ==
    ASSUME TypeOK, NEW i \in Instances, NEW state \in Call, Goes(i, state)
    PROVE  /\ call' \in [Instances -> Call]
           /\ call'[i] = state
           /\ \A j \in Instances \ {i} : call'[j] = call[j]
    BY DEF TypeOK, Goes

\* Recording an envelope that has no entry keeps keys unique.
LEMMA EntryAdded ==
    ASSUME TypeOK, FiniteWindow, NEW env \in Envelopes, ~Seen(env),
           window' = window \cup {[env |-> env, updatedAt |-> now]}
    PROVE  /\ window' \subseteq Entry
           /\ \A entry, other \in window' : entry.env = other.env => entry = other
           /\ FiniteWindow'
<1> DEFINE new == [env |-> env, updatedAt |-> now]
<1>1. new \in Entry
    BY DEF TypeOK, Entry
<1>2. FiniteWindow'
    BY FS_AddElement DEF FiniteWindow
<1>3. \A entry \in window : entry.env # new.env
    BY DEF Seen
<1> QED
    BY <1>1, <1>2, <1>3 DEF TypeOK

\* Dropping entries keeps keys unique and the window finite.
LEMMA EntriesDropped ==
    ASSUME TypeOK, FiniteWindow, window' \subseteq window
    PROVE  /\ window' \subseteq Entry
           /\ \A entry, other \in window' : entry.env = other.env => entry = other
           /\ FiniteWindow'
    BY FS_Subset DEF TypeOK, FiniteWindow

\* A claim in flight stays one made in time: the clock only advances and no
\* other instance changes it.
LEMMA NotFromAfarKept ==
    ASSUME IInv, now' \in Nat, now' >= now, NEW i \in Instances, NEW state \in Call,
           Goes(i, state), state.step # "claim"
    PROVE  NotFromAfar'
<1> SUFFICES ASSUME NEW j \in Instances, call'[j].step = "claim"
             PROVE  Timestamp[call'[j].env] <= now' + MaxAge
    BY DEF NotFromAfar
<1>1. j # i /\ call'[j] = call[j]
    BY OneCallMoves DEF IInv
<1>2. call[j] \in Call /\ call[j].step = "claim"
    BY <1>1 DEF IInv, TypeOK
<1>3. call[j].env \in Envelopes
    BY <1>2 DEF Call, NoCall
<1>4. Timestamp[call[j].env] \in Nat /\ Timestamp[call[j].env] <= now + MaxAge
    BY <1>2, <1>3, WindowAssumption DEF IInv, NotFromAfar
<1> QED
    BY <1>1, <1>4, WindowAssumption DEF IInv, TypeOK

-----------------------------------------------------------------------------
\* Time passes: what was known long enough stays so, or is stale by then.
LEMMA TickKeeps ==
    ASSUME IInv, Tick PROVE IInv'
<1> USE DEF IInv, Tick
<1>1. TypeOK'
    BY DEF TypeOK
<1>2. FiniteWindow' /\ ClaimedOnce'
    BY DEF FiniteWindow, ClaimedOnce
<1>3. NotFromAfar'
    <2> SUFFICES ASSUME NEW i \in Instances, call[i].step = "claim"
                 PROVE  Timestamp[call[i].env] <= now + 1 + MaxAge
        BY DEF NotFromAfar
    <2>1. call[i].env \in Envelopes
        BY DEF TypeOK, Call, NoCall
    <2> QED
        BY <2>1, WindowAssumption DEF NotFromAfar, TypeOK
<1>4. KnownUntilStale'
    <2> SUFFICES ASSUME NEW env \in known PROVE Remembered(env)' \/ Stale(env)'
        BY DEF KnownUntilStale
    <2>1. Timestamp[env] \in Nat
        BY WindowAssumption DEF TypeOK
    <2> QED
        BY <2>1, WindowAssumption DEF KnownUntilStale, Remembered, Stale, TypeOK
<1> QED
    BY <1>1, <1>2, <1>3, <1>4

\* A call begins, and claims nothing yet.
LEMMA ReceiveKeeps ==
    ASSUME IInv, NEW i \in Instances, NEW env \in Envelopes, Receive(i, env) PROVE IInv'
<1> USE DEF IInv, Receive
<1> DEFINE state == [step |-> "claim", env |-> env]
<1>1. state \in Call
    BY DEF Call
<1>2. /\ call' \in [Instances -> Call]
      /\ call'[i] = state
      /\ \A j \in Instances \ {i} : call'[j] = call[j]
    BY <1>1, OneCallMoves
<1>3. TypeOK'
    BY <1>2 DEF TypeOK
<1>4. FiniteWindow' /\ ClaimedOnce' /\ KnownUntilStale'
    BY DEF FiniteWindow, ClaimedOnce, KnownUntilStale, Remembered, Stale
<1>5. Timestamp[env] <= now + MaxAge
    BY WindowAssumption DEF Fresh, TypeOK
<1>6. NotFromAfar'
    BY <1>2, <1>5 DEF NotFromAfar
<1> QED
    BY <1>3, <1>4, <1>6

\* A claim makes the entry the invariant asks for, or finds it.
LEMMA ClaimKeeps ==
    ASSUME IInv, NEW i \in Instances, Claim(i) PROVE IInv'
<1> USE DEF IInv, Claim
<1> DEFINE env == call[i].env
           new == [env |-> env, updatedAt |-> now]
<1>1. NoCall \in Call /\ [step |-> "count"] \in Call
    BY DEF Call
<1>2. env \in Envelopes /\ Timestamp[env] \in Nat /\ Timestamp[env] <= now + MaxAge
    <2>1. env \in Envelopes
        BY DEF TypeOK, Call, NoCall
    <2> QED
        BY <2>1, WindowAssumption DEF NotFromAfar
<1>3. CASE Seen(env)
    <2>1. Goes(i, NoCall) /\ UNCHANGED <<window, known, repeated>>
        BY <1>3
    <2>2. NotFromAfar'
        BY <1>1, <2>1, NotFromAfarKept DEF NoCall, TypeOK
    <2>3. TypeOK'
        BY <1>1, <2>1, OneCallMoves DEF TypeOK
    <2> QED
        BY <2>1, <2>2, <2>3 DEF FiniteWindow, ClaimedOnce, KnownUntilStale, Remembered, Stale
<1>4. CASE ~Seen(env)
    <2>1. /\ window' = window \cup {new}
          /\ known' = known \cup {env}
          /\ repeated' = IF env \in known THEN repeated \cup {new} ELSE repeated
          /\ Goes(i, [step |-> "count"])
        BY <1>4
    <2>2. NotFromAfar'
        BY <1>1, <2>1, NotFromAfarKept DEF TypeOK
    <2>3. /\ window' \subseteq Entry
          /\ \A entry, other \in window' : entry.env = other.env => entry = other
          /\ FiniteWindow'
        BY <1>2, <1>4, <2>1, EntryAdded
    <2>4. call' \in [Instances -> Call]
        BY <1>1, <2>1, OneCallMoves
    <2>5. known' \subseteq Envelopes /\ repeated' \subseteq Entry
        BY <1>2, <2>1 DEF TypeOK, Entry
    <2>6. TypeOK'
        BY <2>3, <2>4, <2>5 DEF TypeOK
    <2>7. ClaimedOnce'
        <3>1. env \in known => now > Timestamp[env] + MaxAge
            BY <1>4 DEF KnownUntilStale, Remembered, Stale, Seen
        <3> QED
            BY <2>1, <3>1 DEF ClaimedOnce
    <2>8. KnownUntilStale'
        <3> SUFFICES ASSUME NEW e \in known' PROVE Remembered(e)' \/ Stale(e)'
            BY DEF KnownUntilStale
        <3>1. CASE e = env
            <4>1. new \in window' /\ new.env = env /\ new.updatedAt = now
                BY <2>1
            <4>2. now + MaxAge >= Timestamp[env]
                BY <1>2, WindowAssumption DEF TypeOK
            <4> QED
                BY <3>1, <4>1, <4>2 DEF Remembered
        <3>2. CASE e \in known
            BY <2>1, <3>2 DEF KnownUntilStale, Remembered, Stale
        <3> QED
            BY <2>1, <3>1, <3>2
    <2> QED
        BY <2>2, <2>3, <2>6, <2>7, <2>8
<1> QED
    BY <1>3, <1>4

\* A count reads the window's size.
LEMMA CountKeeps ==
    ASSUME IInv, NEW i \in Instances, Count(i) PROVE IInv'
<1> USE DEF IInv, Count
<1>1. PICK state \in Call : Goes(i, state) /\ state.step # "claim"
    BY DEF Call, NoCall
<1>2. NotFromAfar'
    BY <1>1, NotFromAfarKept DEF TypeOK
<1>3. TypeOK'
    BY <1>1, OneCallMoves DEF TypeOK
<1> QED
    BY <1>2, <1>3 DEF FiniteWindow, ClaimedOnce, KnownUntilStale, Remembered, Stale

\* The step RetentionAssumption is for: an entry that may be purged belongs to
\* an envelope that is stale.
LEMMA PurgeKeeps ==
    ASSUME IInv, NEW i \in Instances, Purge(i) PROVE IInv'
<1> USE DEF IInv, Purge
<1>1. [step |-> "measure"] \in Call
    BY DEF Call
<1>2. NotFromAfar'
    BY <1>1, NotFromAfarKept DEF TypeOK
<1>3. /\ window' \subseteq Entry
      /\ \A entry, other \in window' : entry.env = other.env => entry = other
      /\ FiniteWindow'
    BY EntriesDropped
<1>4. TypeOK'
    BY <1>1, <1>3, OneCallMoves DEF TypeOK
<1>5. KnownUntilStale'
    <2> SUFFICES ASSUME NEW env \in known, ~Stale(env) PROVE Remembered(env)'
        BY DEF KnownUntilStale, Stale
    <2>1. PICK entry \in window : entry.env = env /\ entry.updatedAt + MaxAge >= Timestamp[env]
        BY DEF KnownUntilStale, Remembered
    <2>2. Timestamp[env] \in Nat /\ entry.updatedAt \in Nat
        BY WindowAssumption DEF TypeOK, Entry
    <2>3. ~(now > Timestamp[env] + MaxAge)
        BY DEF Stale
    <2>4. ~(entry.updatedAt < now - Retention)
        BY <2>1, <2>2, <2>3, WindowAssumption, RetentionAssumption DEF TypeOK
    <2>5. entry \in window'
        BY <2>4 DEF Expired
    <2> QED
        BY <2>1, <2>5 DEF Remembered
<1> QED
    BY <1>2, <1>3, <1>4, <1>5 DEF ClaimedOnce

\* A measurement reads the window's size.
LEMMA MeasureKeeps ==
    ASSUME IInv, NEW i \in Instances, Measure(i) PROVE IInv'
<1> USE DEF IInv, Measure
<1>1. Cardinality(window) \in Nat
    BY FS_CardinalityType DEF FiniteWindow
<1>2. Excess \in Int
    BY <1>1, WindowAssumption DEF Excess
<1>3. PICK state \in Call : Goes(i, state) /\ state.step # "claim"
    <2>1. CASE Excess <= 0
        BY <2>1 DEF Call, NoCall
    <2>2. CASE ~(Excess <= 0)
        <3>1. Excess \in Nat
            BY <1>2, <2>2
        <3> QED
            BY <2>2, <3>1 DEF Call
    <2> QED
        BY <2>1, <2>2
<1>4. NotFromAfar'
    BY <1>3, NotFromAfarKept DEF TypeOK
<1>5. TypeOK'
    BY <1>3, OneCallMoves DEF TypeOK
<1> QED
    BY <1>4, <1>5 DEF FiniteWindow, ClaimedOnce, KnownUntilStale, Remembered, Stale

\* An eviction takes away what the cap has no room for, stale entries first.
LEMMA EvictKeeps ==
    ASSUME IInv, NEW i \in Instances, Evict(i) PROVE IInv'
<1> USE DEF IInv, Evict
<1>1. NoCall \in Call
    BY DEF Call
<1>2. PICK entries \in SUBSET window :
            /\ window' = window \ entries
            /\ known' = known \ {entry.env : entry \in entries}
    OBVIOUS
<1>3. NotFromAfar'
    BY <1>1, NotFromAfarKept DEF TypeOK, NoCall
<1>4. /\ window' \subseteq Entry
      /\ \A entry, other \in window' : entry.env = other.env => entry = other
      /\ FiniteWindow'
    BY <1>2, EntriesDropped
<1>5. TypeOK'
    <2>1. call' \in [Instances -> Call]
        BY <1>1, OneCallMoves
    <2>2. known' \subseteq Envelopes
        BY <1>2 DEF TypeOK
    <2> QED
        BY <1>4, <2>1, <2>2 DEF TypeOK
<1>6. KnownUntilStale'
    <2> SUFFICES ASSUME NEW env \in known', ~Stale(env) PROVE Remembered(env)'
        BY DEF KnownUntilStale, Stale
    <2>1. PICK entry \in window : entry.env = env /\ entry.updatedAt + MaxAge >= Timestamp[env]
        BY <1>2 DEF KnownUntilStale, Remembered
    <2>2. entry \in window'
        BY <1>2, <2>1
    <2> QED
        BY <2>1, <2>2 DEF Remembered
<1> QED
    BY <1>3, <1>4, <1>5, <1>6 DEF ClaimedOnce

\* A call that fails leaves its claim behind.
LEMMA AbortKeeps ==
    ASSUME IInv, NEW i \in Instances, Abort(i) PROVE IInv'
<1> USE DEF IInv, Abort
<1>1. NoCall \in Call
    BY DEF Call
<1>2. NotFromAfar'
    BY <1>1, NotFromAfarKept DEF TypeOK, NoCall
<1>3. call' \in [Instances -> Call]
    BY <1>1, OneCallMoves
<1>4. CASE UNCHANGED window
    BY <1>2, <1>3, <1>4 DEF TypeOK, FiniteWindow, ClaimedOnce, KnownUntilStale, Remembered, Stale
<1>5. CASE /\ call[i].step = "claim"
           /\ ~Seen(call[i].env)
           /\ window' = window \cup {[env |-> call[i].env, updatedAt |-> now]}
    <2>1. call[i].env \in Envelopes
        BY <1>5 DEF TypeOK, Call, NoCall
    <2>2. /\ window' \subseteq Entry
          /\ \A entry, other \in window' : entry.env = other.env => entry = other
          /\ FiniteWindow'
        BY <1>5, <2>1, EntryAdded
    <2>3. TypeOK'
        BY <1>3, <2>2 DEF TypeOK
    <2>4. KnownUntilStale'
        BY <1>5 DEF KnownUntilStale, Remembered, Stale
    <2> QED
        BY <1>2, <2>2, <2>3, <2>4 DEF ClaimedOnce
<1> QED
    BY <1>4, <1>5

\* An instance loses its calls, not the store.
LEMMA RestartKeeps ==
    ASSUME IInv, Restart PROVE IInv'
<1> USE DEF IInv, Restart
<1>1. TypeOK'
    BY WindowAssumption DEF TypeOK, Call
<1>2. FiniteWindow'
    BY FS_EmptySet DEF FiniteWindow
<1> QED
    BY <1>1, <1>2 DEF NotFromAfar, KnownUntilStale, ClaimedOnce, NoCall

-----------------------------------------------------------------------------
\* The inductive invariant, one lemma per action.
THEOREM Invariant == Spec => []IInv
<1>1. Init => IInv
    BY InitIInv
<1>2. IInv /\ [Next]_vars => IInv'
    <2> SUFFICES ASSUME IInv, [Next]_vars PROVE IInv'
        OBVIOUS
    <2>1. CASE Tick
        BY <2>1, TickKeeps
    <2>2. CASE \E i \in Instances, env \in Envelopes : Receive(i, env)
        BY <2>2, ReceiveKeeps
    <2>3. CASE \E i \in Instances : Step(i)
        BY <2>3, ClaimKeeps, CountKeeps, PurgeKeeps, MeasureKeeps, EvictKeeps, AbortKeeps DEF Step
    <2>4. CASE Restart
        BY <2>4, RestartKeeps
    <2>5. CASE UNCHANGED vars
        BY <2>5 DEF IInv, TypeOK, FiniteWindow, NotFromAfar, KnownUntilStale, Remembered, Stale, ClaimedOnce
    <2> QED
        BY <2>1, <2>2, <2>3, <2>4, <2>5 DEF Next
<1> QED
    BY <1>1, <1>2, PTL DEF Spec

\* Types, and unique keys in the window, for every deployment (createReplayStore).
THEOREM TypeCorrect == Spec => []TypeOK
<1>1. IInv => TypeOK
    BY DEF IInv
<1> QED
    BY <1>1, Invariant, PTL

\* INV-009 of transport-security.js:28-32 for any number of instances, any
\* retention of at least twice the freshness window and any cap.
THEOREM ClaimsSingleUse == Spec => []ClaimedOnce
<1>1. IInv => ClaimedOnce
    BY DEF IInv
<1> QED
    BY <1>1, Invariant, PTL
-----------------------------------------------------------------------------
(***************************************************************************)
(* The cap.  A call that has claimed and not yet looked again owes the     *)
(* window an eviction.  Beyond the cap there are never more entries than   *)
(* calls that owe, and a call about to evict has counted enough: once it   *)
(* is done, the rest is what the other calls owe.                          *)
(***************************************************************************)
Owes(i) == call[i].step \notin {"idle", "claim"}

Owing == {i \in Instances : Owes(i)}

Within(n, owing) == n <= MaxEntries + Cardinality(owing)

CountedEnough(i) ==
    call[i].step = "evict" =>
        call[i].excess > 0 /\ Within(Cardinality(window) - call[i].excess, Owing \ {i})

CapInv == ~aborted => Within(Cardinality(window), Owing) /\ \A i \in Instances : CountedEnough(i)

\* The instances are few enough to count, and so is every part of them.
LEMMA CountInstances ==
    ASSUME NEW part, part \subseteq Instances
    PROVE  /\ IsFiniteSet(part) /\ Cardinality(part) \in Nat
           /\ \A i \in part : Cardinality(part \ {i}) = Cardinality(part) - 1
           /\ \A i \in Instances \ part : Cardinality(part \cup {i}) = Cardinality(part) + 1
<1>1. IsFiniteSet(part)
    BY WindowAssumption, FS_Subset
<1> QED
    BY <1>1, FS_CardinalityType, FS_RemoveElement, FS_AddElement

\* At first nobody owes and there is nothing to evict.
LEMMA InitCap == Init => CapInv
<1> SUFFICES ASSUME Init PROVE CapInv
    OBVIOUS
<1>1. Cardinality(window) = 0
    BY FS_EmptySet DEF Init
<1>2. Cardinality(Owing) \in Nat
    BY CountInstances DEF Owing
<1>3. \A i \in Instances : call[i].step = "idle"
    BY DEF Init, NoCall
<1> QED
    BY <1>1, <1>2, <1>3, WindowAssumption DEF CapInv, Within, CountedEnough

\* A step of i changes at most whether i itself owes.
LEMMA OnlyItOwes ==
    ASSUME TypeOK, NEW i \in Instances, NEW state \in Call, Goes(i, state)
    PROVE  /\ state.step \notin {"idle", "claim"} => Owing' = Owing \cup {i}
           /\ state.step \in {"idle", "claim"} => Owing' = Owing \ {i}
    BY OneCallMoves DEF Owing, Owes

\* A call that ends, or goes on to a step before eviction, under a window that
\* does not grow keeps the cap, if what it leaves behind is within it.
LEMMA CapKept ==
    ASSUME IInv, CapInv, ~aborted, aborted' = aborted, NEW i \in Instances, NEW state \in Call,
           Goes(i, state), state.step # "evict",
           IsFiniteSet(window'), Cardinality(window') <= Cardinality(window),
           \/ state.step \notin {"idle", "claim"} /\ Owes(i)
           \/ ~Owes(i) /\ state.step \in {"idle", "claim"}
           \/ Cardinality(window') <= MaxEntries
    PROVE  CapInv'
<1>1. /\ call'[i] = state
      /\ \A j \in Instances \ {i} : call'[j] = call[j]
    BY OneCallMoves DEF IInv
<1>2. Owing \subseteq Instances /\ Owing' \subseteq Instances
    BY DEF Owing
<1>3. /\ state.step \notin {"idle", "claim"} => Owing' = Owing \cup {i}
      /\ state.step \in {"idle", "claim"} => Owing' = Owing \ {i}
    BY OnlyItOwes DEF IInv
<1>4. Owes(i) <=> i \in Owing
    BY DEF Owing
<1>5. Cardinality(window) \in Nat /\ Cardinality(window') \in Nat /\ MaxEntries \in Nat
    BY FS_CardinalityType, WindowAssumption DEF IInv, FiniteWindow
<1>6. CASE Cardinality(window') <= MaxEntries
    <2>1. Cardinality(Owing') \in Nat
        BY <1>2, CountInstances
    <2>2. ASSUME NEW j \in Instances, call'[j].step = "evict"
          PROVE  call'[j].excess > 0 /\ Within(Cardinality(window') - call'[j].excess, Owing' \ {j})
        <3>1. j # i /\ call'[j] = call[j]
            BY <1>1, <2>2
        <3>2. call[j].step = "evict" /\ call[j] \in Call
            BY <2>2, <3>1 DEF IInv, TypeOK
        <3>3. call[j].excess \in Nat /\ call[j].excess > 0
            <4>1. call[j].excess \in Nat
                BY <3>2 DEF Call, NoCall
            <4> QED
                BY <4>1, <3>2 DEF CapInv, CountedEnough
        <3>4. Cardinality(Owing' \ {j}) \in Nat
            BY <1>2, CountInstances
        <3> QED
            BY <1>5, <1>6, <3>1, <3>3, <3>4 DEF Within
    <2>3. Within(Cardinality(window'), Owing')
        BY <1>5, <1>6, <2>1 DEF Within
    <2> QED
        BY <2>2, <2>3 DEF CapInv, CountedEnough
<1>7. CASE Owing' = Owing
    <2>1. ASSUME NEW j \in Instances, call'[j].step = "evict"
          PROVE  call'[j].excess > 0 /\ Within(Cardinality(window') - call'[j].excess, Owing' \ {j})
        <3>1. j # i /\ call'[j] = call[j]
            BY <1>1, <2>1
        <3>2. call[j].step = "evict" /\ call[j] \in Call
            BY <2>1, <3>1 DEF IInv, TypeOK
        <3>3. call[j].excess \in Nat
            BY <3>2 DEF Call, NoCall
        <3>4. call[j].excess > 0 /\ Within(Cardinality(window) - call[j].excess, Owing \ {j})
            BY <3>2 DEF CapInv, CountedEnough
        <3>5. Cardinality(Owing \ {j}) \in Nat
            BY <1>2, CountInstances
        <3> QED
            BY <1>5, <1>7, <3>1, <3>3, <3>4, <3>5 DEF Within
    <2>2. Within(Cardinality(window'), Owing')
        <3>1. Cardinality(Owing) \in Nat /\ Within(Cardinality(window), Owing)
            BY <1>2, CountInstances DEF CapInv
        <3> QED
            BY <1>5, <1>7, <3>1 DEF Within
    <2> QED
        BY <2>1, <2>2 DEF CapInv, CountedEnough
<1>8. Owing' = Owing \/ Cardinality(window') <= MaxEntries
    BY <1>3, <1>4
<1> QED
    BY <1>6, <1>7, <1>8

\* A step that leaves the window, the calls and the record of failures alone,
\* or starts a call that does not owe yet.
LEMMA ReceiveCap ==
    ASSUME IInv, CapInv, NEW i \in Instances, NEW env \in Envelopes, Receive(i, env)
    PROVE  CapInv'
<1> SUFFICES ASSUME ~aborted PROVE CapInv'
    BY DEF CapInv, Receive, history
<1>1. [step |-> "claim", env |-> env] \in Call
    BY DEF Call
<1>2. ~Owes(i) /\ Goes(i, [step |-> "claim", env |-> env])
    BY DEF Receive, Owes, NoCall
<1>3. window' = window /\ aborted' = aborted
    BY DEF Receive, history
<1>4. Cardinality(window) \in Nat /\ IsFiniteSet(window)
    BY FS_CardinalityType DEF IInv, FiniteWindow
<1> QED
    BY <1>1, <1>2, <1>3, <1>4, CapKept

\* A claim adds an entry and the duty to make up for it.
LEMMA ClaimCap ==
    ASSUME IInv, CapInv, NEW i \in Instances, Claim(i)
    PROVE  CapInv'
<1> SUFFICES ASSUME ~aborted PROVE CapInv'
    BY DEF CapInv, Claim
<1>1. /\ NoCall \in Call /\ NoCall.step = "idle"
      /\ [step |-> "count"] \in Call
    BY DEF Call, NoCall
<1>2. ~Owes(i) /\ aborted' = aborted /\ call[i].step = "claim"
    BY DEF Claim, Owes
<1>3. Cardinality(window) \in Nat /\ IsFiniteSet(window) /\ MaxEntries \in Nat
    BY FS_CardinalityType, WindowAssumption DEF IInv, FiniteWindow
<1>4. CASE Goes(i, NoCall) /\ window' = window
    BY <1>1, <1>2, <1>3, <1>4, CapKept
<1>5. CASE /\ window' = window \cup {[env |-> call[i].env, updatedAt |-> now]}
           /\ Goes(i, [step |-> "count"])
    <2>1. Cardinality(window') \in Nat /\ Cardinality(window') <= Cardinality(window) + 1
        <3> DEFINE new == [env |-> call[i].env, updatedAt |-> now]
        <3> HIDE DEF new
        <3>1. Cardinality(window \cup {new}) = IF new \in window THEN Cardinality(window) ELSE Cardinality(window) + 1
            BY <1>3, FS_AddElement
        <3>2. window' = window \cup {new}
            BY <1>5 DEF new
        <3> QED
            BY <1>3, <3>1, <3>2
    <2>2. /\ Owing' = Owing \cup {i} /\ i \notin Owing
          /\ Owing \subseteq Instances
          /\ call'[i] = [step |-> "count"]
          /\ \A j \in Instances \ {i} : call'[j] = call[j]
        BY <1>1, <1>2, <1>5, OnlyItOwes, OneCallMoves DEF IInv, Owing
    <2>3. Within(Cardinality(window'), Owing')
        <3>1. Cardinality(Owing) \in Nat /\ Cardinality(Owing') = Cardinality(Owing) + 1
            BY <2>2, CountInstances
        <3> QED
            BY <1>3, <2>1, <3>1 DEF CapInv, Within
    <2>4. ASSUME NEW j \in Instances, call'[j].step = "evict"
          PROVE  call'[j].excess > 0 /\ Within(Cardinality(window') - call'[j].excess, Owing' \ {j})
        <3>1. j # i /\ call'[j] = call[j]
            BY <2>2, <2>4
        <3>2. call[j].step = "evict" /\ call[j] \in Call
            BY <2>4, <3>1 DEF IInv, TypeOK
        <3>3. call[j].excess \in Nat
            BY <3>2 DEF Call, NoCall
        <3>4. call[j].excess > 0 /\ Within(Cardinality(window) - call[j].excess, Owing \ {j})
            BY <3>2 DEF CapInv, CountedEnough
        <3>5. /\ Owing' \ {j} = (Owing \ {j}) \cup {i}
              /\ i \in Instances \ (Owing \ {j})
              /\ Owing \ {j} \subseteq Instances
            BY <2>2, <3>1
        <3>6. /\ Cardinality(Owing \ {j}) \in Nat
              /\ Cardinality(Owing' \ {j}) = Cardinality(Owing \ {j}) + 1
            BY <3>5, CountInstances
        <3> QED
            BY <1>3, <2>1, <3>1, <3>3, <3>4, <3>6 DEF Within
    <2> QED
        BY <2>3, <2>4 DEF CapInv, CountedEnough
<1> QED
    BY <1>4, <1>5 DEF Claim

\* A call that sees the cap respected is done; otherwise it goes on owing.
LEMMA CountCap ==
    ASSUME IInv, CapInv, NEW i \in Instances, Count(i)
    PROVE  CapInv'
<1> SUFFICES ASSUME ~aborted PROVE CapInv'
    BY DEF CapInv, Count, history
<1>1. Owes(i) /\ aborted' = aborted /\ window' = window
    BY DEF Count, Owes, history
<1>2. Cardinality(window) \in Nat /\ IsFiniteSet(window) /\ MaxEntries \in Nat
    BY FS_CardinalityType, WindowAssumption DEF IInv, FiniteWindow
<1>3. PICK state \in Call : /\ Goes(i, state) /\ state.step # "evict"
                            /\ \/ state.step \notin {"idle", "claim"}
                               \/ Cardinality(window) <= MaxEntries
    <2>1. CASE Full
        BY <2>1 DEF Count, Call
    <2>2. CASE ~Full
        <3>1. Cardinality(window) <= MaxEntries
            BY <1>2, <2>2 DEF Full
        <3>2. NoCall \in Call /\ NoCall.step = "idle" /\ Goes(i, NoCall)
            BY <2>2 DEF Count, Call, NoCall
        <3> QED
            BY <3>1, <3>2
    <2> QED
        BY <2>1, <2>2
<1> QED
    BY <1>1, <1>2, <1>3, CapKept

\* What is purged makes the window no larger.
LEMMA PurgeCap ==
    ASSUME IInv, CapInv, NEW i \in Instances, Purge(i)
    PROVE  CapInv'
<1> SUFFICES ASSUME ~aborted PROVE CapInv'
    BY DEF CapInv, Purge, history
<1>1. Owes(i) /\ aborted' = aborted /\ window' \subseteq window /\ Goes(i, [step |-> "measure"])
    BY DEF Purge, Owes, history
<1>2. [step |-> "measure"] \in Call
    BY DEF Call
<1>3. IsFiniteSet(window') /\ Cardinality(window') <= Cardinality(window)
    BY <1>1, FS_Subset DEF IInv, FiniteWindow
<1> QED
    BY <1>1, <1>2, <1>3, CapKept

\* A call counts what is beyond the cap: evicting that much leaves the cap.
LEMMA MeasureCap ==
    ASSUME IInv, CapInv, NEW i \in Instances, Measure(i)
    PROVE  CapInv'
<1> SUFFICES ASSUME ~aborted PROVE CapInv'
    BY DEF CapInv, Measure, history
<1>1. Owes(i) /\ aborted' = aborted /\ window' = window /\ call[i].step = "measure"
    BY DEF Measure, Owes, history
<1>2. Cardinality(window) \in Nat /\ IsFiniteSet(window) /\ MaxEntries \in Nat /\ Excess \in Int
    BY FS_CardinalityType, WindowAssumption DEF IInv, FiniteWindow, Excess
<1>3. CASE Excess <= 0
    <2>1. Goes(i, NoCall) /\ NoCall \in Call /\ NoCall.step = "idle"
        BY <1>3 DEF Measure, Call, NoCall
    <2>2. Cardinality(window) <= MaxEntries
        BY <1>2, <1>3 DEF Excess
    <2> QED
        BY <1>1, <1>2, <2>1, <2>2, CapKept
<1>4. CASE ~(Excess <= 0)
    <2> DEFINE state == [step |-> "evict", excess |-> Excess]
    <2>1. Excess \in Nat /\ Excess > 0
        BY <1>2, <1>4
    <2>2. state \in Call /\ Goes(i, state)
        BY <1>4, <2>1 DEF Measure, Call
    <2>3. /\ call'[i] = state
          /\ \A j \in Instances \ {i} : call'[j] = call[j]
          /\ Owing' = Owing \cup {i}
        BY <2>2, OneCallMoves, OnlyItOwes DEF IInv
    <2>4. Owing' = Owing /\ Owing \subseteq Instances
        BY <1>1, <2>3 DEF Owing
    <2>5. ASSUME NEW j \in Instances, call'[j].step = "evict"
          PROVE  call'[j].excess > 0 /\ Within(Cardinality(window') - call'[j].excess, Owing' \ {j})
        <3>1. CASE j = i
            <4>1. Cardinality(Owing \ {j}) \in Nat
                BY <2>4, CountInstances
            <4>2. call'[j].excess = Cardinality(window) - MaxEntries
                BY <2>3, <3>1 DEF Excess
            <4>3. Cardinality(window) - call'[j].excess <= MaxEntries + Cardinality(Owing \ {j})
                BY <1>2, <4>1, <4>2
            <4>4. call'[j].excess > 0
                BY <2>1, <2>3, <3>1
            <4>5. Within(Cardinality(window') - call'[j].excess, Owing' \ {j})
                BY <1>1, <2>4, <4>3 DEF Within
            <4> QED
                BY <4>4, <4>5
        <3>2. CASE j # i
            BY <1>1, <2>3, <2>4, <2>5, <3>2 DEF CapInv, CountedEnough
        <3> QED
            BY <3>1, <3>2
    <2>6. Within(Cardinality(window'), Owing')
        BY <1>1, <2>4 DEF CapInv
    <2> QED
        BY <2>5, <2>6 DEF CapInv, CountedEnough
<1> QED
    BY <1>3, <1>4

\* The eviction pays what the call owes, and at least one entry of what the
\* others counted with.
LEMMA EvictCap ==
    ASSUME IInv, CapInv, NEW i \in Instances, Evict(i)
    PROVE  CapInv'
<1> SUFFICES ASSUME ~aborted PROVE CapInv'
    BY DEF CapInv, Evict
<1> DEFINE all == Cardinality(window)
           excess == call[i].excess
<1>1. call[i].step = "evict" /\ Goes(i, NoCall) /\ aborted' = aborted
    BY DEF Evict
<1>2. all \in Nat /\ IsFiniteSet(window) /\ MaxEntries \in Nat
    BY FS_CardinalityType, WindowAssumption DEF IInv, FiniteWindow
<1>3. excess \in Nat /\ excess > 0 /\ Within(all - excess, Owing \ {i})
    <2>1. call[i] \in Call
        BY DEF IInv, TypeOK
    <2>2. excess \in Nat
        BY <1>1, <2>1 DEF Call, NoCall
    <2> QED
        BY <1>1, <2>2 DEF CapInv, CountedEnough
<1>4. Cardinality(window') = all - (IF excess < all THEN excess ELSE all)
    <2>1. PICK entries \in SUBSET window :
                Cardinality(entries) = (IF excess < all THEN excess ELSE all) /\ window' = window \ entries
        BY DEF Evict, Oldest
    <2>2. window \cap entries = entries
        OBVIOUS
    <2> QED
        BY <1>2, <2>1, <2>2, FS_Difference
<1>5. /\ \A j \in Instances \ {i} : call'[j] = call[j]
      /\ call'[i].step = "idle"
      /\ Owing' = Owing \ {i} /\ i \in Owing /\ Owing \subseteq Instances
    <2>1. NoCall \in Call /\ NoCall.step = "idle"
        BY DEF Call, NoCall
    <2> QED
        BY <1>1, <2>1, OneCallMoves, OnlyItOwes DEF IInv, Owing, Owes
<1> HIDE DEF all, excess
<1>6. Within(Cardinality(window'), Owing')
    <2>1. Cardinality(Owing \ {i}) \in Nat
        BY <1>5, CountInstances
    <2> QED
        BY <1>2, <1>3, <1>4, <1>5, <2>1 DEF Within
<1>7. ASSUME NEW j \in Instances, call'[j].step = "evict"
      PROVE  call'[j].excess > 0 /\ Within(Cardinality(window') - call'[j].excess, Owing' \ {j})
    <2>1. j # i /\ call'[j] = call[j]
        BY <1>5, <1>7
    <2>2. call[j].step = "evict" /\ call[j] \in Call
        BY <1>7, <2>1 DEF IInv, TypeOK
    <2>3. call[j].excess \in Nat
        BY <2>2 DEF Call, NoCall
    <2>4. call[j].excess > 0 /\ Within(all - call[j].excess, Owing \ {j})
        BY <2>2 DEF CapInv, CountedEnough, all
    <2>5. /\ Owing' \ {j} = (Owing \ {j}) \ {i}
          /\ i \in Owing \ {j}
          /\ Owing \ {j} \subseteq Instances
        BY <1>5, <2>1
    <2>6. /\ Cardinality(Owing \ {j}) \in Nat /\ Cardinality(Owing' \ {j}) \in Nat
          /\ Cardinality(Owing' \ {j}) = Cardinality(Owing \ {j}) - 1
        BY <2>5, CountInstances
    <2>7. Cardinality(window') - call[j].excess <= MaxEntries + Cardinality(Owing' \ {j})
        BY <1>2, <1>3, <1>4, <2>3, <2>4, <2>6 DEF Within
    <2> QED
        BY <2>1, <2>4, <2>7 DEF Within
<1> QED
    BY <1>6, <1>7 DEF CapInv, CountedEnough

\* A restart leaves an empty window and nobody at work.
LEMMA RestartCap ==
    ASSUME IInv, CapInv, Restart
    PROVE  CapInv'
<1>1. Cardinality(window') = 0
    BY FS_EmptySet DEF Restart
<1>2. Cardinality(Owing') \in Nat
    <2>1. Owing' \subseteq Instances
        BY DEF Owing
    <2> QED
        BY <2>1, CountInstances
<1>3. \A i \in Instances : call'[i].step = "idle"
    BY DEF Restart, NoCall
<1>4. Within(Cardinality(window'), Owing')
    BY <1>1, <1>2, WindowAssumption DEF Within
<1> QED
    BY <1>3, <1>4 DEF CapInv, CountedEnough

-----------------------------------------------------------------------------
\* The second inductive invariant, one lemma per action, on top of the first.
THEOREM CapInvariant == Spec => []CapInv
<1>1. Init => CapInv
    BY InitCap
<1>2. IInv /\ CapInv /\ [Next]_vars => CapInv'
    <2> SUFFICES ASSUME IInv, CapInv, [Next]_vars PROVE CapInv'
        OBVIOUS
    <2>1. CASE UNCHANGED <<window, call, aborted>>
        BY <2>1 DEF CapInv, CountedEnough, Within, Owing, Owes
    <2>2. CASE \E i \in Instances, env \in Envelopes : Receive(i, env)
        BY <2>2, ReceiveCap
    <2>3. CASE \E i \in Instances : Step(i)
        <3>1. ASSUME NEW i \in Instances, Abort(i) PROVE CapInv'
            BY <3>1 DEF Abort, CapInv
        <3> QED
            BY <2>3, <3>1, ClaimCap, CountCap, PurgeCap, MeasureCap, EvictCap DEF Step
    <2>4. CASE Restart
        BY <2>4, RestartCap
    <2> QED
        BY <2>1, <2>2, <2>3, <2>4 DEF Next, Tick
<1> QED
    BY <1>1, <1>2, Invariant, PTL DEF Spec

\* maxEntries (transport-security.js:74-79) for any number of instances: the window
\* exceeds it by no more than the calls at work, unless one was cut short.
THEOREM CapHolds == Spec => []WindowIsBounded
<1>1. IInv /\ CapInv => WindowIsBounded
    <2> SUFFICES ASSUME IInv, CapInv PROVE WindowIsBounded
        OBVIOUS
    <2> DEFINE busy == {i \in Instances : call[i] # NoCall}
    <2>1. Owing \subseteq busy /\ busy \subseteq Instances
        BY DEF Owing, Owes, NoCall
    <2>2. Cardinality(Owing) <= Cardinality(busy) /\ Cardinality(busy) \in Nat /\ Cardinality(Owing) \in Nat
        <3>1. IsFiniteSet(busy) /\ Cardinality(busy) \in Nat
            BY <2>1, CountInstances
        <3> HIDE DEF busy
        <3>2. Cardinality(Owing) <= Cardinality(busy)
            BY <2>1, <3>1, FS_Subset
        <3>3. Owing \subseteq Instances
            BY <2>1
        <3> QED
            BY <3>1, <3>2, <3>3, CountInstances
    <2>3. Cardinality(window) \in Nat /\ MaxEntries \in Nat
        BY FS_CardinalityType, WindowAssumption DEF IInv, FiniteWindow
    <2>4. WindowNearCap
        <3> SUFFICES ASSUME ~aborted PROVE Cardinality(window) <= MaxEntries + Cardinality(busy)
            BY DEF WindowNearCap
        <3> HIDE DEF busy
        <3> QED
            BY <2>2, <2>3 DEF CapInv, Within
    <2> QED
        BY <2>4 DEF IInv, WindowIsBounded
<1> QED
    BY <1>1, Invariant, CapInvariant, PTL

-----------------------------------------------------------------------------
(* The time-lock. *)

Stored == pending \cup cache \cup disk

\* A change is recorded once, under the instant it was scheduled at.
Recorded ==
    /\ Ids(Stored) \subseteq used
    /\ \A p, q \in Stored : p.change = q.change => p = q
    /\ \A p \in Stored : p.scheduledAt = p.createdAt + Delay

\* What took effect or was called off is nowhere any more; over sqlite, nor
\* is what was never taken.
SettledHasLeft ==
    /\ \A c \in Changes : Delivered(c) => c \in used
    /\ \A c \in Changes : c \in withdrawn \/ Delivered(c) => c \notin Ids(Stored)
    /\ backend = "sqlite" => \A c \in thrown : c \notin Ids(Stored)

Durable ==
    \A c \in acknowledged \ touched :
        /\ c \in Ids(disk) /\ c \in Ids(cache)
        /\ up => c \in Ids(pending)

LockIInv == SettledStaysSettled /\ Recorded /\ SettledHasLeft /\ Durable

USE DEF store, lockHistory, lockVars

-----------------------------------------------------------------------------
\* Nothing is scheduled yet.
LEMMA LockInitIInv == LockInit => LockIInv
<1> SUFFICES ASSUME LockInit PROVE LockIInv
    OBVIOUS
<1>1. LockTypeOK
    BY TimelockAssumption DEF LockInit, LockTypeOK
<1>2. SettledStaysSettled
    BY <1>1 DEF LockInit, SettledStaysSettled, WithdrawnNeverTakesEffect, DeliveredOnce,
       AbortedNeverTakesEffect, Delivered
<1>3. Recorded /\ SettledHasLeft /\ Durable
    BY DEF LockInit, Recorded, SettledHasLeft, Durable, Stored, Ids, Delivered
<1> QED
    BY <1>2, <1>3 DEF LockIInv

\* Whatever a write ends with, the three places hold what they held or the
\* list that was written; only a list that was refused can be missing.
LEMMA WriteOutcome ==
    ASSUME NEW outcome, NEW list, NEW memory, Persist(list, outcome), Ends(outcome, memory)
    PROVE  /\ cache' \in {cache, list} /\ disk' \in {disk, list}
           /\ pending' \in {{}, memory}
           /\ outcome # "threw" => cache' = list /\ disk' = list
           /\ outcome = "threw" => disk' = disk /\ (backend = "sqlite" => cache' = cache)
           /\ up' => pending' = memory
           /\ ~up' => pending' = {}
           /\ up' \in BOOLEAN
    BY DEF Persist, Ends

\* The ids of a list are among those of a longer one.
LEMMA Identified == ASSUME NEW S, NEW T, S \subseteq T PROVE Ids(S) \subseteq Ids(T)
    BY DEF Ids

\* An operation that takes changes out: revocation, delivery, clearance.
LEMMA TakingOut ==
    ASSUME LockIInv, up, NEW outcome, NEW gone \in SUBSET pending,
           Persist(Kept(gone), outcome), Ends(outcome, Kept(gone)),
           touched' = touched \cup Ids(gone),
           UNCHANGED <<clock, backend, used, acknowledged, thrown>>
    PROVE  /\ Stored' \subseteq Stored
           /\ pending' \subseteq Change /\ cache' \subseteq Change /\ disk' \subseteq Change
           /\ touched' \subseteq used
           /\ Recorded' /\ Durable'
           /\ backend = "sqlite" => \A c \in thrown : c \notin Ids(Stored')
           /\ outcome = "returned" => \A c \in Ids(gone) : c \notin Ids(Stored')
<1> USE DEF LockIInv
<1>1. Kept(gone) \subseteq pending
    BY DEF Kept
<1>2. /\ cache' \in {cache, Kept(gone)} /\ disk' \in {disk, Kept(gone)} /\
           pending' \in {{}, Kept(gone)}
      /\ outcome # "threw" => cache' = Kept(gone) /\ disk' = Kept(gone)
      /\ up' => pending' = Kept(gone)
    BY WriteOutcome
<1>3. Stored' \subseteq Stored
    BY <1>1, <1>2 DEF Stored
<1>4. /\ Ids(Stored') \subseteq Ids(Stored) /\ Ids(gone) \subseteq Ids(Stored)
    BY <1>3 DEF Ids, Stored
<1>5. /\ pending' \subseteq Change /\ cache' \subseteq Change /\ disk' \subseteq Change
      /\ touched' \subseteq used
    BY <1>1, <1>2, <1>4 DEF SettledStaysSettled, LockTypeOK, Recorded
<1>6. Recorded'
    BY <1>3, <1>4 DEF Recorded, Ids
<1>7. \A c : c \in Ids(pending) /\ c \notin Ids(gone) => c \in Ids(Kept(gone))
    BY DEF Ids, Kept
<1>8. Durable'
    BY <1>2, <1>7 DEF Durable
<1>9. \A c \in Ids(gone) : c \notin Ids(Kept(gone))
    BY DEF Ids, Kept, Recorded, Stored
<1>10. outcome = "returned" => Stored' \subseteq Kept(gone)
    BY <1>2 DEF Stored
<1> QED
    BY <1>3, <1>4, <1>5, <1>6, <1>8, <1>9, <1>10 DEF SettledHasLeft, Ids

\* Settled changes stay away when nothing new is stored, settled or delivered.
LEMMA NothingNew ==
    ASSUME LockIInv, Stored' \subseteq Stored, UNCHANGED <<backend, used, thrown, withdrawn, delivered>>
    PROVE  /\ Recorded' /\ SettledHasLeft'
           /\ WithdrawnNeverTakesEffect' /\ DeliveredOnce' /\ AbortedNeverTakesEffect'
<1>1. \A c : c \in Ids(Stored') => c \in Ids(Stored)
    BY DEF Ids
<1>2. Recorded'
    BY <1>1 DEF LockIInv, Recorded, Ids
<1>3. SettledHasLeft'
    BY <1>1 DEF LockIInv, SettledHasLeft, Delivered
<1> QED
    BY <1>2, <1>3 DEF LockIInv, SettledStaysSettled, WithdrawnNeverTakesEffect, DeliveredOnce,
       AbortedNeverTakesEffect, Delivered

\* revokeChange takes one change out, or answers that it is too late.
LEMMA RevokeKeeps ==
    ASSUME LockIInv, NEW outcome, NEW p \in pending, RevokeChange(p, outcome)
    PROVE  LockIInv'
<1> USE DEF LockIInv
<1>1. {p} \in SUBSET pending /\ Ids({p}) = {p.change}
    BY DEF Ids
<1>2. /\ Stored' \subseteq Stored
      /\ pending' \subseteq Change /\ cache' \subseteq Change /\ disk' \subseteq Change
      /\ touched' \subseteq used
      /\ Recorded' /\ Durable'
      /\ backend = "sqlite" => \A c \in thrown : c \notin Ids(Stored')
      /\ outcome = "returned" => p.change \notin Ids(Stored')
    BY <1>1, TakingOut DEF RevokeChange
<1>3. p.change \in Changes /\ p.change \in used /\ ~Delivered(p.change) /\ p.change \in Ids(Stored)
    BY DEF SettledStaysSettled, LockTypeOK, Change, Recorded, SettledHasLeft, Stored, Ids
<1>4. /\ withdrawn' \subseteq withdrawn \cup {p.change}
      /\ p.change \in withdrawn' => p.change \in withdrawn \/ outcome = "returned"
      /\ answeredLate' \subseteq answeredLate \cup {p.change}
      /\ UNCHANGED <<clock, backend, used, acknowledged, thrown, delivered>>
    BY DEF RevokeChange
<1>5. LockTypeOK'
    <2>1. up' \in BOOLEAN /\ (~up' => pending' = {})
        BY WriteOutcome DEF RevokeChange
    <2> QED
        BY <1>2, <1>3, <1>4, <2>1 DEF SettledStaysSettled, LockTypeOK
<1>6. SettledHasLeft'
    BY <1>2, <1>3, <1>4 DEF SettledHasLeft, Delivered, Ids
<1>7. WithdrawnNeverTakesEffect' /\ DeliveredOnce' /\ AbortedNeverTakesEffect'
    BY <1>3, <1>4 DEF SettledStaysSettled, WithdrawnNeverTakesEffect, DeliveredOnce,
       AbortedNeverTakesEffect, Delivered
<1> QED
    BY <1>2, <1>5, <1>6, <1>7 DEF SettledStaysSettled

\* clearAll takes every change out.
LEMMA ClearKeeps == ASSUME LockIInv, NEW outcome, ClearAll(outcome) PROVE LockIInv'
<1> USE DEF LockIInv
<1>1. /\ Stored' \subseteq Stored
      /\ pending' \subseteq Change /\ cache' \subseteq Change /\ disk' \subseteq Change
      /\ touched' \subseteq used
      /\ Recorded' /\ Durable'
      /\ backend = "sqlite" => \A c \in thrown : c \notin Ids(Stored')
      /\ outcome = "returned" => \A c \in Ids(pending) : c \notin Ids(Stored')
    BY TakingOut DEF ClearAll
<1>2. \A c \in Ids(pending) : c \in Changes /\ c \in used /\ ~Delivered(c)
    BY DEF SettledStaysSettled, LockTypeOK, Change, Recorded, SettledHasLeft, Stored, Ids
<1>3. /\ withdrawn' = withdrawn \/ (outcome = "returned" /\ withdrawn' = withdrawn \cup Ids(pending))
      /\ UNCHANGED <<clock, backend, used, acknowledged, thrown, answeredLate, delivered>>
    BY DEF ClearAll
<1>4. LockTypeOK'
    <2>1. up' \in BOOLEAN /\ (~up' => pending' = {})
        BY WriteOutcome DEF ClearAll
    <2> QED
        BY <1>1, <1>2, <1>3, <2>1 DEF SettledStaysSettled, LockTypeOK
<1>5. SettledHasLeft'
    BY <1>1, <1>2, <1>3 DEF SettledHasLeft, Delivered, Ids
<1>6. WithdrawnNeverTakesEffect' /\ DeliveredOnce' /\ AbortedNeverTakesEffect'
    BY <1>2, <1>3 DEF SettledStaysSettled, WithdrawnNeverTakesEffect, DeliveredOnce,
       AbortedNeverTakesEffect, Delivered
<1> QED
    BY <1>1, <1>4, <1>5, <1>6 DEF SettledStaysSettled

\* getEffectiveChanges takes out what is due and returns it.
LEMMA DeliveryKeeps == ASSUME LockIInv, NEW outcome, GetEffectiveChanges(outcome) PROVE LockIInv'
<1> USE DEF LockIInv
<1> DEFINE due == {p \in pending : Due(p)}
<1>1. /\ Stored' \subseteq Stored
      /\ pending' \subseteq Change /\ cache' \subseteq Change /\ disk' \subseteq Change
      /\ touched' \subseteq used
      /\ Recorded' /\ Durable'
      /\ backend = "sqlite" => \A c \in thrown : c \notin Ids(Stored')
      /\ outcome = "returned" => \A c \in Ids(due) : c \notin Ids(Stored')
    BY TakingOut DEF GetEffectiveChanges
<1>2. \A c \in Ids(due) :
          /\ c \in Changes /\ c \in used /\ ~Delivered(c) /\ c \notin withdrawn
          /\ backend = "sqlite" => c \notin thrown
    BY DEF SettledStaysSettled, LockTypeOK, Change, Recorded, SettledHasLeft, Stored, Ids
<1>3. /\ clock \in 1..LastClock
      /\ \A c \in Changes : delivered[c] \in Seq(1..LastClock)
      /\ UNCHANGED <<clock, backend, used, acknowledged, thrown, withdrawn, answeredLate>>
    BY DEF GetEffectiveChanges, SettledStaysSettled, LockTypeOK
<1>4. delivered' = [c \in Changes |->
          IF outcome = "returned" /\ c \in Ids(due) THEN Append(delivered[c], clock) ELSE delivered[c]]
    BY DEF GetEffectiveChanges
<1> HIDE DEF due
<1>5. delivered' \in [Changes -> Seq(1..LastClock)]
    <2>1. \A c \in Changes : Append(delivered[c], clock) \in Seq(1..LastClock)
        BY <1>3
    <2> QED
        BY <1>3, <1>4, <2>1
<1>6. \A c \in Changes :
          \/ delivered'[c] = delivered[c]
          \/ outcome = "returned" /\ c \in Ids(due) /\ delivered'[c] = Append(<<>>, clock)
    BY <1>2, <1>4 DEF Delivered
<1>7. Len(Append(<<>>, clock)) = 1
    BY <1>3
<1>8. LockTypeOK'
    <2>1. up' \in BOOLEAN /\ (~up' => pending' = {})
        BY WriteOutcome DEF GetEffectiveChanges
    <2> QED
        BY <1>1, <1>3, <1>5, <2>1 DEF SettledStaysSettled, LockTypeOK
<1>9. \A c \in Changes : Delivered(c)' => Delivered(c) \/ (outcome = "returned" /\ c \in Ids(due))
    BY <1>6 DEF Delivered
<1>10. SettledHasLeft'
    BY <1>1, <1>2, <1>3, <1>9 DEF SettledHasLeft, Ids
<1>11. WithdrawnNeverTakesEffect' /\ AbortedNeverTakesEffect'
    BY <1>2, <1>3, <1>9 DEF SettledStaysSettled, WithdrawnNeverTakesEffect,
         AbortedNeverTakesEffect, LockTypeOK
<1>12. DeliveredOnce'
    <2> SUFFICES ASSUME NEW c \in Changes PROVE Len(delivered'[c]) <= 1
        BY DEF DeliveredOnce
    <2>1. Len(delivered[c]) <= 1
        BY DEF SettledStaysSettled, DeliveredOnce
    <2>2. CASE delivered'[c] = delivered[c]
        BY <2>1, <2>2
    <2>3. CASE delivered'[c] = Append(<<>>, clock)
        <3>1. Len(delivered'[c]) = 1
            BY <1>7, <2>3
        <3> QED
            BY <3>1
    <2> QED
        BY <1>6, <2>2, <2>3
<1> QED
    BY <1>1, <1>8, <1>10, <1>11, <1>12 DEF SettledStaysSettled

\* A schedule enters a change that no one has used; refused, it is rolled back.
LEMMA ScheduleKeeps ==
    ASSUME LockIInv, NEW outcome, NEW c \in Changes, ScheduleChange(c, outcome)
    PROVE  LockIInv'
<1> USE DEF LockIInv
<1> DEFINE p == [change |-> c, createdAt |-> clock, scheduledAt |-> EffectiveAt]
           list == pending \cup {p}
<1>0. /\ up /\ c \notin used /\ used' = used \cup {c}
      /\ acknowledged' = IF outcome = "returned" THEN acknowledged \cup {c} ELSE acknowledged
      /\ thrown' = IF outcome = "threw" THEN thrown \cup {c} ELSE thrown
      /\ UNCHANGED <<clock, backend, withdrawn, touched, answeredLate, delivered>>
    BY DEF ScheduleChange
<1>1. p \in Change /\ p.change = c /\ p.scheduledAt = p.createdAt + Delay
    BY TimelockAssumption DEF SettledStaysSettled, LockTypeOK, Change, EffectiveAt
<1>2. /\ cache' \in {cache, list} /\ disk' \in {disk, list}
      /\ pending' \in {{}, list, pending}
      /\ outcome # "threw" => cache' = list /\ disk' = list
      /\ up' => pending' = IF outcome = "threw" THEN pending ELSE list
      /\ outcome = "threw" => disk' = disk /\ (backend = "sqlite" => cache' = cache)
      /\ outcome = "threw" => pending' = pending
      /\ ~up' => pending' = {}
      /\ up' \in BOOLEAN
    BY WriteOutcome DEF ScheduleChange, Ends, AfterFailedSchedule
<1>3. c \notin Ids(Stored) /\ c \notin withdrawn /\ ~Delivered(c) /\ c \notin touched
    BY <1>0 DEF Recorded, SettledHasLeft, SettledStaysSettled, LockTypeOK
<1> HIDE DEF p
<1>4. Stored' \subseteq Stored \cup {p}
    BY <1>2 DEF Stored
<1>5. \A d : d \in Ids(Stored') => d = c \/ d \in Ids(Stored)
    BY <1>1, <1>4 DEF Ids
<1>6. LockTypeOK'
    BY <1>0, <1>1, <1>2 DEF SettledStaysSettled, LockTypeOK
<1>7. Recorded'
    BY <1>0, <1>1, <1>3, <1>4, <1>5 DEF Recorded, Ids
<1>8. backend = "sqlite" /\ outcome = "threw" => Stored' \subseteq Stored
    BY <1>2 DEF Stored
<1>9. SettledHasLeft'
    <2>1. \A d \in Changes : Delivered(d)' <=> Delivered(d)
        BY <1>0 DEF Delivered
    <2>2. \A d \in Changes : d \in withdrawn' \/ Delivered(d)' => d \notin Ids(Stored')
        BY <1>0, <1>3, <1>5, <2>1 DEF SettledHasLeft
    <2>3. backend = "sqlite" => \A d \in thrown' : d \notin Ids(Stored')
        <3>1. CASE outcome = "threw"
            BY <1>0, <1>3, <1>8, <3>1 DEF SettledHasLeft, Ids
        <3>2. CASE outcome # "threw"
            BY <1>0, <1>5, <3>2 DEF SettledHasLeft, SettledStaysSettled, LockTypeOK
        <3> QED
            BY <3>1, <3>2
    <2> QED
        BY <1>0, <2>1, <2>2, <2>3 DEF SettledHasLeft
<1>10. WithdrawnNeverTakesEffect' /\ DeliveredOnce' /\ AbortedNeverTakesEffect'
    BY <1>0, <1>3 DEF SettledStaysSettled, WithdrawnNeverTakesEffect, DeliveredOnce,
       AbortedNeverTakesEffect, Delivered
<1>11. \A d : d \in Ids(pending) => d \in Ids(list)
    BY DEF Ids
<1>12. c \in Ids(list)
    BY <1>1 DEF Ids
<1>13. Durable'
    <2> SUFFICES ASSUME NEW d \in acknowledged' \ touched'
                 PROVE  /\ d \in Ids(disk') /\ d \in Ids(cache')
                        /\ up' => d \in Ids(pending')
        BY DEF Durable, Ids
    <2> HIDE DEF list
    <2>1. CASE d = c
        <3>1. outcome = "returned"
            BY <1>0, <2>1 DEF SettledStaysSettled, LockTypeOK
        <3> QED
            BY <1>2, <1>12, <2>1, <3>1
    <2>2. CASE d # c
        <3>1. d \in Ids(disk) /\ d \in Ids(cache) /\ d \in Ids(pending) /\ d \in Ids(list)
            BY <1>0, <1>11, <2>2 DEF Durable
        <3> QED
            BY <1>2, <3>1
    <2> QED
        BY <2>1, <2>2
<1> QED
    BY <1>6, <1>7, <1>9, <1>10, <1>13 DEF SettledStaysSettled

\* The process comes and goes; another key of a local store is written.
LEMMA ProcessKeeps == ASSUME LockIInv, FlushByAnotherKey \/ Crash \/ Reboot PROVE LockIInv'
<1> USE DEF LockIInv
<1>1. Stored' \subseteq Stored
    BY DEF FlushByAnotherKey, Crash, Reboot, Stored
<1>2. /\ Recorded' /\ SettledHasLeft'
      /\ WithdrawnNeverTakesEffect' /\ DeliveredOnce' /\ AbortedNeverTakesEffect'
    BY <1>1, NothingNew DEF FlushByAnotherKey, Crash, Reboot
<1>3. LockTypeOK'
    BY DEF FlushByAnotherKey, Crash, Reboot, SettledStaysSettled, LockTypeOK
<1>4. Durable'
    BY DEF FlushByAnotherKey, Crash, Reboot, Durable
<1> QED
    BY <1>2, <1>3, <1>4 DEF SettledStaysSettled

\* Time alone settles nothing.
LEMMA TimeKeeps == ASSUME LockIInv, TimePasses \/ UNCHANGED lockVars PROVE LockIInv'
<1> USE DEF LockIInv
<1>1. Stored' = Stored /\ UNCHANGED <<backend, up, pending, cache, disk, lockHistory>>
    BY DEF TimePasses, Stored
<1>2. /\ Recorded' /\ SettledHasLeft'
      /\ WithdrawnNeverTakesEffect' /\ DeliveredOnce' /\ AbortedNeverTakesEffect'
    BY <1>1, NothingNew
<1>3. clock' \in 1..LastClock
    BY TimelockAssumption DEF TimePasses, SettledStaysSettled, LockTypeOK
<1>4. LockTypeOK'
    BY <1>1, <1>3 DEF SettledStaysSettled, LockTypeOK
<1>5. Durable'
    BY <1>1 DEF Durable
<1> QED
    BY <1>2, <1>4, <1>5 DEF SettledStaysSettled

-----------------------------------------------------------------------------
\* The inductive invariant, one lemma per action.
THEOREM LockInvariant == LockSpec => []LockIInv
<1>1. LockInit => LockIInv
    BY LockInitIInv
<1>2. LockIInv /\ [LockNext]_lockVars => LockIInv'
    <2> SUFFICES ASSUME LockIInv, [LockNext]_lockVars PROVE LockIInv'
        OBVIOUS
    <2>1. CASE \E outcome \in Outcomes : Operate(outcome)
        BY <2>1, ScheduleKeeps, RevokeKeeps, DeliveryKeeps, ClearKeeps DEF Operate
    <2>2. CASE FlushByAnotherKey \/ Crash \/ Reboot
        BY <2>2, ProcessKeeps
    <2>3. CASE TimePasses \/ UNCHANGED lockVars
        BY <2>3, TimeKeeps
    <2> QED
        BY <2>1, <2>2, <2>3 DEF LockNext
<1> QED
    BY <1>1, <1>2, PTL DEF LockSpec

\* revokeChange, clearAll and getEffectiveChanges are final, and a schedule
\* that threw is void over sqlite, through any failures and restarts.
THEOREM SettlementIsFinal == LockSpec => []SettledStaysSettled
<1>1. LockIInv => SettledStaysSettled
    BY DEF LockIInv
<1> QED
    BY <1>1, LockInvariant, PTL

\* scheduleChange's answer is a promise: nothing but an operation on the
\* change itself takes it out of the store or of a running process's memory.
THEOREM AcknowledgementIsKept == LockSpec => []AcknowledgedIsDurable
<1>1. LockIInv => AcknowledgedIsDurable
    BY DEF LockIInv, Durable, AcknowledgedIsDurable
<1> QED
    BY <1>1, LockInvariant, PTL

\* The delay is counted from scheduling and survives restarts: a change that
\* getEffectiveChanges returns was scheduled at least Delay before.
THEOREM DelayIsServed == LockSpec => NoChangeIsEarly
<1>1. LockIInv /\ [LockNext]_lockVars =>
          [\A c \in Changes : delivered'[c] # delivered[c] =>
              \E p \in pending : p.change = c /\ clock >= p.createdAt + Delay]_lockVars
    <2> SUFFICES ASSUME LockIInv, [LockNext]_lockVars, NEW c \in Changes, delivered'[c] # delivered[c]
                 PROVE  \E p \in pending : p.change = c /\ clock >= p.createdAt + Delay
        OBVIOUS
    <2>1. PICK outcome \in Outcomes : GetEffectiveChanges(outcome)
        BY DEF LockNext, Operate, ScheduleChange, RevokeChange, ClearAll,
             FlushByAnotherKey, Crash,
           Reboot, TimePasses
    <2>2. PICK p \in pending : Due(p) /\ p.change = c
        BY <2>1 DEF GetEffectiveChanges, Ids
    <2> QED
        BY <2>2 DEF Due, LockIInv, Recorded, Stored
<1> QED
    BY <1>1, LockInvariant, PTL DEF LockSpec, NoChangeIsEarly

-----------------------------------------------------------------------------
(* The audit trail. *)

\* Hashes only grow along the trail, edited or not; a lost record is not in it.
Increasing == \A i, j \in 1 .. Len(Trail) : i < j => Trail[i].hash < Trail[j].hash

Known == \A i \in 1 .. Len(Trail) : Trail[i].hash \in (1 .. hashes) \ lost

\* The writer's memory goes past a line that could not be written.
WriterFollows == chainInitialized /\ ~edited => chainLastHash = hashes

\* A record is lost, in the trail, or older than all that is in the trail.
Accounted ==
    ~edited => \A n \in (1 .. hashes) \ lost :
        \/ \E i \in 1 .. Len(Trail) : Trail[i].hash = n
        \/ dropped > 0 /\ \A i \in 1 .. Len(Trail) : n < Trail[i].hash

\* A rotation comes with a record: a volume nothing follows has missed one.
RotatedIsMissed == ~edited /\ current = <<>> /\ old # <<>> => TailHash(old) < hashes

StartsTheChain == ~edited /\ dropped = 0 /\ lost = {} /\ Trail # <<>> => Trail[1].prev = 0

LogInv ==
    /\ Increasing /\ Known /\ WriterFollows /\ Accounted /\ RotatedIsMissed /\ StartsTheChain
    /\ BreakMeansLoss

\* What was read from the trail is still there, until a volume is dropped.
Committed(a) ==
    /\ a.count > 0 /\ a.tail <= hashes
    /\ dropped = 0 => a.count <= Len(Trail)
    /\ dropped = 0 /\ ~edited => Trail[a.count].hash = a.tail

Commitments ==
    /\ \A i \in DOMAIN anchors : Committed(anchors[i])
    /\ \A i \in DOMAIN sent : Committed(sent[i])
    /\ \A t \in Ticks : ticks[t] # Idle => ticks[t].seen \in Anchor /\ Committed(ticks[t].seen)

\* An altered line has a hash that no anchor before knew of.
AlteredIsNewer == dropped = 0 => \A i \in contradicted : Trail[anchors[i].count].hash > anchors[i].tail

AnchorInv == Commitments /\ AlteredIsNewer

Waits(t) == ticks[t].step = "waiting"

\* In calm there is one tick at most, what is out is its own, and the service
\* knows the last anchor or nothing.
CalmInv == ~disturbed =>
    /\ NoIdleAnchor
    /\ \A t, u \in Ticks : t # u => ticks[t] = Idle \/ ticks[u] = Idle
    /\ sent # <<>> => \E t \in Ticks : Waits(t)
    /\ \A t \in Ticks : Waits(t) =>
          /\ ticks[t].place = Len(anchors) + Len(sent)
          /\ \/ sent = <<>> /\ ticks[t].seen = Latest
             \/ sent = <<ticks[t].seen>> /\ ticks[t].seen # Latest
    /\ \A t \in Ticks : ticks[t].step = "connected" => ticks[t].seen # lastAnchored
    /\ \A t \in Ticks : ticks[t].step = "asked" => ticks[t].known = Latest
    /\ lastAnchored # None /\ (\A t \in Ticks : ~Waits(t)) => lastAnchored = Latest

TrailIInv == AuditTypeOK /\ LogInv /\ AnchorInv /\ CalmInv

-----------------------------------------------------------------------------
(* The two volumes as one sequence. *)

\* Two volumes read one after the other: lengths, places and lines.
LEMMA VolumesAreOne ==
    ASSUME NEW first \in Seq(Line), NEW second \in Seq(Line)
    PROVE  /\ first \o second \in Seq(Line) /\ Len(first) \in Nat /\ Len(second) \in Nat
           /\ Len(first \o second) = Len(first) + Len(second)
           /\ DOMAIN first = 1 .. Len(first) /\ DOMAIN second = 1 .. Len(second)
           /\ DOMAIN (first \o second) = 1 .. Len(first) + Len(second)
           /\ \A i \in 1 .. Len(first) : (first \o second)[i] = first[i] /\ first[i] \in Line
           /\ \A i \in 1 .. Len(second) : (first \o second)[Len(first) + i] = second[i] /\ second[i] \in Line
           /\ \A i \in 1 .. Len(first) + Len(second) : (first \o second)[i] \in Line
           /\ first = <<>> <=> Len(first) = 0
           /\ second = <<>> <=> Len(second) = 0
           /\ first \o second = <<>> <=> Len(first) + Len(second) = 0
<1>1. /\ first \o second \in Seq(Line)
      /\ Len(first \o second) = Len(first) + Len(second)
      /\ \A i \in 1 .. Len(first) + Len(second) :
             (first \o second)[i] = IF i <= Len(first) THEN first[i] ELSE second[i - Len(first)]
    BY ConcatProperties
<1>2. /\ Len(first) \in Nat /\ DOMAIN first = 1 .. Len(first)
      /\ Len(second) \in Nat /\ DOMAIN second = 1 .. Len(second)
      /\ DOMAIN (first \o second) = 1 .. Len(first \o second)
    BY <1>1, LenProperties
<1>3. \A s \in Seq(Line) : s = <<>> <=> Len(s) = 0
    BY EmptySeq
<1>4. ASSUME NEW i \in 1 .. Len(first) PROVE (first \o second)[i] = first[i] /\ first[i] \in Line
    <2>1. first[i] \in Line
        BY ElementOfSeq
    <2>2. i \in 1 .. Len(first) + Len(second) /\ i <= Len(first)
        BY <1>2
    <2> QED
        BY <1>1, <2>1, <2>2
<1>5. ASSUME NEW i \in 1 .. Len(second)
      PROVE  (first \o second)[Len(first) + i] = second[i] /\ second[i] \in Line
    <2>1. second[i] \in Line
        BY ElementOfSeq
    <2>2. /\ Len(first) + i \in 1 .. Len(first) + Len(second) /\ ~(Len(first) + i <= Len(first))
          /\ Len(first) + i - Len(first) = i
        BY <1>2
    <2> QED
        BY <1>1, <2>1, <2>2
<1>6. ASSUME NEW i \in 1 .. Len(first) + Len(second) PROVE (first \o second)[i] \in Line
    BY <1>1, ElementOfSeq
<1> QED
    BY <1>1, <1>2, <1>3, <1>4, <1>5, <1>6

\* Every place of the trail is a line of one of the volumes.
LEMMA TrailIs ==
    ASSUME AuditTypeOK
    PROVE  /\ Trail \in Seq(Line) /\ DOMAIN Trail = 1 .. Len(Trail)
           /\ \A i \in 1 .. Len(Trail) : Trail[i] \in Line
           /\ \A i \in 1 .. Len(old) : Trail[i] = old[i]
           /\ \A i \in 1 .. Len(current) : Trail[Len(old) + i] = current[i]
BY VolumesAreOne DEF AuditTypeOK, Trail

\* The trail is as long as its volumes together.
LEMMA TrailLengths ==
    ASSUME AuditTypeOK
    PROVE  /\ Len(old) \in Nat /\ Len(current) \in Nat /\ Len(Trail) \in Nat
           /\ Len(Trail) = Len(old) + Len(current)
           /\ Trail = <<>> <=> Len(Trail) = 0
           /\ old = <<>> <=> Len(old) = 0
           /\ current = <<>> <=> Len(current) = 0
BY VolumesAreOne DEF AuditTypeOK, Trail

\* The last line of the trail, in whichever volume it is.
LEMMA TailOfTrail ==
    ASSUME AuditTypeOK
    PROVE  /\ current # <<>> => TailHash(current) = Trail[Len(Trail)].hash
           /\ current = <<>> /\ old # <<>> => TailHash(old) = Trail[Len(Trail)].hash
           /\ Trail # <<>> => TailHash(Trail) = Trail[Len(Trail)].hash
BY TrailIs, TrailLengths DEF TailHash

-----------------------------------------------------------------------------
(* A record. *)

Record == [hash |-> hashes + 1, prev |-> ChainHead]

\* What recordAudit is about to write has the form of a line.
LEMMA RecordIsALine ==
    ASSUME AuditTypeOK, hashes < MaxHash
    PROVE  Record \in Line /\ hashes \in Nat /\ Record.hash = hashes + 1 /\ Record.prev = ChainHead
<1>1. hashes \in 0 .. MaxHash /\ chainLastHash \in 0 .. hashes /\ MaxHash \in Nat
    BY TrailAssumption DEF AuditTypeOK
<1>2. TailHash(current) \in 0 .. MaxHash
    <2>1. current # <<>> => Len(current) \in 1 .. Len(current) /\ current[Len(current)] \in Line
        BY TrailIs, ElementOfSeq DEF AuditTypeOK
    <2> QED
        BY <1>1, <2>1 DEF TailHash, Line
<1> QED
    BY <1>1, <1>2 DEF Record, Line, ChainHead

Rotated(first, second) ==
    \/ first = old /\ second = current
    \/ /\ ~(Len(current) < MaxLines)
       /\ \/ first = <<>> /\ second = current
          \/ first = current /\ second = <<>>

Cut(first, second) == Len(Trail) - (Len(first) + Len(second))

\* A rotation drops the first volume or nothing, and never the last line.
LEMMA VolumesCut ==
    ASSUME AuditTypeOK, NEW first, NEW second, Rotated(first, second)
    PROVE  /\ first \in Seq(Line) /\ second \in Seq(Line)
           /\ Cut(first, second) \in 0 .. Len(Trail)
           /\ Cut(first, second) = 0 \/ Cut(first, second) < Len(Trail)
           /\ \A i \in 1 .. Len(Trail) - Cut(first, second) :
                  (first \o second)[i] = Trail[i + Cut(first, second)]
<1> DEFINE cut == Cut(first, second)
<1>0. cut = Len(Trail) - (Len(first) + Len(second))
    BY DEF Cut
<1> HIDE DEF cut
<1>1. old \in Seq(Line) /\ current \in Seq(Line) /\ <<>> \in Seq(Line) /\ Len(<<>>) = 0
    BY EmptySeq DEF AuditTypeOK
<1>2. CASE first = old /\ second = current
    <2>1. first \o second = Trail
        BY <1>2 DEF Trail
    <2>2. cut = 0
        BY <1>0, <1>2, TrailLengths
    <2> QED
        BY <1>1, <1>2, <2>1, <2>2, TrailLengths DEF cut
<1>3. CASE /\ ~(Len(current) < MaxLines)
           /\ \/ first = <<>> /\ second = current
              \/ first = current /\ second = <<>>
    <2>1. first \o second = current
        BY <1>1, <1>3, ConcatEmptySeq
    <2>2. Len(first) \in Nat /\ Len(second) \in Nat /\ Len(first) + Len(second) = Len(current)
        <3>1. CASE first = <<>> /\ second = current
            BY <1>1, <3>1, TrailLengths
        <3>2. CASE first = current /\ second = <<>>
            BY <1>1, <3>2, TrailLengths
        <3> QED
            BY <1>3, <3>1, <3>2
    <2>3. Len(current) > 0
        BY <1>3, TrailLengths, TrailAssumption
    <2>4. cut = Len(old) /\ cut < Len(Trail) /\ Len(Trail) - cut = Len(current)
        BY <1>0, <2>2, <2>3, TrailLengths
    <2>5. first \in Seq(Line) /\ second \in Seq(Line)
        BY <1>1, <1>3
    <2>6. ASSUME NEW i \in 1 .. Len(Trail) - cut PROVE (first \o second)[i] = Trail[i + cut]
        <3>1. i \in 1 .. Len(current) /\ i + cut = Len(old) + i
            BY <2>4, TrailLengths
        <3> QED
            BY <2>1, <3>1, TrailIs
    <2>7. cut \in 0 .. Len(Trail) /\ (cut = 0 \/ cut < Len(Trail))
        BY <2>4, TrailLengths
    <2> QED
        BY <2>5, <2>6, <2>7 DEF cut
<1> QED
    BY <1>2, <1>3 DEF Rotated

\* What a record makes of the trail: lines go at the front, one comes behind.
LEMMA RecordMoves ==
    ASSUME AuditTypeOK, NEW rotation \in Rotations, NEW outcome \in LineOutcomes,
           RecordAudit(rotation, outcome)
    PROVE  \E cut \in 0 .. Len(Trail), added \in 0 .. 1 :
               /\ old' \in Seq(Line) /\ current' \in Seq(Line)
               /\ cut = 0 \/ cut < Len(Trail)
               /\ dropped' = dropped + cut
               /\ Len(Trail') = Len(Trail) - cut + added
               /\ \A i \in 1 .. Len(Trail) - cut : Trail'[i] = Trail[i + cut]
               /\ added = 1 => current' # <<>> /\ Trail'[Len(Trail')] = Record /\ lost' = lost
               /\ added = 0 => lost' = lost \cup {hashes + 1}
<1>1. PICK first, second :
          /\ Rotated(first, second) /\ old' = first /\ hashes < MaxHash
          /\ dropped' = dropped + (Len(old) + Len(current)) - (Len(first) + Len(second))
          /\ \/ outcome = "written" /\ current' = Append(second, Record) /\ lost' = lost
             \/ outcome # "written" /\ current' = second /\ lost' = lost \cup {hashes + 1}
    <2> DEFINE v == Volumes(rotation)
    <2>1. Rotated(v.old, v.current)
        BY DEF Volumes, Rotated
    <2>2. /\ old' = v.old /\ hashes < MaxHash
          /\ dropped' = dropped + (Len(old) + Len(current)) - (Len(v.old) + Len(v.current))
          /\ \/ outcome = "written" /\ current' = Append(v.current, Record) /\ lost' = lost
             \/ outcome # "written" /\ current' = v.current /\ lost' = lost \cup {hashes + 1}
        BY DEF RecordAudit, Record
    <2> HIDE DEF v
    <2> QED
        BY <2>1, <2>2
<1> DEFINE cut == Cut(first, second)
           Moved(added) ==
               /\ old' \in Seq(Line) /\ current' \in Seq(Line)
               /\ cut = 0 \/ cut < Len(Trail)
               /\ dropped' = dropped + cut
               /\ Len(Trail') = Len(Trail) - cut + added
               /\ \A i \in 1 .. Len(Trail) - cut : Trail'[i] = Trail[i + cut]
               /\ added = 1 => current' # <<>> /\ Trail'[Len(Trail')] = Record /\ lost' = lost
               /\ added = 0 => lost' = lost \cup {hashes + 1}
<1>0. cut = Len(Trail) - (Len(first) + Len(second))
    BY DEF Cut
<1>2. /\ first \in Seq(Line) /\ second \in Seq(Line)
      /\ cut \in 0 .. Len(Trail) /\ (cut = 0 \/ cut < Len(Trail))
      /\ \A i \in 1 .. Len(Trail) - cut : (first \o second)[i] = Trail[i + cut]
    BY <1>1, VolumesCut
<1> HIDE DEF Moved, cut
<1>3. /\ hashes < MaxHash /\ old' = first
      /\ dropped' = dropped + (Len(old) + Len(current)) - (Len(first) + Len(second))
      /\ \/ outcome = "written" /\ current' = Append(second, Record) /\ lost' = lost
         \/ outcome # "written" /\ current' = second /\ lost' = lost \cup {hashes + 1}
    BY <1>1
<1>4. /\ Len(first) \in Nat /\ Len(second) \in Nat
      /\ Len(first \o second) = Len(first) + Len(second)
      /\ Len(Trail) - cut = Len(first) + Len(second)
    BY <1>0, <1>2, VolumesAreOne, TrailLengths
<1>5. dropped' = dropped + cut
    BY <1>0, <1>3, <1>4, TrailLengths DEF AuditTypeOK
<1>6. CASE outcome # "written"
    <2>1. Trail' = first \o second
        BY <1>3, <1>6 DEF Trail
    <2>2. Len(Trail') = Len(Trail) - cut + 0
        BY <1>4, <2>1, TrailLengths
    <2>3. Moved(0)
        BY <1>2, <1>3, <1>5, <1>6, <2>1, <2>2 DEF Moved
    <2>4. cut \in 0 .. Len(Trail)
        BY <1>2
    <2> WITNESS cut \in 0 .. Len(Trail), 0 \in 0 .. 1
    <2> QED
        BY <2>3 DEF Moved
<1>7. CASE outcome = "written"
    <2>1. current' = Append(second, Record) /\ Record \in Line
        BY <1>3, <1>7, RecordIsALine
    <2>2. /\ current' \in Seq(Line) /\ current' # <<>> /\ Len(current') = Len(second) + 1
          /\ \A i \in 1 .. Len(second) : current'[i] = second[i]
          /\ current'[Len(second) + 1] = Record
        BY <1>2, <2>1, AppendProperties
    <2>3. Trail' = first \o current'
        BY <1>3 DEF Trail
    <2>4. /\ Len(Trail') = Len(first) + Len(second) + 1
          /\ \A i \in 1 .. Len(first) : Trail'[i] = first[i]
          /\ \A i \in 1 .. Len(second) + 1 : Trail'[Len(first) + i] = current'[i]
        BY <1>2, <1>4, <2>2, <2>3, VolumesAreOne
    <2>5. ASSUME NEW i \in 1 .. Len(Trail) - cut PROVE Trail'[i] = Trail[i + cut]
        <3>1. i \in 1 .. Len(first) + Len(second)
            BY <1>4
        <3>2. CASE i <= Len(first)
            <4>1. i \in 1 .. Len(first)
                BY <1>4, <3>1, <3>2
            <4>2. Trail'[i] = first[i] /\ (first \o second)[i] = first[i]
                BY <1>2, <2>4, <4>1, VolumesAreOne
            <4> QED
                BY <1>2, <4>2
        <3>3. CASE i > Len(first)
            <4> DEFINE k == i - Len(first)
            <4>1. k \in 1 .. Len(second) /\ k \in 1 .. Len(second) + 1 /\ i = Len(first) + k
                BY <1>4, <3>1, <3>3
            <4> HIDE DEF k
            <4>2. Trail'[i] = second[k]
                BY <2>2, <2>4, <4>1
            <4>3. (first \o second)[i] = second[k]
                BY <1>2, <4>1, VolumesAreOne
            <4> QED
                BY <1>2, <4>2, <4>3
        <3> QED
            BY <1>4, <3>1, <3>2, <3>3
    <2>6. Len(Trail') = Len(Trail) - cut + 1
        BY <1>4, <2>4
    <2>7. Trail'[Len(Trail')] = Record
        <3>1. Len(second) + 1 \in 1 .. Len(second) + 1 /\ Len(Trail') = Len(first) + (Len(second) + 1)
            BY <1>4, <2>4
        <3> QED
            BY <2>2, <2>4, <3>1
    <2>8. Moved(1)
        BY <1>2, <1>3, <1>5, <1>7, <2>2, <2>5, <2>6, <2>7 DEF Moved
    <2> QED
        BY <1>2, <2>8 DEF Moved
<1> QED
    BY <1>6, <1>7

\* What a process that stops leaves in the writer's and the service's
\* variables.
LEMMA StopIsTyped ==
    ASSUME AuditTypeOK, Stop
    PROVE  /\ chainLastHash' = 0 /\ chainInitialized' = FALSE /\ lastAnchored' = None
           /\ ticks' \in [Ticks -> [step : {"idle", "connected", "asked", "waiting"},
                                    seen : Anchor \cup {None}, known : Anchor \cup {None}, place : Nat]]
           /\ disturbed' \in BOOLEAN
BY DEF AuditTypeOK, Stop, Idle

\* A record keeps the types, written, lost or cut short.
LEMMA RecordTyped ==
    ASSUME AuditTypeOK, NEW rotation \in Rotations, NEW outcome \in LineOutcomes,
           RecordAudit(rotation, outcome)
    PROVE  AuditTypeOK'
<1>1. PICK cut \in 0 .. Len(Trail), added \in 0 .. 1 :
          /\ old' \in Seq(Line) /\ current' \in Seq(Line)
          /\ dropped' = dropped + cut
          /\ added = 1 => lost' = lost
          /\ added = 0 => lost' = lost \cup {hashes + 1}
    BY RecordMoves
<1>2. /\ hashes' = hashes + 1 /\ hashes \in 0 .. MaxHash /\ hashes < MaxHash /\ MaxHash \in Nat
      /\ UNCHANGED <<anchors, sent, edited, contradicted>>
    BY TrailAssumption DEF RecordAudit, AuditTypeOK, chain
<1>3. /\ chainLastHash' \in 0 .. hashes' /\ chainInitialized' \in BOOLEAN
      /\ lastAnchored' \in Anchor \cup {None}
      /\ ticks' \in [Ticks -> [step : {"idle", "connected", "asked", "waiting"},
                               seen : Anchor \cup {None}, known : Anchor \cup {None}, place : Nat]]
      /\ disturbed' \in BOOLEAN
    <2>1. CASE Stop
        BY <1>2, <2>1, StopIsTyped
    <2>2. CASE /\ chainInitialized' = TRUE /\ chainLastHash' = hashes + 1
               /\ UNCHANGED <<lastAnchored, ticks, disturbed>>
        BY <1>2, <2>2 DEF AuditTypeOK
    <2> QED
        BY <2>1, <2>2 DEF RecordAudit, service
<1>4. lost' \subseteq 1 .. hashes' /\ dropped' \in Nat
    <2>1. added \in {0, 1} /\ lost \subseteq 1 .. hashes /\ dropped \in Nat /\ cut \in Nat
        BY TrailLengths DEF AuditTypeOK
    <2>2. lost' \subseteq lost \cup {hashes + 1}
        BY <1>1, <2>1
    <2> QED
        BY <1>1, <1>2, <2>1, <2>2
<1>5. hashes' \in 0 .. MaxHash
    BY <1>2
<1> QED
    BY <1>1, <1>2, <1>3, <1>4, <1>5 DEF AuditTypeOK

\* A record that is lost or comes behind: the log keeps its order, its gaps
\* are the lost ones, and its breaks are at the gaps.
LEMMA RecordKeepsLog ==
    ASSUME AuditTypeOK, LogInv, NEW rotation \in Rotations, NEW outcome \in LineOutcomes,
           RecordAudit(rotation, outcome)
    PROVE  LogInv'
<1>1. PICK cut \in 0 .. Len(Trail), added \in 0 .. 1 :
          /\ old' \in Seq(Line) /\ current' \in Seq(Line)
          /\ cut = 0 \/ cut < Len(Trail)
          /\ dropped' = dropped + cut
          /\ Len(Trail') = Len(Trail) - cut + added
          /\ \A i \in 1 .. Len(Trail) - cut : Trail'[i] = Trail[i + cut]
          /\ added = 1 => current' # <<>> /\ Trail'[Len(Trail')] = Record /\ lost' = lost
          /\ added = 0 => lost' = lost \cup {hashes + 1}
    BY RecordMoves
<1>2. /\ hashes' = hashes + 1 /\ hashes \in Nat /\ hashes < MaxHash /\ edited' = edited
      /\ lost \subseteq 1 .. hashes /\ dropped \in Nat
    BY TrailAssumption DEF RecordAudit, AuditTypeOK
<1>3. Record.hash = hashes + 1 /\ Record.prev = ChainHead
    BY <1>2, RecordIsALine
<1>4. Len(Trail) \in Nat /\ cut \in Nat /\ Len(Trail) - cut \in Nat
    BY TrailLengths
<1> DEFINE kept == Len(Trail) - cut
<1>5. /\ Len(Trail') = kept + added /\ kept \in Nat
      /\ \A i \in 1 .. kept : Trail'[i] = Trail[i + cut] /\ i + cut \in 1 .. Len(Trail)
      /\ added = 1 => Trail'[kept + 1] = Record
    BY <1>1, <1>4
<1> HIDE DEF kept
<1>6. \A i \in 1 .. Len(Trail) : Trail[i].hash \in 1 .. hashes /\ Trail[i].hash \notin lost
    BY DEF LogInv, Known
<1>7. Increasing'
    <2> SUFFICES ASSUME NEW i \in 1 .. kept + added, NEW j \in 1 .. kept + added, i < j
                 PROVE  Trail'[i].hash < Trail'[j].hash
        BY <1>5 DEF Increasing
    <2>1. i \in 1 .. kept /\ Trail'[i] = Trail[i + cut] /\ i + cut \in 1 .. Len(Trail)
        BY <1>5
    <2>2. CASE j \in 1 .. kept
        <3>1. Trail'[j] = Trail[j + cut] /\ j + cut \in 1 .. Len(Trail) /\ i + cut < j + cut
            BY <1>4, <1>5, <2>2
        <3> QED
            BY <2>1, <3>1 DEF LogInv, Increasing
    <2>3. CASE j \notin 1 .. kept
        <3>1. added = 1 /\ j = kept + 1
            BY <1>5, <2>3
        <3> QED
            BY <1>2, <1>3, <1>5, <1>6, <2>1, <3>1
    <2> QED
        BY <2>2, <2>3
<1>8. Known'
    <2> SUFFICES ASSUME NEW i \in 1 .. kept + added
                 PROVE  Trail'[i].hash \in (1 .. hashes + 1) \ lost'
        BY <1>2, <1>5 DEF Known
    <2>1. CASE i \in 1 .. kept
        <3>1. Trail'[i].hash \in 1 .. hashes /\ Trail'[i].hash \notin lost
            BY <1>5, <1>6, <2>1
        <3>2. lost' \subseteq lost \cup {hashes + 1}
            <4>1. added \in {0, 1}
                OBVIOUS
            <4> QED
                BY <1>1, <4>1
        <3> QED
            BY <1>2, <3>1, <3>2
    <2>2. CASE i \notin 1 .. kept
        BY <1>1, <1>2, <1>3, <1>5, <2>2
    <2> QED
        BY <2>1, <2>2
<1>9. WriterFollows'
    BY <1>2 DEF WriterFollows, RecordAudit, Stop
<1>10. Accounted'
    <2> SUFFICES ASSUME ~edited, NEW n \in (1 .. hashes + 1) \ lost'
                 PROVE  \/ \E i \in 1 .. kept + added : Trail'[i].hash = n
                        \/ dropped' > 0 /\ \A i \in 1 .. kept + added : n < Trail'[i].hash
        BY <1>2, <1>5 DEF Accounted
    <2>1. CASE n = hashes + 1
        BY <1>1, <1>3, <1>5, <2>1
    <2>2. CASE n # hashes + 1
        <3>1. n \in (1 .. hashes) \ lost
            BY <1>1, <1>2, <2>2
        <3>2. CASE \E i \in 1 .. Len(Trail) : Trail[i].hash = n
            <4>1. PICK i \in 1 .. Len(Trail) : Trail[i].hash = n
                BY <3>2
            <4>2. CASE i > cut
                <5>1. i - cut \in 1 .. kept /\ i - cut + cut = i /\ i - cut \in 1 .. kept + added
                    BY <1>4, <4>2 DEF kept
                <5> QED
                    BY <1>5, <4>1, <5>1
            <4>3. CASE i <= cut
                <5>1. dropped' > 0
                    BY <1>1, <1>2, <1>4, <4>3
                <5>2. ASSUME NEW j \in 1 .. kept + added PROVE n < Trail'[j].hash
                    <6>1. CASE j \in 1 .. kept
                        <7>1. Trail'[j] = Trail[j + cut] /\ j + cut \in 1 .. Len(Trail) /\ i < j + cut
                            BY <1>4, <1>5, <4>3, <6>1
                        <7> QED
                            BY <4>1, <7>1 DEF LogInv, Increasing
                    <6>2. CASE j \notin 1 .. kept
                        <7>1. j = kept + 1 /\ added = 1
                            BY <1>5, <6>2
                        <7> QED
                            BY <1>2, <1>3, <1>5, <3>1, <7>1
                    <6> QED
                        BY <6>1, <6>2
                <5> QED
                    BY <5>1, <5>2
            <4> QED
                BY <1>4, <4>2, <4>3
        <3>3. CASE dropped > 0 /\ \A i \in 1 .. Len(Trail) : n < Trail[i].hash
            <4>1. dropped' > 0
                BY <1>1, <1>2, <1>4, <3>3
            <4>2. ASSUME NEW j \in 1 .. kept + added PROVE n < Trail'[j].hash
                <5>1. CASE j \in 1 .. kept
                    BY <1>5, <3>3, <5>1
                <5>2. CASE j \notin 1 .. kept
                    <6>1. j = kept + 1 /\ added = 1
                        BY <1>5, <5>2
                    <6> QED
                        BY <1>2, <1>3, <1>5, <3>1, <6>1
                <5> QED
                    BY <5>1, <5>2
            <4> QED
                BY <4>1, <4>2
        <3> QED
            BY <3>1, <3>2, <3>3 DEF LogInv, Accounted
    <2> QED
        BY <2>1, <2>2
<1>11. AuditTypeOK'
    BY RecordTyped
<1>12. RotatedIsMissed'
    <2> SUFFICES ASSUME ~edited, current' = <<>>, old' # <<>> PROVE TailHash(old') < hashes + 1
        BY <1>2 DEF RotatedIsMissed
    <2>1. Trail' = old' /\ Len(Trail') # 0
        <3>1. old' \o <<>> = old' /\ Len(old') # 0
            BY <1>1, ConcatEmptySeq, EmptySeq
        <3> QED
            BY <3>1 DEF Trail
    <2>2. added \in {0, 1}
        OBVIOUS
    <2>3. added = 0
        BY <1>1, <2>2
    <2>4. Len(Trail') = kept /\ kept \in 1 .. kept
        BY <1>5, <2>1, <2>3
    <2>5. TailHash(old') = Trail'[kept].hash
        BY <2>1, <2>4 DEF TailHash
    <2>6. Trail'[kept] = Trail[kept + cut] /\ kept + cut \in 1 .. Len(Trail)
        BY <1>5, <2>4
    <2>7. Trail[kept + cut].hash \in 1 .. hashes
        BY <1>6, <2>6
    <2> QED
        BY <1>2, <2>5, <2>6, <2>7
<1>13. ASSUME ~edited, Len(Trail) > 0, Trail[Len(Trail)].hash # hashes
       PROVE  Trail[Len(Trail)].hash + 1 \in lost
    <2> DEFINE h == Trail[Len(Trail)].hash
    <2>1. Len(Trail) \in 1 .. Len(Trail)
        BY <1>4, <1>13
    <2>2. h \in 1 .. hashes /\ h # hashes
        BY <1>6, <1>13, <2>1
    <2> HIDE DEF h
    <2>3. ~ \E i \in 1 .. Len(Trail) : Trail[i].hash = h + 1
        <3> SUFFICES ASSUME NEW i \in 1 .. Len(Trail), Trail[i].hash = h + 1 PROVE FALSE
            OBVIOUS
        <3>1. i < Len(Trail) \/ i = Len(Trail)
            BY <1>4
        <3>2. i < Len(Trail) => Trail[i].hash < h
            BY <2>1 DEF LogInv, Increasing, h
        <3>3. i = Len(Trail) => Trail[i].hash = h
            BY DEF h
        <3> QED
            BY <2>2, <3>1, <3>2, <3>3, <1>2
    <2>4. ~ \A i \in 1 .. Len(Trail) : h + 1 < Trail[i].hash
        <3>1. ~(h + 1 < Trail[Len(Trail)].hash)
            BY <2>2, <1>2 DEF h
        <3> QED
            BY <2>1, <3>1
    <2>5. h + 1 \in 1 .. hashes
        BY <1>2, <2>2
    <2>6. h + 1 \in lost
        BY <1>13, <2>3, <2>4, <2>5 DEF LogInv, Accounted
    <2> QED
        BY <2>6 DEF h
<1>14. BreakMeansLoss'
    <2> SUFFICES ASSUME ~edited, NEW i \in 1 .. kept + added - 1, Trail'[i + 1].prev # Trail'[i].hash
                 PROVE  Trail'[i].hash + 1 \in lost'
        BY <1>2, <1>5 DEF BreakMeansLoss, Broken
    <2>1. i \in 1 .. kept /\ Trail'[i] = Trail[i + cut] /\ lost \subseteq lost' /\ added \in {0, 1}
        BY <1>1, <1>5
    <2>2. CASE i + 1 \in 1 .. kept
        <3>1. Trail'[i + 1] = Trail[i + cut + 1] /\ i + cut \in 1 .. Len(Trail) - 1
            <4>1. i + 1 + cut = i + cut + 1 /\ i + cut \in 1 .. Len(Trail) - 1
                BY <1>4, <1>5, <2>1, <2>2
            <4> QED
                BY <1>5, <2>2, <4>1
        <3> QED
            BY <2>1, <3>1 DEF LogInv, BreakMeansLoss, Broken
    <2>3. CASE i + 1 \notin 1 .. kept
        <3>1. i = kept /\ added = 1 /\ i + cut = Len(Trail) /\ Len(Trail) > 0
            BY <1>4, <1>5, <2>1, <2>3 DEF kept
        <3>2. Trail'[i + 1].prev = ChainHead /\ Trail'[i].hash = Trail[Len(Trail)].hash
            BY <1>3, <1>5, <2>1, <3>1
        <3>3. ASSUME Trail[Len(Trail)].hash # hashes PROVE Trail'[i].hash + 1 \in lost'
            BY <1>13, <2>1, <3>1, <3>2, <3>3
        <3>4. CASE chainInitialized
            BY <3>2, <3>3, <3>4 DEF ChainHead, LogInv, WriterFollows
        <3>5. CASE ~chainInitialized /\ current # <<>>
            BY <3>2, <3>5, TailOfTrail DEF ChainHead
        <3>6. CASE ~chainInitialized /\ current = <<>>
            <4>1. old # <<>>
                BY <3>1, <3>6, TrailLengths
            <4>2. Trail[Len(Trail)].hash < hashes
                BY <3>6, <4>1, TailOfTrail DEF LogInv, RotatedIsMissed
            <4> QED
                BY <3>3, <4>2, <1>2
        <3> QED
            BY <3>4, <3>5, <3>6
    <2> QED
        BY <2>2, <2>3
<1>15. StartsTheChain'
    <2> SUFFICES ASSUME ~edited, dropped' = 0, lost' = {}, Trail' # <<>> PROVE Trail'[1].prev = 0
        BY <1>2 DEF StartsTheChain
    <2>1. cut = 0 /\ dropped = 0 /\ added = 1 /\ lost = {} /\ kept = Len(Trail)
        <3>1. cut = 0 /\ dropped = 0
            BY <1>1, <1>2, <1>4
        <3>2. added = 1
            BY <1>1
        <3> QED
            BY <1>1, <1>4, <3>1, <3>2 DEF kept
    <2>2. CASE Len(Trail) > 0
        <3>1. 1 \in 1 .. kept /\ Trail # <<>> /\ 1 + cut = 1
            BY <1>4, <2>1, <2>2, TrailLengths
        <3> QED
            BY <1>5, <2>1, <3>1 DEF LogInv, StartsTheChain
    <2>3. CASE Len(Trail) = 0
        <3>1. Trail'[1].prev = ChainHead
            <4>1. kept + 1 = 1
                BY <2>1, <2>3
            <4> QED
                BY <1>3, <1>5, <2>1, <4>1
        <3>2. hashes = 0
            <4>1. ASSUME hashes > 0 PROVE FALSE
                <5>1. hashes \in (1 .. hashes) \ lost
                    BY <1>2, <2>1, <4>1
                <5>2. \E i \in 1 .. Len(Trail) : Trail[i].hash = hashes
                    BY <2>1, <5>1 DEF LogInv, Accounted
                <5> QED
                    BY <2>3, <5>2
            <4> QED
                BY <1>2, <4>1
        <3>3. current = <<>>
            BY <2>3, TrailLengths
        <3> QED
            BY <3>1, <3>2, <3>3 DEF ChainHead, TailHash, LogInv, WriterFollows
    <2> QED
        BY <1>4, <2>2, <2>3
<1> QED
    BY <1>7, <1>8, <1>9, <1>10, <1>12, <1>14, <1>15 DEF LogInv

-----------------------------------------------------------------------------
(* Anchors, and what the log becomes under them. *)

\* What a step may make of the trail.
TrailGrows ==
    /\ hashes <= hashes'
    /\ dropped' = 0 =>
          /\ dropped = 0 /\ Len(Trail) <= Len(Trail')
          /\ \A i \in 1 .. Len(Trail) : Trail[i].hash <= Trail'[i].hash
          /\ ~edited' => ~edited /\ \A i \in 1 .. Len(Trail) : Trail'[i].hash = Trail[i].hash

\* Anchors, mined or sent, have a tail and a count; None is no anchor.
LEMMA AnchorsAre ==
    ASSUME AuditTypeOK
    PROVE  /\ hashes \in Nat /\ Len(Trail) \in Nat /\ Len(anchors) \in Nat /\ Len(sent) \in Nat
           /\ DOMAIN anchors = 1 .. Len(anchors) /\ DOMAIN sent = 1 .. Len(sent)
           /\ \A i \in DOMAIN anchors : anchors[i] \in Anchor
           /\ \A i \in DOMAIN sent : sent[i] \in Anchor
           /\ \A a \in Anchor : a.count \in Nat /\ a.tail \in Nat /\ a.tail > 0
           /\ anchors = <<>> <=> Len(anchors) = 0
           /\ sent = <<>> <=> Len(sent) = 0
           /\ Latest \in Anchor \cup {None}
           /\ None \notin Anchor
<1>1. /\ hashes \in Nat /\ anchors \in Seq(Anchor) /\ sent \in Seq(Anchor)
    BY DEF AuditTypeOK
<1>2. \A s \in Seq(Anchor) : Len(s) \in Nat /\ DOMAIN s = 1 .. Len(s) /\ (s = <<>> <=> Len(s) = 0)
    BY LenProperties, EmptySeq
<1>3. \A s \in Seq(Anchor) : \A i \in DOMAIN s : s[i] \in Anchor
    BY <1>2, ElementOfSeq
<1>4. \A a \in Anchor : a.count \in Nat /\ a.tail \in Nat /\ a.tail > 0
    BY TrailAssumption DEF Anchor
<1>5. None \notin Anchor
    BY DEF None, Anchor
<1>6. Latest \in Anchor \cup {None}
    <2>1. CASE anchors = <<>>
        BY <2>1 DEF Latest
    <2>2. CASE anchors # <<>>
        <3>1. Len(anchors) \in DOMAIN anchors
            BY <1>1, <1>2, <2>2
        <3> QED
            BY <1>1, <1>3, <2>2, <3>1 DEF Latest
    <2> QED
        BY <2>1, <2>2
<1> QED
    BY <1>1, <1>2, <1>3, <1>4, <1>5, <1>6, TrailLengths

\* A step that only lets the trail grow keeps what an anchor commits to.
LEMMA CommittedKept ==
    ASSUME AuditTypeOK, hashes' \in Nat, Len(Trail') \in Nat, TrailGrows
    PROVE  \A a \in Anchor : Committed(a) => Committed(a)'
<1> SUFFICES ASSUME NEW a \in Anchor, Committed(a) PROVE Committed(a)'
    OBVIOUS
<1>1. a.count \in Nat /\ a.tail \in Nat /\ hashes \in Nat /\ Len(Trail) \in Nat
    BY AnchorsAre
<1>2. a.count > 0 /\ a.tail <= hashes'
    BY <1>1 DEF Committed, TrailGrows
<1>3. dropped' = 0 => a.count \in 1 .. Len(Trail) /\ a.count <= Len(Trail')
    BY <1>1 DEF Committed, TrailGrows
<1>4. dropped' = 0 /\ ~edited' => Trail'[a.count].hash = a.tail
    BY <1>3 DEF Committed, TrailGrows
<1> QED
    BY <1>2, <1>3, <1>4 DEF Committed

\* Steps that send and mine nothing, and let ticks end at most.
LEMMA CommitmentsKept ==
    ASSUME AuditTypeOK, AuditTypeOK', Commitments, TrailGrows, UNCHANGED chain,
           \A t \in Ticks : ticks'[t] = Idle \/ ticks'[t] = ticks[t]
    PROVE  Commitments'
<1>1. hashes' \in Nat /\ Len(Trail') \in Nat
    <2>1. old' \in Seq(Line) /\ current' \in Seq(Line) /\ hashes' \in Nat
        BY DEF AuditTypeOK
    <2>2. Trail' \in Seq(Line)
        BY <2>1, VolumesAreOne DEF Trail
    <2> QED
        BY <2>1, <2>2, LenProperties
<1>2. \A a \in Anchor : Committed(a) => Committed(a)'
    BY <1>1, CommittedKept
<1>3. anchors' = anchors /\ sent' = sent
    BY DEF chain
<1>4. ASSUME NEW i \in DOMAIN anchors' PROVE Committed(anchors[i])'
    <2>1. anchors[i] \in Anchor /\ Committed(anchors[i])
        BY <1>3, AnchorsAre DEF Commitments
    <2> QED
        BY <1>2, <1>3, <2>1 DEF Committed
<1>5. ASSUME NEW i \in DOMAIN sent' PROVE Committed(sent[i])'
    <2>1. sent[i] \in Anchor /\ Committed(sent[i])
        BY <1>3, AnchorsAre DEF Commitments
    <2> QED
        BY <1>2, <1>3, <2>1 DEF Committed
<1>6. ASSUME NEW t \in Ticks, ticks'[t] # Idle PROVE ticks'[t].seen \in Anchor /\ Committed(ticks[t].seen)'
    <2>1. ticks'[t] = ticks[t] /\ ticks[t].seen \in Anchor /\ Committed(ticks[t].seen)
        BY <1>6 DEF Commitments
    <2> QED
        BY <1>2, <2>1 DEF Committed
<1> QED
    BY <1>4, <1>5, <1>6 DEF Commitments, Idle, None

\* A contradicted anchor stays older than the line it names.
LEMMA AlteredKept ==
    ASSUME AuditTypeOK, AuditTypeOK', AnchorInv, TrailGrows, UNCHANGED <<anchors, contradicted>>
    PROVE  AlteredIsNewer'
<1> SUFFICES ASSUME dropped' = 0, NEW i \in contradicted
             PROVE  Trail'[anchors[i].count].hash > anchors[i].tail
    BY DEF AlteredIsNewer
<1> DEFINE a == anchors[i]
<1>1. i \in DOMAIN anchors /\ a \in Anchor /\ Committed(a) /\ a.count \in Nat /\ a.tail \in Nat
    BY AnchorsAre DEF AuditTypeOK, AnchorInv, Commitments
<1>2. a.count \in 1 .. Len(Trail) /\ dropped = 0
    BY <1>1 DEF Committed, TrailGrows
<1>3. Trail[a.count].hash > a.tail /\ Trail[a.count].hash <= Trail'[a.count].hash
    BY <1>1, <1>2 DEF AnchorInv, AlteredIsNewer, TrailGrows
<1> HIDE DEF a
<1>4. Trail[a.count].hash \in Nat /\ Trail'[a.count].hash \in Nat
    <2>1. old' \in Seq(Line) /\ current' \in Seq(Line) /\ Trail' = old' \o current'
        BY DEF AuditTypeOK, Trail
    <2>2. Len(Trail') \in Nat /\ \A k \in 1 .. Len(Trail') : Trail'[k] \in Line
        <3>1. /\ Len(old' \o current') = Len(old') + Len(current')
              /\ Len(old') \in Nat /\ Len(current') \in Nat
              /\ \A k \in 1 .. Len(old') + Len(current') : (old' \o current')[k] \in Line
            BY <2>1, VolumesAreOne
        <3> QED
            BY <2>1, <3>1
    <2>3. a.count \in 1 .. Len(Trail')
        BY <1>1, <1>2, <2>2, TrailLengths DEF TrailGrows
    <2>4. Trail[a.count] \in Line /\ Trail'[a.count] \in Line
        BY <1>2, <2>2, <2>3, TrailIs
    <2> QED
        BY <2>4, TrailAssumption DEF Line
<1>5. Trail'[a.count].hash > a.tail
    BY <1>1, <1>3, <1>4
<1> QED
    BY <1>5 DEF a

\* A record drops a volume, or leaves every line an anchor names in its
\* place.
LEMMA RecordKeepsAnchors ==
    ASSUME AuditTypeOK, AnchorInv, NEW rotation \in Rotations, NEW outcome \in LineOutcomes,
           RecordAudit(rotation, outcome)
    PROVE  AnchorInv'
<1>1. PICK cut \in 0 .. Len(Trail), added \in 0 .. 1 :
          /\ dropped' = dropped + cut
          /\ Len(Trail') = Len(Trail) - cut + added
          /\ \A i \in 1 .. Len(Trail) - cut : Trail'[i] = Trail[i + cut]
    BY RecordMoves
<1>2. TrailGrows
    <2>1. hashes \in Nat /\ hashes' = hashes + 1 /\ edited' = edited /\ dropped \in Nat /\ Len(Trail) \in Nat
        BY TrailLengths DEF AuditTypeOK, RecordAudit
    <2>2. ASSUME dropped' = 0
          PROVE  /\ dropped = 0 /\ Len(Trail) <= Len(Trail')
                 /\ \A i \in 1 .. Len(Trail) : Trail'[i] = Trail[i] /\ Trail[i].hash \in Nat
        <3>1. cut = 0 /\ dropped = 0 /\ added \in Nat
            BY <1>1, <2>1, <2>2
        <3>2. ASSUME NEW i \in 1 .. Len(Trail) PROVE Trail'[i] = Trail[i] /\ Trail[i].hash \in Nat
            <4>1. i \in 1 .. Len(Trail) - cut /\ i + cut = i
                BY <2>1, <3>1
            <4>2. Trail[i] \in Line
                BY TrailIs
            <4> QED
                BY <1>1, <4>1, <4>2, TrailAssumption DEF Line
        <3> QED
            BY <1>1, <2>1, <3>1, <3>2
    <2>3. hashes <= hashes'
        BY <2>1
    <2>4. \A m \in Nat : m <= m
        OBVIOUS
    <2> QED
        BY <2>1, <2>2, <2>3, <2>4 DEF TrailGrows
<1>3. AuditTypeOK'
    BY RecordTyped
<1>4. UNCHANGED chain /\ UNCHANGED <<anchors, contradicted>>
    BY DEF RecordAudit, chain
<1>5. \A t \in Ticks : ticks'[t] = Idle \/ ticks'[t] = ticks[t]
    BY DEF RecordAudit, service, Stop
<1>6. Commitments'
    BY <1>2, <1>3, <1>4, <1>5, CommitmentsKept DEF AnchorInv
<1>7. AlteredIsNewer'
    BY <1>2, <1>3, <1>4, AlteredKept
<1> QED
    BY <1>6, <1>7 DEF AnchorInv

\* Steps that anchor nothing and touch no tick.
LEMMA CalmKept ==
    ASSUME CalmInv, UNCHANGED <<anchors, sent, lastAnchored, ticks, disturbed>>
    PROVE  CalmInv'
BY DEF CalmInv, NoIdleAnchor, Waits, Latest

\* A stop with no transaction out leaves the service as in a new process.
LEMMA CalmOnStop ==
    ASSUME AuditTypeOK, CalmInv, Stop, UNCHANGED chain
    PROVE  CalmInv'
<1> SUFFICES ASSUME ~disturbed'
             PROVE  /\ NoIdleAnchor'
                    /\ \A t, u \in Ticks : t # u => ticks'[t] = Idle \/ ticks'[u] = Idle
                    /\ sent' = <<>>
                    /\ \A t \in Ticks : ticks'[t] = Idle
                    /\ lastAnchored' = None
    BY DEF CalmInv, Waits, Idle
<1>1. ~disturbed /\ sent = <<>> /\ UNCHANGED <<anchors, sent>>
    BY DEF Stop, chain
<1> QED
    BY <1>1 DEF CalmInv, NoIdleAnchor, Stop

\* A record touches the service only by killing the process.
LEMMA RecordKeepsCalm ==
    ASSUME AuditTypeOK, CalmInv, NEW rotation \in Rotations, NEW outcome \in LineOutcomes,
           RecordAudit(rotation, outcome)
    PROVE  CalmInv'
<1>1. CASE Stop
    BY <1>1, CalmOnStop DEF RecordAudit
<1>2. CASE UNCHANGED <<service, disturbed>>
    BY <1>2, CalmKept DEF RecordAudit, chain, service
<1> QED
    BY <1>1, <1>2 DEF RecordAudit

\* The log's own invariant speaks of the files and the writer only; a process
\* that stops forgets where the writer was, but not the files.
LEMMA LogKept ==
    ASSUME LogInv, UNCHANGED <<files, hashes, lost, dropped, edited>>,
           UNCHANGED writer \/ chainInitialized' = FALSE
    PROVE  LogInv'
<1>1. UNCHANGED <<old, current, Trail>>
    BY DEF files, Trail
<1>2. WriterFollows'
    BY DEF LogInv, WriterFollows, writer
<1>3. Increasing' /\ Known' /\ Accounted'
    BY <1>1 DEF LogInv, Increasing, Known, Accounted
<1>4. RotatedIsMissed' /\ StartsTheChain' /\ BreakMeansLoss'
    BY <1>1 DEF LogInv, RotatedIsMissed, StartsTheChain, BreakMeansLoss, Broken, TailHash
<1> QED
    BY <1>2, <1>3, <1>4 DEF LogInv

\* The files as they were: nothing grew.
LEMMA TrailStays ==
    ASSUME AuditTypeOK, UNCHANGED <<files, hashes, dropped, edited>>
    PROVE  TrailGrows
<1>1. UNCHANGED Trail
    BY DEF files, Trail
<1>2. hashes \in Nat /\ Len(Trail) \in Nat
    BY TrailLengths DEF AuditTypeOK
<1>4. \A i \in 1 .. Len(Trail) : Trail[i].hash \in Nat
    <2>1. \A i \in 1 .. Len(Trail) : Trail[i] \in Line
        BY TrailIs
    <2>2. \A l \in Line : l.hash \in Nat
        BY TrailAssumption DEF Line
    <2> QED
        BY <2>1, <2>2
<1>3. \A m \in Nat : m <= m
    OBVIOUS
<1> QED
    BY <1>1, <1>2, <1>3, <1>4 DEF TrailGrows

\* A process stops between records and the next one starts.
LEMMA StopKeeps ==
    ASSUME TrailIInv, StopAndStart
    PROVE  TrailIInv'
<1>1. /\ Stop /\ UNCHANGED <<files, hashes, chain, lost, dropped, edited, contradicted>>
      /\ AuditTypeOK /\ LogInv /\ AnchorInv /\ CalmInv
    BY DEF StopAndStart, TrailIInv
<1>2. AuditTypeOK'
    <2>1. /\ UNCHANGED <<current, old, hashes, anchors, sent, lost, dropped, edited, contradicted>>
          /\ chainLastHash' = 0 /\ 0 \in 0 .. hashes /\ chainInitialized' = FALSE
        BY <1>1 DEF AuditTypeOK, Stop, files, chain
    <2>2. lastAnchored' \in Anchor \cup {None}
        BY <1>1 DEF Stop
    <2>3. /\ ticks' \in [Ticks -> [step : {"idle", "connected", "asked", "waiting"},
                                   seen : Anchor \cup {None}, known : Anchor \cup {None}, place : Nat]]
          /\ disturbed' \in BOOLEAN
        BY <1>1, StopIsTyped
    <2> QED
        BY <1>1, <2>1, <2>2, <2>3 DEF AuditTypeOK
<1>3. LogInv'
    BY <1>1, LogKept DEF Stop
<1>4. TrailGrows
    BY <1>1, TrailStays
<1>5. \A t \in Ticks : ticks'[t] = Idle
    BY <1>1 DEF Stop
<1>6. Commitments'
    BY <1>1, <1>2, <1>4, <1>5, CommitmentsKept DEF AnchorInv
<1>7. AlteredIsNewer'
    BY <1>1, <1>2, <1>4, AlteredKept DEF chain
<1>8. CalmInv'
    BY <1>1, CalmOnStop
<1> QED
    BY <1>2, <1>3, <1>6, <1>7, <1>8 DEF TrailIInv, AnchorInv

-----------------------------------------------------------------------------
(* An altered line. *)

\* The lines before it stay, it and those after it get new hashes.
LEMMA EditMoves ==
    ASSUME AuditTypeOK, NEW k \in DOMAIN Trail, EditLine(k)
    PROVE  /\ old' \in Seq(Line) /\ current' \in Seq(Line)
           /\ k \in 1 .. Len(Trail) /\ Len(Trail') = Len(Trail)
           /\ hashes' = hashes + (Len(Trail) - k) + 1 /\ hashes' <= MaxHash
           /\ \A i \in 1 .. Len(Trail) :
                  Trail'[i].hash = IF i < k THEN Trail[i].hash ELSE hashes + (i - k) + 1
<1> DEFINE n == Len(Trail)
           altered == [i \in 1 .. n |->
               IF i < k THEN Trail[i]
               ELSE [hash |-> hashes + (i - k) + 1,
                     prev |-> IF i = k THEN Trail[k].prev ELSE hashes + (i - k)]]
<1>1. n \in Nat /\ k \in 1 .. n /\ hashes \in Nat /\ MaxHash \in Nat /\ Len(old) \in 0 .. n
    BY TrailIs, TrailLengths, TrailAssumption DEF AuditTypeOK
<1>2. /\ hashes + (n - k) + 1 <= MaxHash /\ hashes' = hashes + (n - k) + 1
      /\ old' = SubSeq(altered, 1, Len(old))
      /\ current' = SubSeq(altered, Len(old) + 1, n)
    BY DEF EditLine
<1>3. ASSUME NEW i \in 1 .. n
      PROVE  altered[i] \in Line /\ altered[i].hash = IF i < k THEN Trail[i].hash ELSE hashes + (i - k) + 1
    <2>1. CASE i < k
        BY <2>1, TrailIs
    <2>2. CASE ~(i < k)
        <3>1. /\ hashes + (i - k) + 1 \in 1 .. MaxHash /\ hashes + (i - k) \in 0 .. MaxHash
            BY <1>1, <1>2, <2>2
        <3>2. Trail[k].prev \in 0 .. MaxHash
            BY <1>1, TrailIs DEF Line
        <3> QED
            BY <2>2, <3>1, <3>2 DEF Line
    <2> QED
        BY <2>1, <2>2
<1>4. DOMAIN altered = 1 .. n /\ altered = [i \in 1 .. n |-> altered[i]]
    OBVIOUS
<1> HIDE DEF altered
<1>5. altered \in [1 .. n -> Line]
    BY <1>3, <1>4
<1>6. altered \in Seq(Line) /\ Len(altered) = n
    <2>1. altered \in Seq(Line)
        BY <1>1, <1>5, SeqDef
    <2> QED
        BY <1>1, <1>4, <2>1, LenProperties
<1>7. old' \in Seq(Line) /\ current' \in Seq(Line)
    <2>1. \A i \in 1 .. Len(old) : altered[i] \in Line
        BY <1>1, <1>3
    <2>2. \A i \in Len(old) + 1 .. n : altered[i] \in Line
        BY <1>1, <1>3
    <2>3. 1 \in Int /\ Len(old) \in Int /\ Len(old) + 1 \in Int /\ n \in Int
        BY <1>1
    <2> QED
        BY <1>2, <2>1, <2>2, <2>3, SubSeqProperties
<1>8. Trail' = altered
    <2>1. /\ 1 \in 1 .. Len(altered) + 1 /\ Len(old) \in 0 .. Len(altered)
          /\ n \in Len(old) .. Len(altered) /\ 1 - 1 = 0
        BY <1>1, <1>6
    <2>2. SubSeq(altered, 1, Len(old)) \o SubSeq(altered, Len(old) + 1, n) = SubSeq(altered, 1, n)
        BY <1>6, <2>1, ConcatAdjacentSubSeq
    <2>3. SubSeq(altered, 1, n) = altered
        BY <1>6, SubSeqFull
    <2> QED
        BY <1>2, <2>2, <2>3 DEF Trail
<1> QED
    BY <1>1, <1>2, <1>3, <1>6, <1>7, <1>8

\* A line altered in place: order and anchors' marks are kept.
LEMMA EditKeeps ==
    ASSUME TrailIInv, NEW k \in DOMAIN Trail, EditLine(k)
    PROVE  TrailIInv'
<1>1. AuditTypeOK /\ LogInv /\ AnchorInv /\ CalmInv
    BY DEF TrailIInv
<1> DEFINE n == Len(Trail)
<1>12. n \in Nat /\ hashes \in Nat
    BY <1>1, TrailLengths DEF AuditTypeOK
<1>13. /\ old' \in Seq(Line) /\ current' \in Seq(Line)
       /\ k \in 1 .. n /\ Len(Trail') = n
       /\ hashes' = hashes + (n - k) + 1 /\ hashes' <= MaxHash
       /\ \A i \in 1 .. n : Trail'[i].hash = IF i < k THEN Trail[i].hash ELSE hashes + (i - k) + 1
    BY <1>1, EditMoves
<1>14. /\ \A i \in 1 .. n : i < k => Trail'[i].hash = Trail[i].hash
       /\ \A i \in 1 .. n : ~(i < k) => Trail'[i].hash = hashes + (i - k) + 1
    BY <1>13
<1> HIDE DEF n
<1>2. /\ old' \in Seq(Line) /\ current' \in Seq(Line)
      /\ k \in 1 .. n /\ Len(Trail') = n /\ n \in Nat
      /\ hashes' = hashes + (n - k) + 1 /\ hashes' <= MaxHash /\ hashes \in Nat
    BY <1>12, <1>13
<1>3. /\ edited' = TRUE /\ contradicted' = contradicted \cup {i \in DOMAIN anchors : anchors[i].count \in k .. n}
      /\ UNCHANGED <<writer, chain, service, lost, dropped, disturbed>>
    BY DEF EditLine, n
<1>4. /\ \A i \in 1 .. n : Trail[i].hash \in 1 .. hashes /\ Trail[i].hash \notin lost
      /\ lost \subseteq 1 .. hashes
    BY <1>1 DEF LogInv, Known, AuditTypeOK, n
<1>5. AuditTypeOK'
    <2>1. hashes' \in 0 .. MaxHash /\ hashes <= hashes'
        BY <1>2, TrailAssumption
    <2>2. chainLastHash' \in 0 .. hashes' /\ lost' \subseteq 1 .. hashes'
        BY <1>1, <1>2, <1>3, <2>1 DEF AuditTypeOK, writer
    <2> QED
        BY <1>1, <1>2, <1>3, <2>1, <2>2 DEF AuditTypeOK, writer, chain, service
<1>6. LogInv'
    <2>1. Increasing'
        <3> SUFFICES ASSUME NEW i \in 1 .. n, NEW j \in 1 .. n, i < j
                     PROVE  Trail'[i].hash < Trail'[j].hash
            BY <1>2 DEF Increasing
        <3>1. CASE j < k
            <4>1. i < k /\ Trail[i].hash < Trail[j].hash
                BY <1>1, <1>2, <3>1 DEF LogInv, Increasing, n
            <4> QED
                BY <1>14, <3>1, <4>1
        <3>2. CASE ~(j < k) /\ i < k
            <4>1. Trail'[i].hash \in 1 .. hashes /\ Trail'[j].hash = hashes + (j - k) + 1
                BY <1>4, <1>14, <3>2
            <4> QED
                BY <1>2, <3>2, <4>1
        <3>3. CASE ~(i < k)
            <4>0. ~(i < k) /\ ~(j < k)
                BY <1>2, <3>3
            <4>1. Trail'[i].hash = hashes + (i - k) + 1 /\ Trail'[j].hash = hashes + (j - k) + 1
                BY <1>14, <4>0
            <4> QED
                BY <1>2, <4>1
        <3> QED
            BY <1>2, <3>1, <3>2, <3>3
    <2>2. Known'
        <3> SUFFICES ASSUME NEW i \in 1 .. n PROVE Trail'[i].hash \in (1 .. hashes') \ lost
            BY <1>2, <1>3 DEF Known
        <3>1. CASE i < k
            <4>1. Trail'[i].hash \in 1 .. hashes /\ Trail'[i].hash \notin lost
                BY <1>4, <1>14, <3>1
            <4> QED
                BY <1>2, <4>1
        <3>2. CASE ~(i < k)
            <4>1. Trail'[i].hash = hashes + (i - k) + 1
                BY <1>14, <3>2
            <4> QED
                BY <1>2, <1>4, <3>2, <4>1
        <3> QED
            BY <3>1, <3>2
    <2> QED
        BY <1>3, <2>1, <2>2
        DEF LogInv, WriterFollows, Accounted, RotatedIsMissed, StartsTheChain, BreakMeansLoss
<1>7. ASSUME NEW i \in 1 .. n
      PROVE  Trail[i].hash <= Trail'[i].hash /\ Trail[i].hash \in Nat /\ Trail'[i].hash \in Nat
    <2>1. CASE i < k
        BY <1>2, <1>4, <1>14, <2>1
    <2>2. CASE ~(i < k)
        <3>1. Trail'[i].hash = hashes + (i - k) + 1 /\ Trail[i].hash \in 1 .. hashes
            BY <1>4, <1>14, <2>2
        <3>2. hashes \in Nat /\ i - k \in Nat
            BY <1>2, <2>2
        <3> QED
            BY <3>1, <3>2
    <2> QED
        BY <2>1, <2>2
<1>8. TrailGrows
    BY <1>2, <1>3, <1>7 DEF TrailGrows, n
<1>9. Commitments'
    BY <1>1, <1>3, <1>5, <1>8, CommitmentsKept DEF AnchorInv, service
<1>10. AlteredIsNewer'
    <2> SUFFICES ASSUME dropped = 0, NEW i \in contradicted'
                 PROVE  Trail'[anchors[i].count].hash > anchors[i].tail
        BY <1>3 DEF AlteredIsNewer, chain
    <2> DEFINE a == anchors[i]
    <2>1. i \in DOMAIN anchors /\ a \in Anchor /\ Committed(a) /\ a.count \in Nat /\ a.tail \in Nat
        BY <1>1, <1>3, AnchorsAre DEF AuditTypeOK, AnchorInv, Commitments
    <2>2. a.count \in 1 .. n /\ a.tail <= hashes
        BY <1>2, <2>1 DEF Committed, n
    <2>3. CASE a.count \in k .. n
        <3>0. ~(a.count < k)
            BY <1>2, <2>1, <2>3
        <3>1. Trail'[a.count].hash = hashes + (a.count - k) + 1
            BY <1>14, <2>2, <3>0
        <3> QED
            BY <1>2, <2>1, <2>2, <2>3, <3>1
    <2>4. CASE i \in contradicted
        <3>1. Trail[a.count].hash > a.tail
            BY <1>1, <2>4 DEF AnchorInv, AlteredIsNewer
        <3>2. /\ Trail[a.count].hash <= Trail'[a.count].hash
              /\ Trail[a.count].hash \in Nat /\ Trail'[a.count].hash \in Nat
            BY <1>7, <2>2
        <3> QED
            BY <2>1, <3>1, <3>2
    <2> QED
        BY <1>3, <2>3, <2>4
<1>11. CalmInv'
    BY <1>1, <1>3, CalmKept DEF chain, service
<1> QED
    BY <1>5, <1>6, <1>9, <1>10, <1>11 DEF TrailIInv, AnchorInv

-----------------------------------------------------------------------------
(* The anchor service and the chain leave the log alone. *)

\* A step of the service or the chain keeps the log's invariant, and the
\* anchors' when what is new commits to a line.
LEMMA TickFrame ==
    ASSUME TrailIInv,
           UNCHANGED <<writer, files, hashes, lost, dropped, edited, contradicted>>,
           \A i \in contradicted : anchors'[i] = anchors[i],
           \A i \in DOMAIN anchors' : Committed(anchors'[i]),
           \A i \in DOMAIN sent' : Committed(sent'[i]),
           \A u \in Ticks : ticks'[u] = Idle \/ (ticks'[u].seen \in Anchor /\ Committed(ticks'[u].seen))
    PROVE  LogInv' /\ AnchorInv'
<1>1. LogInv'
    BY LogKept DEF TrailIInv
<1>2. Trail' = Trail
    BY DEF Trail, files
<1>3. Commitments'
    BY <1>2 DEF Commitments, Committed, Idle, None
<1>4. AlteredIsNewer'
    BY <1>2 DEF TrailIInv, AnchorInv, AlteredIsNewer
<1> QED
    BY <1>1, <1>3, <1>4 DEF AnchorInv

\* What the service reads commits to the last line.
LEMMA TailCommitted ==
    ASSUME AuditTypeOK, LogInv, Anchorable
    PROVE  TailNow \in Anchor /\ Committed(TailNow)
<1>1. /\ Len(Trail) \in Nat /\ Len(Trail) > 0 /\ Len(Trail) \in 1 .. Len(Trail)
      /\ TailNow.tail = Trail[Len(Trail)].hash /\ TailNow.count = Len(Trail)
    BY TrailLengths, TailOfTrail DEF Anchorable, TailNow
<1>2. Trail[Len(Trail)].hash \in 1 .. hashes
    BY <1>1 DEF LogInv, Known
<1>3. hashes \in 0 .. MaxHash /\ MaxHash \in Nat
    BY TrailAssumption DEF AuditTypeOK
<1>4. Trail[Len(Trail)].hash \in 1 .. MaxHash /\ Trail[Len(Trail)].hash <= hashes
    BY <1>2, <1>3
<1>5. TailNow \in Anchor
    BY <1>1, <1>4 DEF TailNow, Anchor
<1> QED
    BY <1>1, <1>4, <1>5 DEF Committed

\* While nothing was disturbed, the tick at work is the only one.
LEMMA OnlyTick ==
    ASSUME CalmInv, ~disturbed, NEW t \in Ticks, ticks[t] # Idle
    PROVE  /\ \A u \in Ticks : u # t => ticks[u] = Idle /\ ~Waits(u)
           /\ ~Waits(t) => sent = <<>>
<1>1. \A u \in Ticks : u # t => ticks[u] = Idle
    BY DEF CalmInv
<1>2. \A u \in Ticks : ticks[u] = Idle => ~Waits(u)
    BY DEF Waits, Idle
<1> QED
    BY <1>1, <1>2 DEF CalmInv

TickRecords == [step : {"idle", "connected", "asked", "waiting"},
                seen : Anchor \cup {None}, known : Anchor \cup {None}, place : Nat]

\* Every tick is a record of its step.
LEMMA TicksAre ==
    ASSUME AuditTypeOK
    PROVE  /\ ticks \in [Ticks -> TickRecords]
           /\ \A t \in Ticks : ticks[t] \in TickRecords
           /\ Idle \in TickRecords
BY DEF AuditTypeOK, TickRecords, Idle

\* A step of tick t that leaves the files, the chain and the marks alone.
LEMMA TickTyped ==
    ASSUME AuditTypeOK,
           UNCHANGED <<writer, files, hashes, lost, dropped, edited, contradicted, anchors>>,
           sent' \in Seq(Anchor), lastAnchored' \in Anchor \cup {None},
           ticks' \in [Ticks -> TickRecords], disturbed' \in BOOLEAN
    PROVE  AuditTypeOK'
BY DEF AuditTypeOK, TickRecords, writer, files

\* A tick starts alone, or is an overlap.
LEMMA StartKeeps ==
    ASSUME TrailIInv, NEW t \in Ticks, TickStarts(t)
    PROVE  TrailIInv'
<1>1. AuditTypeOK /\ LogInv /\ AnchorInv /\ CalmInv
    BY DEF TrailIInv
<1> DEFINE new == [step |-> "connected", seen |-> TailNow, known |-> None, place |-> 0]
<1>2. /\ ticks[t] = Idle /\ (lastAnchored = None \/ lastAnchored # TailNow)
      /\ ticks' = [ticks EXCEPT ![t] = new]
      /\ disturbed' = (disturbed \/ \E other \in Ticks : ticks[other] # Idle)
      /\ UNCHANGED <<writer, files, hashes, anchors, sent, lastAnchored, lost, dropped, edited, contradicted>>
    BY DEF TickStarts, chain
<1>3. TailNow \in Anchor /\ Committed(TailNow)
    BY <1>1, TailCommitted DEF TickStarts
<1>4. new \in TickRecords /\ new.seen = TailNow /\ new.step = "connected"
    BY <1>3 DEF TickRecords
<1> HIDE DEF new
<1>5. /\ ticks' \in [Ticks -> TickRecords] /\ ticks'[t] = new
      /\ \A u \in Ticks : u # t => ticks'[u] = ticks[u]
    BY <1>1, <1>2, <1>4, TicksAre
<1>6. AuditTypeOK'
    BY <1>1, <1>2, <1>5, TickTyped DEF AuditTypeOK
<1>7. LogInv' /\ AnchorInv'
    BY <1>1, <1>2, <1>3, <1>4, <1>5, TickFrame DEF TrailIInv, AnchorInv, Commitments, AuditTypeOK
<1>8. CalmInv'
    <2> SUFFICES ASSUME ~disturbed' PROVE CalmInv'
        BY DEF CalmInv
    <2>1. ~disturbed /\ \A u \in Ticks : ticks[u] = Idle
        BY <1>2
    <2>2. \A u \in Ticks : ~Waits(u)
        BY <2>1 DEF Waits, Idle
    <2>3. sent = <<>>
        BY <1>1, <2>1, <2>2 DEF CalmInv
    <2>4. \A u \in Ticks : ticks'[u].step # "waiting" /\ ticks'[u].step # "asked"
        BY <1>4, <1>5, <2>1 DEF Idle
    <2>5. \A u \in Ticks : ticks'[u].step = "connected" => ticks'[u].seen # lastAnchored
        <3>1. TailNow # lastAnchored
            BY <1>1, <1>2, <1>3, AnchorsAre
        <3> QED
            BY <1>4, <1>5, <2>1, <3>1 DEF Idle
    <2>6. lastAnchored # None => lastAnchored = Latest
        BY <1>1, <2>1, <2>2 DEF CalmInv
    <2>7. NoIdleAnchor' /\ Latest' = Latest
        BY <1>1, <1>2, <2>1 DEF CalmInv, NoIdleAnchor, Latest
    <2>8. \A u, v \in Ticks : u # v => ticks'[u] = Idle \/ ticks'[v] = Idle
        BY <1>5, <2>1
    <2> QED
        BY <1>2, <2>3, <2>4, <2>5, <2>6, <2>7, <2>8 DEF CalmInv, Waits
<1> QED
    BY <1>6, <1>7, <1>8 DEF TrailIInv

\* The first tick of a process learns the latest anchor, or the call failed.
LEMMA AskKeeps ==
    ASSUME TrailIInv, NEW t \in Ticks, TickAsks(t)
    PROVE  TrailIInv'
<1>1. AuditTypeOK /\ LogInv /\ AnchorInv /\ CalmInv
    BY DEF TrailIInv
<1>2. /\ ticks[t].step = "connected" /\ lastAnchored = None
      /\ UNCHANGED <<writer, files, hashes, anchors, sent, lastAnchored, lost, dropped, edited, contradicted>>
    BY DEF TickAsks, chain
<1>3. PICK new \in TickRecords :
          /\ new.step = "asked" /\ new.seen = ticks[t].seen /\ ticks' = [ticks EXCEPT ![t] = new]
          /\ \/ new.known = Latest /\ disturbed' = disturbed
             \/ disturbed' = TRUE
    <2>1. ticks[t] \in TickRecords /\ Latest \in Anchor \cup {None} /\ ticks \in [Ticks -> TickRecords]
        BY <1>1, TicksAre, AnchorsAre
    <2>2. CASE ticks' = [ticks EXCEPT ![t].step = "asked", ![t].known = Latest] /\ disturbed' = disturbed
        <3> DEFINE new == [ticks[t] EXCEPT !.step = "asked", !.known = Latest]
        <3>1. new \in TickRecords /\ new.step = "asked" /\ new.seen = ticks[t].seen /\ new.known = Latest
            BY <2>1 DEF TickRecords
        <3>2. ticks' = [ticks EXCEPT ![t] = new]
            BY <2>1, <2>2
        <3> QED
            BY <2>2, <3>1, <3>2
    <2>3. CASE ticks' = [ticks EXCEPT ![t].step = "asked"] /\ disturbed' = TRUE
        <3> DEFINE new == [ticks[t] EXCEPT !.step = "asked"]
        <3>1. new \in TickRecords /\ new.step = "asked" /\ new.seen = ticks[t].seen
            BY <2>1 DEF TickRecords
        <3>2. ticks' = [ticks EXCEPT ![t] = new]
            BY <2>1, <2>3
        <3> QED
            BY <2>3, <3>1, <3>2
    <2> QED
        BY <2>2, <2>3 DEF TickAsks
<1>4. /\ ticks' \in [Ticks -> TickRecords] /\ ticks'[t] = new
      /\ \A u \in Ticks : u # t => ticks'[u] = ticks[u]
    BY <1>1, <1>3, TicksAre
<1>5. ticks[t] # Idle
    BY <1>2 DEF Idle
<1>6. AuditTypeOK'
    BY <1>1, <1>2, <1>3, <1>4, TickTyped DEF AuditTypeOK
<1>7. LogInv' /\ AnchorInv'
    BY <1>1, <1>2, <1>3, <1>4, <1>5, TickFrame DEF TrailIInv, AnchorInv, Commitments, AuditTypeOK
<1>8. CalmInv'
    <2> SUFFICES ASSUME ~disturbed' PROVE CalmInv'
        BY DEF CalmInv
    <2>1. ~disturbed /\ new.known = Latest
        BY <1>3
    <2>2. \A u \in Ticks : u # t => ticks[u] = Idle /\ ticks'[u] = Idle
        BY <1>1, <1>4, <1>5, <2>1, OnlyTick
    <2>3. sent = <<>>
        BY <1>1, <1>2, <1>5, <2>1, OnlyTick DEF Waits
    <2>4. \A u \in Ticks : ticks'[u].step # "waiting" /\ ticks'[u].step # "connected"
        BY <1>3, <1>4, <2>2 DEF Idle
    <2>5. \A u \in Ticks : ticks'[u].step = "asked" => ticks'[u].known = Latest
        BY <1>4, <2>1, <2>2 DEF Idle
    <2>7. NoIdleAnchor' /\ Latest' = Latest
        BY <1>1, <1>2, <2>1 DEF CalmInv, NoIdleAnchor, Latest
    <2>8. \A u, v \in Ticks : u # v => ticks'[u] = Idle \/ ticks'[v] = Idle
        BY <2>2
    <2> QED
        BY <1>2, <2>3, <2>4, <2>5, <2>7, <2>8 DEF CalmInv, Waits
<1> QED
    BY <1>6, <1>7, <1>8 DEF TrailIInv

\* A tick that ends with the last anchor in mind: it was found on chain, or mined.
LEMMA EndKeeps ==
    ASSUME TrailIInv, NEW t \in Ticks, TickAligns(t) \/ TickConfirmed(t)
    PROVE  TrailIInv'
<1>1. AuditTypeOK /\ LogInv /\ AnchorInv /\ CalmInv
    BY DEF TrailIInv
<1>2. /\ lastAnchored' = ticks[t].seen /\ ticks' = [ticks EXCEPT ![t] = Idle] /\ ticks[t] # Idle
      /\ UNCHANGED <<writer, files, hashes, anchors, sent, lost, dropped, edited, contradicted, disturbed>>
    BY DEF TickAligns, TickConfirmed, chain, auditHistory, Idle
<1>4. /\ ticks' \in [Ticks -> TickRecords] /\ ticks'[t] = Idle
      /\ \A u \in Ticks : u # t => ticks'[u] = ticks[u]
    BY <1>1, <1>2, TicksAre
<1>5. lastAnchored' \in Anchor
    BY <1>1, <1>2 DEF AnchorInv, Commitments
<1>6. AuditTypeOK'
    BY <1>1, <1>2, <1>4, <1>5, TickTyped DEF AuditTypeOK
<1>7. LogInv' /\ AnchorInv'
    BY <1>1, <1>2, <1>4, TickFrame DEF TrailIInv, AnchorInv, Commitments, AuditTypeOK
<1>8. CalmInv'
    <2> SUFFICES ASSUME ~disturbed' PROVE CalmInv'
        BY DEF CalmInv
    <2>1. ~disturbed
        BY <1>2
    <2>2. \A u \in Ticks : ticks'[u] = Idle
        BY <1>1, <1>2, <1>4, <2>1, OnlyTick
    <2>3. sent = <<>> /\ ticks[t].seen = Latest
        <3>1. CASE TickAligns(t)
            <4>1. ticks[t].step = "asked" /\ ticks[t].known = ticks[t].seen
                BY <3>1 DEF TickAligns, Aligned
            <4>2. sent = <<>>
                BY <1>1, <1>2, <2>1, <4>1, OnlyTick DEF Waits
            <4>3. ticks[t].known = Latest
                BY <1>1, <2>1, <4>1 DEF CalmInv
            <4> QED
                BY <4>1, <4>2, <4>3
        <3>2. CASE TickConfirmed(t)
            <4>1. Waits(t) /\ ticks[t].place <= Len(anchors)
                BY <3>2 DEF TickConfirmed, Waits
            <4>2. ticks[t].place = Len(anchors) + Len(sent)
                BY <1>1, <2>1, <4>1 DEF CalmInv
            <4>3. sent = <<>>
                BY <1>1, <4>1, <4>2, AnchorsAre
            <4>4. \A a : sent # <<a>>
                BY <4>3
            <4> QED
                BY <1>1, <2>1, <4>1, <4>3, <4>4 DEF CalmInv
        <3> QED
            BY <3>1, <3>2
    <2>4. \A u \in Ticks : ticks'[u].step = "idle"
        BY <2>2 DEF Idle
    <2>7. NoIdleAnchor' /\ Latest' = Latest
        BY <1>1, <1>2, <2>1 DEF CalmInv, NoIdleAnchor, Latest
    <2> QED
        BY <1>2, <2>2, <2>3, <2>4, <2>7 DEF CalmInv, Waits
<1> QED
    BY <1>6, <1>7, <1>8 DEF TrailIInv

\* A tick that fails is a disturbance.
LEMMA FailKeeps ==
    ASSUME TrailIInv, NEW t \in Ticks, TickFails(t)
    PROVE  TrailIInv'
<1>1. AuditTypeOK /\ LogInv /\ AnchorInv /\ CalmInv
    BY DEF TrailIInv
<1>2. /\ ticks' = [ticks EXCEPT ![t] = Idle] /\ disturbed' = TRUE
      /\ UNCHANGED <<writer, files, hashes, anchors, sent, lastAnchored, lost, dropped, edited, contradicted>>
    BY DEF TickFails, chain
<1>4. /\ ticks' \in [Ticks -> TickRecords] /\ ticks'[t] = Idle
      /\ \A u \in Ticks : u # t => ticks'[u] = ticks[u]
    BY <1>1, <1>2, TicksAre
<1>6. AuditTypeOK'
    BY <1>1, <1>2, <1>4, TickTyped DEF AuditTypeOK
<1>7. LogInv' /\ AnchorInv'
    BY <1>1, <1>2, <1>4, TickFrame DEF TrailIInv, AnchorInv, Commitments, AuditTypeOK
<1>8. CalmInv'
    BY <1>2 DEF CalmInv
<1> QED
    BY <1>6, <1>7, <1>8 DEF TrailIInv

\* In calm only a tail that differs from the latest anchor is sent, and
\* nothing else is out.
LEMMA SendKeeps ==
    ASSUME TrailIInv, NEW t \in Ticks, TickSends(t)
    PROVE  TrailIInv'
<1>1. AuditTypeOK /\ LogInv /\ AnchorInv /\ CalmInv
    BY DEF TrailIInv
<1> DEFINE a == ticks[t].seen
<1>2. /\ \/ ticks[t].step = "connected" /\ lastAnchored # None
         \/ ticks[t].step = "asked" /\ ticks[t].known # a
      /\ sent' = Append(sent, a)
      /\ UNCHANGED <<writer, files, hashes, anchors, lastAnchored, lost, dropped, edited, contradicted, disturbed>>
    BY DEF TickSends, Aligned, auditHistory
<1>3. ticks[t] # Idle /\ ticks[t].step # "waiting"
    BY <1>2 DEF Idle
<1>4. a \in Anchor /\ Committed(a)
    BY <1>1, <1>3 DEF AnchorInv, Commitments
<1>5. PICK new \in TickRecords :
          /\ new.step = "waiting" /\ new.seen = a /\ new.place = Len(anchors) + Len(sent) + 1
          /\ ticks' = [ticks EXCEPT ![t] = new]
    <2> DEFINE new == [ticks[t] EXCEPT !.step = "waiting", !.place = Len(anchors) + Len(sent) + 1]
    <2>1. ticks[t] \in TickRecords /\ ticks \in [Ticks -> TickRecords] /\ Len(anchors) + Len(sent) + 1 \in Nat
        BY <1>1, TicksAre, AnchorsAre
    <2>2. new \in TickRecords /\ new.step = "waiting" /\ new.seen = a /\ new.place = Len(anchors) + Len(sent) + 1
        BY <2>1 DEF TickRecords
    <2>3. ticks' = [ticks EXCEPT ![t] = new]
        BY <2>1 DEF TickSends
    <2> QED
        BY <2>2, <2>3
<1>6. /\ ticks' \in [Ticks -> TickRecords] /\ ticks'[t] = new
      /\ \A u \in Ticks : u # t => ticks'[u] = ticks[u]
    BY <1>1, <1>5, TicksAre
<1> HIDE DEF a
<1>7. /\ sent' \in Seq(Anchor) /\ Len(sent') = Len(sent) + 1 /\ DOMAIN sent' = 1 .. Len(sent) + 1
      /\ \A i \in 1 .. Len(sent) : sent'[i] = sent[i]
      /\ sent'[Len(sent) + 1] = a
    <2>1. sent \in Seq(Anchor)
        BY <1>1 DEF AuditTypeOK
    <2>2. /\ sent' \in Seq(Anchor) /\ Len(sent') = Len(sent) + 1
          /\ \A i \in 1 .. Len(sent) : sent'[i] = sent[i]
          /\ sent'[Len(sent) + 1] = a
        BY <1>2, <1>4, <2>1, AppendProperties
    <2> QED
        BY <2>2, LenProperties
<1>8. \A i \in DOMAIN sent' : Committed(sent'[i])
    <2> SUFFICES ASSUME NEW i \in DOMAIN sent' PROVE Committed(sent'[i])
        OBVIOUS
    <2>1. CASE i \in 1 .. Len(sent)
        <3>1. Committed(sent[i])
            BY <1>1, <2>1, AnchorsAre DEF AnchorInv, Commitments
        <3> QED
            BY <1>7, <2>1, <3>1
    <2>2. CASE i = Len(sent) + 1
        BY <1>4, <1>7, <2>2
    <2> QED
        BY <1>1, <1>7, <2>1, <2>2, AnchorsAre
<1>9. AuditTypeOK'
    BY <1>1, <1>2, <1>6, <1>7, TickTyped DEF AuditTypeOK
<1>10. LogInv' /\ AnchorInv'
    <2>1. \A i \in DOMAIN anchors' : Committed(anchors'[i])
        BY <1>1, <1>2 DEF AnchorInv, Commitments
    <2>2. \A u \in Ticks : ticks'[u] = Idle \/ (ticks'[u].seen \in Anchor /\ Committed(ticks'[u].seen))
        BY <1>1, <1>4, <1>5, <1>6 DEF AnchorInv, Commitments
    <2> QED
        BY <1>2, <1>8, <2>1, <2>2, TickFrame
<1>11. CalmInv'
    <2> SUFFICES ASSUME ~disturbed' PROVE CalmInv'
        BY DEF CalmInv
    <2>1. ~disturbed
        BY <1>2
    <2>2. /\ \A u \in Ticks : u # t => ticks[u] = Idle /\ ticks'[u] = Idle /\ ~Waits(u)
          /\ sent = <<>> /\ ~Waits(t)
        BY <1>1, <1>3, <1>6, <2>1, OnlyTick DEF Waits
    <2>3. a # Latest
        <3>1. CASE ticks[t].step = "connected" /\ lastAnchored # None
            <4>1. \A u \in Ticks : ~Waits(u)
                BY <2>2
            <4>2. lastAnchored = Latest
                BY <1>1, <2>1, <3>1, <4>1 DEF CalmInv
            <4>3. ticks[t].seen # lastAnchored
                BY <1>1, <2>1, <3>1 DEF CalmInv
            <4> QED
                BY <4>2, <4>3 DEF a
        <3>2. CASE ticks[t].step = "asked" /\ ticks[t].known # a
            BY <1>1, <2>1, <3>2 DEF CalmInv
        <3> QED
            BY <1>2, <3>1, <3>2
    <2>4. NoIdleAnchor' /\ Latest' = Latest
        BY <1>1, <1>2, <2>1 DEF CalmInv, NoIdleAnchor, Latest
    <2>5. \A u, v \in Ticks : u # v => ticks'[u] = Idle \/ ticks'[v] = Idle
        BY <2>2
    <2>6. Waits(t)' /\ \A u \in Ticks : ticks'[u].step # "connected" /\ ticks'[u].step # "asked"
        BY <1>5, <1>6, <2>2 DEF Waits, Idle
    <2>7. ASSUME NEW u \in Ticks, ticks'[u].step = "waiting"
          PROVE  ticks'[u].place = Len(anchors') + Len(sent') /\ sent' = <<ticks'[u].seen>> /\ ticks'[u].seen # Latest
        <3>1. u = t
            BY <2>2, <2>7 DEF Idle
        <3>2. Len(anchors') = Len(anchors) /\ Len(sent) = 0 /\ Len(anchors) \in Nat
            BY <1>1, <1>2, <2>2, AnchorsAre
        <3>3. ticks'[u].place = Len(anchors') + Len(sent')
            BY <1>5, <1>6, <1>7, <3>1, <3>2
        <3>4. sent' = <<a>>
            BY <1>2, <2>2
        <3> QED
            BY <1>5, <1>6, <2>3, <3>1, <3>3, <3>4
    <2> QED
        BY <2>4, <2>5, <2>6, <2>7 DEF CalmInv, Waits
<1> QED
    BY <1>9, <1>10, <1>11 DEF TrailIInv

\* In calm the transaction mined differs from the anchor before it.
LEMMA MineKeeps ==
    ASSUME TrailIInv, Mine
    PROVE  TrailIInv'
<1>1. AuditTypeOK /\ LogInv /\ AnchorInv /\ CalmInv
    BY DEF TrailIInv
<1> DEFINE a == Head(sent)
<1>2. /\ sent # <<>> /\ anchors' = Append(anchors, a) /\ sent' = Tail(sent)
      /\ UNCHANGED <<writer, files, hashes, lastAnchored, ticks, lost, dropped, edited, contradicted, disturbed>>
    BY DEF Mine, service, auditHistory
<1>3. /\ sent \in Seq(Anchor) /\ anchors \in Seq(Anchor)
      /\ contradicted \subseteq DOMAIN anchors
    BY <1>1 DEF AuditTypeOK
<1>4. a = sent[1] /\ 1 \in DOMAIN sent /\ a \in Anchor /\ Committed(a)
    <2>1. 1 \in DOMAIN sent
        BY <1>1, <1>2, AnchorsAre
    <2>2. a = sent[1] /\ a \in Anchor
        BY <1>2, <1>3, HeadTailProperties
    <2> QED
        BY <1>1, <2>1, <2>2 DEF AnchorInv, Commitments
<1>5. /\ sent' \in Seq(Anchor) /\ DOMAIN sent' = 1 .. Len(sent) - 1
      /\ \A i \in 1 .. Len(sent) - 1 : sent'[i] = sent[i + 1]
    <2>1. /\ sent' \in Seq(Anchor) /\ Len(sent') = Len(sent) - 1
          /\ \A i \in 1 .. Len(sent') : sent'[i] = sent[i + 1]
        BY <1>2, <1>3, HeadTailProperties
    <2> QED
        BY <2>1, LenProperties
<1> HIDE DEF a
<1>6. /\ anchors' \in Seq(Anchor) /\ Len(anchors') = Len(anchors) + 1 /\ DOMAIN anchors' = 1 .. Len(anchors) + 1
      /\ \A i \in 1 .. Len(anchors) : anchors'[i] = anchors[i]
      /\ anchors'[Len(anchors) + 1] = a
    <2>1. /\ anchors' \in Seq(Anchor) /\ Len(anchors') = Len(anchors) + 1
          /\ \A i \in 1 .. Len(anchors) : anchors'[i] = anchors[i]
          /\ anchors'[Len(anchors) + 1] = a
        BY <1>2, <1>3, <1>4, AppendProperties
    <2> QED
        BY <2>1, LenProperties
<1>7. /\ Len(anchors) \in Nat /\ Len(sent) \in Nat /\ DOMAIN anchors = 1 .. Len(anchors)
      /\ DOMAIN sent = 1 .. Len(sent) /\ (anchors = <<>> <=> Len(anchors) = 0)
    BY <1>1, AnchorsAre
<1>8. AuditTypeOK'
    <2>1. contradicted' \subseteq DOMAIN anchors'
        BY <1>2, <1>3, <1>6, <1>7
    <2>2. UNCHANGED <<chainLastHash, chainInitialized, current, old>>
        BY <1>2 DEF writer, files
    <2> QED
        BY <1>1, <1>2, <1>5, <1>6, <2>1, <2>2 DEF AuditTypeOK
<1>9. LogInv' /\ AnchorInv'
    <2>1. \A i \in contradicted : anchors'[i] = anchors[i]
        BY <1>3, <1>6, <1>7
    <2>2. \A i \in DOMAIN anchors' : Committed(anchors'[i])
        <3> SUFFICES ASSUME NEW i \in DOMAIN anchors' PROVE Committed(anchors'[i])
            OBVIOUS
        <3>1. CASE i \in 1 .. Len(anchors)
            <4>1. Committed(anchors[i])
                BY <1>1, <1>7, <3>1 DEF AnchorInv, Commitments
            <4> QED
                BY <1>6, <3>1, <4>1
        <3>2. CASE i = Len(anchors) + 1
            BY <1>4, <1>6, <3>2
        <3> QED
            BY <1>6, <1>7, <3>1, <3>2
    <2>3. \A i \in DOMAIN sent' : Committed(sent'[i])
        <3> SUFFICES ASSUME NEW i \in DOMAIN sent' PROVE Committed(sent'[i])
            OBVIOUS
        <3>1. sent'[i] = sent[i + 1] /\ i + 1 \in DOMAIN sent
            BY <1>5, <1>7
        <3>2. Committed(sent[i + 1])
            BY <1>1, <3>1 DEF AnchorInv, Commitments
        <3> QED
            BY <3>1, <3>2
    <2>4. \A u \in Ticks : ticks'[u] = Idle \/ (ticks'[u].seen \in Anchor /\ Committed(ticks'[u].seen))
        BY <1>1, <1>2 DEF AnchorInv, Commitments
    <2> QED
        BY <1>2, <2>1, <2>2, <2>3, <2>4, TickFrame
<1>10. CalmInv'
    <2> SUFFICES ASSUME ~disturbed' PROVE CalmInv'
        BY DEF CalmInv
    <2>1. ~disturbed
        BY <1>2
    <2>2. PICK t \in Ticks : Waits(t)
        BY <1>1, <1>2, <2>1 DEF CalmInv
    <2>3. ticks[t] # Idle
        BY <2>2 DEF Waits, Idle
    <2>4. \A u \in Ticks : u # t => ticks[u] = Idle /\ ~Waits(u)
        BY <1>1, <2>1, <2>3, OnlyTick
    <2>5. ticks[t].place = Len(anchors) + Len(sent) /\ sent = <<ticks[t].seen>> /\ ticks[t].seen # Latest
        BY <1>1, <1>2, <2>1, <2>2 DEF CalmInv
    <2>6. a = ticks[t].seen /\ sent' = <<>> /\ Len(sent) = 1 /\ Len(<<>>) = 0
        <3>1. a = ticks[t].seen
            BY <1>4, <2>5
        <3>2. Len(sent) = 1
            BY <2>5
        <3>3. DOMAIN sent' = {}
            BY <1>5, <3>2
        <3>4. sent' = <<>>
            BY <1>5, <3>3, EmptySeq, LenProperties
        <3> QED
            BY <3>1, <3>2, <3>4
    <2>7. Latest' = a /\ a # Latest
        <3>1. anchors' # <<>> /\ anchors'[Len(anchors')] = a
            BY <1>6, <1>7, EmptySeq
        <3> QED
            BY <2>5, <2>6, <3>1 DEF Latest
    <2>8. NoIdleAnchor'
        <3> SUFFICES ASSUME NEW i \in 1 .. Len(anchors) PROVE anchors'[i] # anchors'[i + 1]
            BY <1>6, <1>7 DEF NoIdleAnchor
        <3>1. CASE i < Len(anchors)
            <4>1. i \in 1 .. Len(anchors) - 1 /\ i + 1 \in 1 .. Len(anchors)
                BY <1>7, <3>1
            <4>2. anchors[i] # anchors[i + 1]
                BY <1>1, <2>1, <4>1 DEF CalmInv, NoIdleAnchor
            <4> QED
                BY <1>6, <4>1, <4>2
        <3>2. CASE i = Len(anchors)
            <4>1. anchors'[i] = Latest
                BY <1>6, <1>7, <3>2 DEF Latest
            <4> QED
                BY <1>6, <2>7, <3>2, <4>1
        <3>3. i < Len(anchors) \/ i = Len(anchors)
            <4>1. Len(anchors) \in Nat
                BY <1>7
            <4> QED
                BY <4>1
        <3> QED
            BY <3>1, <3>2, <3>3
    <2>9. ASSUME NEW u \in Ticks, ticks'[u].step = "waiting"
          PROVE  ticks'[u].place = Len(anchors') + Len(sent') /\ sent' = <<>> /\ ticks'[u].seen = Latest'
        <3>1. u = t
            BY <1>2, <2>4, <2>9 DEF Waits
        <3> QED
            BY <1>2, <1>6, <1>7, <2>5, <2>6, <2>7, <3>1
    <2>10. \A u \in Ticks : ticks'[u].step # "connected" /\ ticks'[u].step # "asked"
        BY <1>2, <2>2, <2>4 DEF Waits, Idle
    <2>11. Waits(t)' /\ \A u, v \in Ticks : u # v => ticks'[u] = Idle \/ ticks'[v] = Idle
        BY <1>2, <2>2, <2>4 DEF Waits
    <2> QED
        BY <2>6, <2>8, <2>9, <2>10, <2>11 DEF CalmInv, Waits
<1> QED
    BY <1>8, <1>9, <1>10 DEF TrailIInv

\* An empty log satisfies the invariant.
LEMMA AuditStarts == AuditInit => TrailIInv
<1> SUFFICES ASSUME AuditInit PROVE TrailIInv
    OBVIOUS
<1>1. /\ old = <<>> /\ current = <<>> /\ anchors = <<>> /\ sent = <<>> /\ <<>> \in Seq(Line) /\ <<>> \in Seq(Anchor)
      /\ DOMAIN anchors = {} /\ DOMAIN sent = {} /\ Len(anchors) = 0
    BY EmptySeq, LenProperties DEF AuditInit
<1>2. AuditTypeOK
    <2>1. ticks \in [Ticks -> [step : {"idle", "connected", "asked", "waiting"},
                              seen : Anchor \cup {None}, known : Anchor \cup {None}, place : Nat]]
        <3>1. Idle \in [step : {"idle", "connected", "asked", "waiting"},
                        seen : Anchor \cup {None}, known : Anchor \cup {None}, place : Nat]
            BY DEF Idle
        <3> QED
            BY <3>1 DEF AuditInit
    <2>2. /\ hashes = 0 /\ 0 \in 0 .. MaxHash /\ 0 \in 0 .. 0 /\ lost \subseteq 1 .. 0
          /\ chainLastHash = 0 /\ dropped = 0
        BY TrailAssumption DEF AuditInit
    <2>3. /\ lastAnchored \in Anchor \cup {None} /\ contradicted \subseteq DOMAIN anchors
          /\ chainInitialized \in BOOLEAN /\ edited \in BOOLEAN /\ disturbed \in BOOLEAN
        BY DEF AuditInit
    <2> QED
        BY <1>1, <2>1, <2>2, <2>3 DEF AuditTypeOK
<1>3. Trail = <<>> /\ Len(Trail) = 0
    BY <1>1, <1>2, TrailLengths, ConcatEmptySeq DEF Trail
<1>4. LogInv
    BY <1>1, <1>3 DEF AuditInit, LogInv, Increasing, Known, WriterFollows, Accounted, RotatedIsMissed,
          StartsTheChain, BreakMeansLoss
<1>5. AnchorInv
    BY <1>1 DEF AuditInit, AnchorInv, Commitments, AlteredIsNewer
<1>6. CalmInv
    BY <1>1 DEF AuditInit, CalmInv, NoIdleAnchor, Waits, Idle
<1> QED
    BY <1>2, <1>4, <1>5, <1>6 DEF TrailIInv

\* Every step of the writer, the editor, the service and the chain keeps it.
LEMMA AuditStep == TrailIInv /\ [AuditNext]_auditVars => TrailIInv'
<1> SUFFICES ASSUME TrailIInv, [AuditNext]_auditVars PROVE TrailIInv'
    OBVIOUS
<1>1. ASSUME NEW rotation \in Rotations, NEW outcome \in LineOutcomes, RecordAudit(rotation, outcome)
      PROVE  TrailIInv'
    <2>1. AuditTypeOK /\ LogInv /\ AnchorInv /\ CalmInv
        BY DEF TrailIInv
    <2>2. AuditTypeOK'
        BY <1>1, <2>1, RecordTyped
    <2>3. LogInv'
        BY <1>1, <2>1, RecordKeepsLog
    <2>4. AnchorInv'
        BY <1>1, <2>1, RecordKeepsAnchors
    <2>5. CalmInv'
        BY <1>1, <2>1, RecordKeepsCalm
    <2> QED
        BY <2>2, <2>3, <2>4, <2>5 DEF TrailIInv
<1>2. CASE StopAndStart
    BY <1>2, StopKeeps
<1>3. ASSUME NEW k \in DOMAIN Trail, EditLine(k) PROVE TrailIInv'
    BY <1>3, EditKeeps
<1>4. ASSUME NEW t \in Ticks, AnchorTick(t) PROVE TrailIInv'
    BY <1>4, StartKeeps, AskKeeps, EndKeeps, SendKeeps, FailKeeps DEF AnchorTick
<1>5. CASE Mine
    BY <1>5, MineKeeps
<1>6. CASE UNCHANGED auditVars
    BY <1>6 DEF auditVars, writer, files, chain, service, auditHistory, TrailIInv, AuditTypeOK, LogInv, AnchorInv,
       CalmInv, Increasing, Known, WriterFollows, Accounted, RotatedIsMissed, StartsTheChain,
       BreakMeansLoss, Broken, Trail, TailHash, Commitments, Committed, AlteredIsNewer, NoIdleAnchor, Waits, Latest
<1> QED
    BY <1>1, <1>2, <1>3, <1>4, <1>5, <1>6 DEF AuditNext

\* The inductive invariant of the audit trail holds in every reachable state.
THEOREM TrailInvariant == AuditSpec => []TrailIInv
BY AuditStarts, AuditStep, PTL DEF AuditSpec

\* In an unaltered trail the chain (audit-log.js ensureChainInitialized,
\* recordAudit) is broken only before a record that was lost.
THEOREM BreaksAreLosses == AuditSpec => []BreakMeansLoss
<1>1. TrailIInv => BreakMeansLoss
    BY DEF TrailIInv, LogInv
<1> QED
    BY <1>1, TrailInvariant, PTL

\* The invariant says what verifyAuditAgainstAnchors will find.
LEMMA TellsEdits == TrailIInv => AnchorsTellEdits
<1> SUFFICES ASSUME TrailIInv PROVE AnchorsTellEdits
    OBVIOUS
<1>1. AuditTypeOK /\ LogInv /\ AnchorInv /\ CalmInv
    BY DEF TrailIInv
<1>2. \A i \in DOMAIN anchors : anchors[i] \in Anchor /\ Committed(anchors[i]) /\ anchors[i].count \in Nat /\ anchors[i].tail \in Nat
    BY <1>1, AnchorsAre DEF AnchorInv, Commitments
<1>3. NoFalseAlarm
    BY <1>2 DEF NoFalseAlarm, Contradicts, Committed
<1>4. EditIsNoticed
    <2> SUFFICES ASSUME NEW i \in contradicted, dropped = 0 PROVE ~Verified
        BY DEF EditIsNoticed
    <2> DEFINE a == anchors[i]
    <2>1. i \in DOMAIN anchors
        BY <1>1 DEF AuditTypeOK
    <2>2. a.count \in 1 .. Len(Trail) /\ a.count <= Len(Trail) /\ a.tail \in Nat
        BY <1>1, <1>2, <2>1, TrailLengths DEF Committed
    <2>3. Trail[a.count].hash > a.tail
        BY <1>1 DEF AnchorInv, AlteredIsNewer
    <2>4. Trail[a.count].hash \in 1 .. hashes
        BY <1>1, <2>2 DEF LogInv, Known
    <2>5. Trail[a.count].hash # a.tail
        BY <2>2, <2>3, <2>4
    <2> QED
        BY <2>1, <2>2, <2>5 DEF Verified, Contradicts
<1>5. NoIdleAnchor
    BY <1>1 DEF CalmInv, NoIdleAnchor
<1> QED
    BY <1>1, <1>3, <1>4, <1>5 DEF AnchorsTellEdits

\* verifyAuditAgainstAnchors: until a volume is dropped, an unaltered trail
\* contradicts no anchor and an anchored line that was altered is noticed; and
\* the service does not anchor the same tail twice in a row without a
\* disturbance.
THEOREM AnchorsTell == AuditSpec => []AnchorsTellEdits
BY TellsEdits, TrailInvariant, PTL

-----------------------------------------------------------------------------
(* The collector's verdict. *)

\* verifyAuditHashChain says ok of the volumes whose lines follow each other.
LEMMA VolumeChecked ==
    ASSUME NEW volume \in Seq(Line), NEW anchor \in Int
    PROVE  LET status == VerifyAuditHashChain(volume, anchor)
               Good == /\ volume # <<>>
                       /\ \A i \in 2 .. Len(volume) : volume[i].prev = volume[i - 1].hash
                       /\ anchor # Continuation => volume[1].prev = anchor
           IN  /\ status.ok <=> Good
               /\ status.ok => status.verified = Len(volume) /\ status.tailHash = TailHash(volume)
<1> DEFINE Expected(i) ==
               IF i > 1 THEN volume[i - 1].hash
               ELSE IF anchor = Continuation THEN volume[1].prev ELSE anchor
           bad == {i \in DOMAIN volume : volume[i].prev # Expected(i)}
           status == VerifyAuditHashChain(volume, anchor)
           Good == /\ volume # <<>>
                   /\ \A i \in 2 .. Len(volume) : volume[i].prev = volume[i - 1].hash
                   /\ anchor # Continuation => volume[1].prev = anchor
<1>1. /\ status.ok <=> volume # <<>> /\ bad = {}
      /\ status.ok => status.verified = Len(volume) /\ status.tailHash = TailHash(volume)
    BY DEF VerifyAuditHashChain
<1>2. Len(volume) \in Nat /\ DOMAIN volume = 1 .. Len(volume) /\ (volume = <<>> <=> Len(volume) = 0)
    BY LenProperties, EmptySeq
<1>3. ASSUME volume # <<>> PROVE bad = {} <=> Good
    <2>1. 1 \in DOMAIN volume /\ 1 .. Len(volume) = {1} \cup 2 .. Len(volume)
        BY <1>2, <1>3
    <2>2. bad = {} => Good
        <3> SUFFICES ASSUME bad = {} PROVE Good
            OBVIOUS
        <3>1. \A i \in DOMAIN volume : volume[i].prev = Expected(i)
            OBVIOUS
        <3>2. \A i \in 2 .. Len(volume) : i \in DOMAIN volume /\ i > 1
            BY <1>2
        <3> QED
            BY <1>3, <2>1, <3>1, <3>2
    <2>3. Good => bad = {}
        <3> SUFFICES ASSUME Good, NEW i \in DOMAIN volume PROVE volume[i].prev = Expected(i)
            OBVIOUS
        <3>1. CASE i = 1
            BY <3>1
        <3>2. CASE i \in 2 .. Len(volume)
            BY <3>2
        <3> QED
            BY <1>2, <2>1, <3>1, <3>2
    <2> QED
        BY <2>2, <2>3
<1> HIDE DEF bad, status
<1>4. status.ok <=> Good
    BY <1>1, <1>3
<1> QED
    BY <1>1, <1>4 DEF status

\* auditFileStatus compares exactly the neighbours replayAuditTrail compares.
LEMMA Verdict == TrailIInv => StatusAgreesWithReplay
<1> SUFFICES ASSUME TrailIInv PROVE StatusAgreesWithReplay
    OBVIOUS
<1>1. AuditTypeOK /\ LogInv /\ old \in Seq(Line) /\ current \in Seq(Line)
    BY DEF TrailIInv, AuditTypeOK
<1> DEFINE oldVol == VerifyAuditHashChain(old, Continuation)
           cur == VerifyAuditHashChain(current, StartOfCurrent(oldVol.tailHash))
           alone == VerifyAuditHashChain(current, 0)
           Chained(v) == \A i \in 2 .. Len(v) : v[i].prev = v[i - 1].hash
<1>2. /\ Len(old) \in Nat /\ Len(current) \in Nat /\ Len(Trail) = Len(old) + Len(current)
      /\ (old = <<>> <=> Len(old) = 0) /\ (current = <<>> <=> Len(current) = 0)
    BY <1>1, TrailLengths
<1>3. /\ oldVol.ok <=> old # <<>> /\ Chained(old)
      /\ oldVol.ok => oldVol.verified = Len(old) /\ oldVol.tailHash = TailHash(old)
    BY <1>1, VolumeChecked DEF Continuation
<1>4. /\ alone.ok <=> current # <<>> /\ Chained(current) /\ current[1].prev = 0
      /\ alone.ok => alone.verified = Len(current)
    BY <1>1, VolumeChecked DEF Continuation
<1>5. ASSUME oldVol.ok
      PROVE  /\ cur.ok <=> current # <<>> /\ Chained(current) /\ current[1].prev = TailHash(old)
             /\ cur.ok => cur.verified = Len(current)
    <2>1. old # <<>> /\ TailHash(old) = old[Len(old)].hash
        BY <1>3, <1>5 DEF TailHash
    <2>2. Len(old) \in 1 .. Len(old) /\ old[Len(old)] \in Line
        BY <1>1, <1>2, <2>1, ElementOfSeq
    <2>3. TailHash(old) \in Int /\ TailHash(old) # Continuation
        BY <2>1, <2>2, TrailAssumption DEF Line, Continuation
    <2>4. cur = VerifyAuditHashChain(current, TailHash(old))
        BY <1>3, <1>5 DEF StartOfCurrent
    <2> HIDE DEF cur
    <2> QED
        BY <1>1, <2>3, <2>4, VolumeChecked
<1>6. /\ AuditFileStatus = IF old = <<>> THEN alone
                           ELSE IF ~oldVol.ok THEN oldVol
                           ELSE [cur EXCEPT !.verified = @ + oldVol.verified]
      /\ cur = [ok |-> cur.ok, verified |-> cur.verified, tailHash |-> cur.tailHash]
    BY DEF AuditFileStatus, VerifyAuditHashChain
<1> HIDE DEF oldVol, cur, alone
<1>7. /\ \A i \in 1 .. Len(old) : Trail[i] = old[i]
      /\ \A i \in 1 .. Len(current) : Trail[Len(old) + i] = current[i]
    BY <1>1, TrailIs
\* The breaks of the trail are those of the volumes and the one between them.
<1>8. Intact <=> /\ Chained(old) /\ Chained(current)
                 /\ old # <<>> /\ current # <<>> => current[1].prev = TailHash(old)
    <2>1. ASSUME Intact
          PROVE  /\ Chained(old) /\ Chained(current)
                 /\ old # <<>> /\ current # <<>> => current[1].prev = TailHash(old)
        <3>0. \A i \in 1 .. (Len(Trail) - 1) : Trail[i + 1].prev = Trail[i].hash
            BY <2>1 DEF Intact, Broken
        <3>1. ASSUME NEW i \in 2 .. Len(old) PROVE old[i].prev = old[i - 1].hash
            <4>1. i \in 1 .. Len(old) /\ i - 1 \in 1 .. Len(old) /\ i - 1 \in 1 .. (Len(Trail) - 1) /\ i - 1 + 1 = i
                BY <1>2
            <4> QED
                BY <1>7, <3>0, <4>1
        <3>2. ASSUME NEW i \in 2 .. Len(current) PROVE current[i].prev = current[i - 1].hash
            <4>1. /\ i \in 1 .. Len(current) /\ i - 1 \in 1 .. Len(current)
                  /\ Len(old) + (i - 1) \in 1 .. (Len(Trail) - 1)
                  /\ Len(old) + (i - 1) + 1 = Len(old) + i
                BY <1>2
            <4>2. Trail[Len(old) + i].prev = Trail[Len(old) + (i - 1)].hash
                BY <3>0, <4>1
            <4> QED
                BY <1>7, <4>1, <4>2
        <3>3. ASSUME old # <<>>, current # <<>> PROVE current[1].prev = TailHash(old)
            <4>1. Len(old) \in 1 .. Len(old) /\ 1 \in 1 .. Len(current) /\ Len(old) \in 1 .. (Len(Trail) - 1)
                BY <1>2, <3>3
            <4> QED
                BY <1>7, <3>0, <3>3, <4>1 DEF TailHash
        <3> QED
            BY <3>1, <3>2, <3>3
    <2>2. ASSUME Chained(old), Chained(current), old # <<>> /\ current # <<>> => current[1].prev = TailHash(old)
          PROVE  Intact
        <3> SUFFICES ASSUME NEW i \in 1 .. (Len(Trail) - 1) PROVE Trail[i + 1].prev = Trail[i].hash
            BY DEF Intact, Broken
        <3>1. CASE i < Len(old)
            <4>1. i \in 1 .. Len(old) /\ i + 1 \in 2 .. Len(old) /\ i + 1 \in 1 .. Len(old) /\ i + 1 - 1 = i
                BY <1>2, <3>1
            <4>2. old[i + 1].prev = old[i].hash
                BY <2>2, <4>1
            <4> QED
                BY <1>7, <4>1, <4>2
        <3>2. CASE i = Len(old)
            <4>1. i \in 1 .. Len(old) /\ 1 \in 1 .. Len(current) /\ old # <<>> /\ current # <<>>
                BY <1>2, <3>2
            <4>2. Trail[i] = old[i] /\ Trail[i + 1] = current[1]
                BY <1>7, <3>2, <4>1
            <4> QED
                BY <2>2, <3>2, <4>1, <4>2 DEF TailHash
        <3>3. CASE i > Len(old)
            <4> DEFINE j == i - Len(old)
            <4>1. /\ j \in 1 .. Len(current) /\ j + 1 \in 2 .. Len(current) /\ j + 1 \in 1 .. Len(current)
                  /\ j + 1 - 1 = j /\ Len(old) + j = i /\ Len(old) + (j + 1) = i + 1
                BY <1>2, <3>3
            <4> HIDE DEF j
            <4>2. current[j + 1].prev = current[j].hash
                BY <2>2, <4>1
            <4>3. Trail[i] = current[j] /\ Trail[i + 1] = current[j + 1]
                BY <1>7, <4>1
            <4> QED
                BY <4>2, <4>3
        <3> QED
            BY <1>2, <3>1, <3>2, <3>3
    <2> QED
        BY <2>1, <2>2
<1> HIDE DEF Chained
<1>9. ASSUME AuditFileStatus.ok PROVE Intact /\ AuditFileStatus.verified = Len(Trail)
    <2>1. CASE old = <<>>
        <3>1. alone.ok /\ AuditFileStatus = alone
            BY <1>6, <1>9, <2>1
        <3>2. Chained(old)
            BY <1>2, <2>1 DEF Chained
        <3> QED
            BY <1>2, <1>4, <1>8, <2>1, <3>1, <3>2
    <2>2. CASE old # <<>>
        <3>1. oldVol.ok
            BY <1>6, <1>9, <2>2
        <3>2. cur.ok /\ AuditFileStatus.verified = cur.verified + oldVol.verified
            BY <1>6, <1>9, <2>2, <3>1
        <3> QED
            BY <1>2, <1>3, <1>5, <1>8, <3>1, <3>2
    <2> QED
        BY <2>1, <2>2
<1>10. ASSUME ~edited, lost = {}, current # <<>>, old # <<>> \/ dropped = 0
       PROVE  AuditFileStatus.ok
    <2>1. Intact
        BY <1>1, <1>10 DEF LogInv, BreakMeansLoss, Intact
    <2>2. CASE old = <<>>
        <3>1. Trail # <<>> /\ 1 \in 1 .. Len(current) /\ Trail[1] = current[1]
            <4>1. 1 \in 1 .. Len(current) /\ Len(Trail) # 0 /\ Len(old) + 1 = 1
                BY <1>2, <1>10, <2>2
            <4> QED
                BY <1>1, <1>7, <4>1, TrailLengths
        <3>2. current[1].prev = 0
            BY <1>1, <1>10, <2>2, <3>1 DEF LogInv, StartsTheChain
        <3> QED
            BY <1>4, <1>6, <1>8, <1>10, <2>1, <2>2, <3>2
    <2>3. CASE old # <<>>
        <3>1. oldVol.ok /\ cur.ok
            BY <1>3, <1>5, <1>8, <1>10, <2>1, <2>3
        <3> QED
            BY <1>6, <2>3, <3>1
    <2> QED
        BY <2>2, <2>3
<1> QED
    BY <1>9, <1>10 DEF StatusAgreesWithReplay

\* The collector's verdict agrees with the replay (audit-collector.js
\* auditFileStatus).
THEOREM VerdictAgrees == AuditSpec => []StatusAgreesWithReplay
BY Verdict, TrailInvariant, PTL

-----------------------------------------------------------------------------
(* Resuming from a cursor. *)

\* A hash names one line of the trail, so the entries after it are the rest.
LEMMA AfterALine ==
    ASSUME AuditTypeOK, Increasing, NEW q \in 1 .. Len(Trail)
    PROVE  LET r == EntriesAfter(Trail[q].hash)
           IN  r.found = TRUE /\ r.entries = SubSeq(Trail, q + 1, Len(Trail))
<1> DEFINE at == {i \in DOMAIN Trail : Trail[i].hash = Trail[q].hash}
<1>1. DOMAIN Trail = 1 .. Len(Trail) /\ Len(Trail) \in Nat
    BY TrailIs, TrailLengths
<1>2. \A i \in 1 .. Len(Trail) : Trail[i].hash \in Nat
    <2>1. \A l \in Line : l.hash \in Nat
        BY TrailAssumption DEF Line
    <2> QED
        BY <2>1, TrailIs
<1>3. at = {q}
    <2>1. ASSUME NEW i \in 1 .. Len(Trail), Trail[i].hash = Trail[q].hash PROVE i = q
        <3>1. i < q \/ i = q \/ q < i
            BY <1>1
        <3>2. ~(i < q) /\ ~(q < i)
            BY <1>2, <2>1 DEF Increasing
        <3> QED
            BY <3>1, <3>2
    <2> QED
        BY <1>1, <2>1
<1>4. Min(at) = q
    BY <1>1, <1>3 DEF Min
<1>5. EntriesAfter(Trail[q].hash) =
          IF at = {} THEN [found |-> FALSE, entries |-> Trail]
          ELSE [found |-> TRUE, entries |-> AfterThis(Trail, Min(at))]
    BY DEF EntriesAfter, ReadAllVolumes
<1> HIDE DEF at
<1> QED
    BY <1>3, <1>4, <1>5 DEF AfterThis

\* Part of a sequence of lines.
LEMMA SliceIs ==
    ASSUME NEW lines \in Seq(Line), NEW first \in 0 .. Len(lines), NEW last \in first .. Len(lines)
    PROVE  LET slice == SubSeq(lines, first + 1, last)
           IN  /\ slice \in Seq(Line) /\ Len(slice) = last - first
               /\ \A i \in 1 .. last - first : slice[i] = lines[first + i] /\ first + i \in 1 .. Len(lines)
               /\ slice = <<>> <=> last = first
<1> DEFINE slice == SubSeq(lines, first + 1, last)
           from == first + 1
<1>1. /\ Len(lines) \in Nat /\ first \in Nat /\ last \in Nat
      /\ from \in Int /\ last \in Int /\ \A i \in from .. last : i \in 1 .. Len(lines)
    BY LenProperties
<1>2. \A i \in from .. last : lines[i] \in Line
    BY <1>1, ElementOfSeq
<1> HIDE DEF from
<1>3. /\ SubSeq(lines, from, last) \in Seq(Line)
      /\ Len(SubSeq(lines, from, last)) = IF from <= last THEN last - from + 1 ELSE 0
      /\ \A i \in 1 .. last - from + 1 : SubSeq(lines, from, last)[i] = lines[from + i - 1]
    BY <1>1, <1>2, SubSeqProperties
<1>4. /\ (IF from <= last THEN last - from + 1 ELSE 0) = last - first /\ last - from + 1 = last - first
      /\ \A i \in 1 .. last - first : from + i - 1 = first + i /\ first + i \in 1 .. Len(lines)
    BY <1>1 DEF from
<1>5. slice = SubSeq(lines, from, last)
    BY DEF from
<1> HIDE DEF slice
<1>6. /\ slice \in Seq(Line) /\ Len(slice) = last - first
      /\ \A i \in 1 .. last - first : slice[i] = lines[first + i] /\ first + i \in 1 .. Len(lines)
    BY <1>3, <1>4, <1>5
<1>7. slice = <<>> <=> last = first
    <2>1. slice = <<>> <=> Len(slice) = 0
        BY <1>6, EmptySeq
    <2> QED
        BY <1>1, <1>6, <2>1
<1> QED
    BY <1>6, <1>7 DEF slice

\* A page is the first of the lines after the cursor, and its own cursor the
\* last line it holds.
LEMMA PageIs ==
    ASSUME AuditTypeOK, Increasing, NEW p \in 1 .. Len(Trail), NEW limit \in Nat, limit > 0
    PROVE  LET n == Len(Trail)
               m == IF n - p > limit THEN limit ELSE n - p
               page == Page(Trail[p].hash, limit)
           IN  /\ page.stale = FALSE
               /\ page.entries = SubSeq(Trail, p + 1, p + m)
               /\ page.hasMore <=> n - p > limit
               /\ page.nextCursor = Trail[p + m].hash
<1> DEFINE n == Len(Trail)
           m == IF n - p > limit THEN limit ELSE n - p
           since == SubSeq(Trail, p + 1, n)
           r == EntriesAfter(Trail[p].hash)
           entries == IF Len(since) > limit THEN SubSeq(since, 1, limit) ELSE since
<1>1. n \in Nat /\ m \in 0 .. n - p /\ p \in 1 .. n
    BY TrailLengths
<1>2. r.found = TRUE /\ r.entries = since
    BY AfterALine DEF n
<1>3. Trail \in Seq(Line)
    BY TrailIs
<1>4. since \in Seq(Line) /\ Len(since) = n - p /\ \A i \in 1 .. n - p : since[i] = Trail[p + i]
    BY <1>1, <1>3, SliceIs
<1>8. LET slice == SubSeq(Trail, p + 1, p + m)
      IN  /\ slice \in Seq(Line) /\ Len(slice) = m /\ \A i \in 1 .. m : slice[i] = Trail[p + i]
          /\ slice = <<>> <=> m = 0
    <2> DEFINE last == p + m
    <2>1. p \in 0 .. Len(Trail) /\ last \in p .. Len(Trail) /\ last - p = m /\ (last = p <=> m = 0)
        BY <1>1
    <2> HIDE DEF m, n, last
    <2>2. LET slice == SubSeq(Trail, p + 1, last)
          IN  /\ slice \in Seq(Line) /\ Len(slice) = m /\ \A i \in 1 .. m : slice[i] = Trail[p + i]
              /\ slice = <<>> <=> m = 0
        BY <1>3, <2>1, SliceIs
    <2> QED
        BY <2>2 DEF last
<1>5. entries = SubSeq(Trail, p + 1, p + m)
    <2>1. CASE n - p > limit
        <3>1. m = limit /\ entries = SubSeq(since, 1, m) /\ m \in 1 .. n - p
            BY <1>1, <1>4, <2>1
        <3> HIDE DEF since, m, n
        <3>2. /\ SubSeq(since, 1, m) \in Seq(Line) /\ Len(SubSeq(since, 1, m)) = m
              /\ \A i \in 1 .. m : SubSeq(since, 1, m)[i] = since[i]
            <4>1. 0 \in 0 .. Len(since) /\ m \in 0 .. Len(since) /\ 0 + 1 = 1 /\ m - 0 = m
                BY <1>1, <1>4
            <4>2. \A i \in 1 .. m : 0 + i = i
                OBVIOUS
            <4> QED
                BY <1>4, <4>1, <4>2, SliceIs
        <3>3. \A i \in 1 .. m : since[i] = Trail[p + i]
            <4>1. \A i \in 1 .. m : i \in 1 .. n - p
                BY <1>1
            <4> QED
                BY <1>4, <4>1
        <3>4. SubSeq(since, 1, m) = SubSeq(Trail, p + 1, p + m)
            BY <1>8, <3>2, <3>3, SeqEqual
        <3> QED
            BY <3>1, <3>4
    <2>2. CASE ~(n - p > limit)
        <3>0. entries = since /\ m = n - p
            BY <1>4, <2>2
        <3>1. m = n - p /\ p + m = n /\ entries = since
            BY <1>1, <3>0
        <3> QED
            BY <3>1
    <2> QED
        BY <2>1, <2>2
<1>6. Page(Trail[p].hash, limit) =
          [stale |-> FALSE, entries |-> entries, hasMore |-> Len(since) > limit,
           nextCursor |-> IF entries # <<>> THEN TailHash(entries) ELSE Trail[p].hash]
    BY <1>2 DEF Page
<1>7. (IF entries # <<>> THEN TailHash(entries) ELSE Trail[p].hash) = Trail[p + m].hash
    <2> HIDE DEF entries, m, n
    <2>1. CASE m = 0
        <3>1. entries = <<>> /\ p + m = p
            BY <1>1, <1>5, <1>8, <2>1
        <3> QED
            BY <3>1
    <2>2. CASE m # 0
        <3>1. m \in 1 .. m /\ entries # <<>>
            BY <1>1, <1>5, <1>8, <2>2
        <3>2. entries[Len(entries)] = Trail[p + m]
            BY <1>5, <1>8, <3>1
        <3> QED
            BY <3>1, <3>2 DEF TailHash
    <2> QED
        BY <2>1, <2>2
<1>9. Len(since) > limit <=> n - p > limit
    BY <1>4
<1> DEFINE page == Page(Trail[p].hash, limit)
<1> HIDE DEF entries, since, r
<1>10. /\ page.stale = FALSE /\ page.entries = SubSeq(Trail, p + 1, p + m)
       /\ page.hasMore <=> n - p > limit
       /\ page.nextCursor = Trail[p + m].hash
    <2> HIDE DEF m, n
    <2>1. page.stale = FALSE /\ page.entries = entries
        BY <1>6
    <2>2. page.hasMore = (Len(since) > limit)
        BY <1>6
    <2>3. page.nextCursor = Trail[p + m].hash
        <3>1. page.nextCursor = IF entries # <<>> THEN TailHash(entries) ELSE Trail[p].hash
            BY <1>6
        <3> QED
            BY <1>7, <3>1
    <2> HIDE DEF page
    <2> QED
        BY <1>5, <1>9, <2>1, <2>2, <2>3
<1> QED
    BY <1>10

\* The rest of the trail is what was recorded since, but for the lost.
LEMMA Resumed == TrailIInv => ResumedIsComplete
<1> SUFFICES ASSUME TrailIInv, NEW cursor \in 1 .. hashes, NEW limit \in 1 .. 2, ~Page(cursor, limit).stale
             PROVE  LET page == Page(cursor, limit)
                        since == EntriesAfter(cursor).entries
                    IN  /\ page.entries \o EntriesAfter(page.nextCursor).entries = since
                        /\ page.hasMore <=> EntriesAfter(page.nextCursor).entries # <<>>
                        /\ \A i, j \in DOMAIN since : i < j => since[i].hash < since[j].hash
                        /\ ~edited => {since[i].hash : i \in DOMAIN since} = (cursor + 1 .. hashes) \ lost
    BY DEF ResumedIsComplete
<1>1. AuditTypeOK /\ LogInv /\ Increasing /\ hashes \in Nat
    BY DEF TrailIInv, LogInv, AuditTypeOK
<1> DEFINE n == Len(Trail)
<1>2. n \in Nat /\ DOMAIN Trail = 1 .. n /\ \A i \in 1 .. n : Trail[i] \in Line
    BY <1>1, TrailIs, TrailLengths
<1>3. PICK p \in 1 .. n : Trail[p].hash = cursor
    <2>1. EntriesAfter(cursor).found
        BY DEF Page
    <2>2. {i \in DOMAIN Trail : Trail[i].hash = cursor} # {}
        BY <2>1 DEF EntriesAfter, ReadAllVolumes
    <2> QED
        BY <1>2, <2>2
<1> DEFINE m == IF n - p > limit THEN limit ELSE n - p
           page == Page(cursor, limit)
           since == SubSeq(Trail, p + 1, n)
           rest == SubSeq(Trail, p + m + 1, n)
<1>4. m \in 0 .. n - p /\ p + m \in 1 .. n /\ limit \in Nat /\ limit > 0
    BY <1>2
<1>5. /\ page.entries = SubSeq(Trail, p + 1, p + m)
      /\ page.hasMore <=> n - p > limit
      /\ page.nextCursor = Trail[p + m].hash
    BY <1>1, <1>3, <1>4, PageIs
<1>6. EntriesAfter(cursor).entries = since
    <2>1. EntriesAfter(Trail[p].hash).entries = since
        BY <1>1, AfterALine
    <2> QED
        BY <1>3, <2>1
<1>7. EntriesAfter(page.nextCursor).entries = rest
    <2> DEFINE q == p + m
    <2>1. q \in 1 .. Len(Trail) /\ page.nextCursor = Trail[q].hash
        BY <1>4, <1>5
    <2> HIDE DEF q, page
    <2>2. EntriesAfter(Trail[q].hash).entries = SubSeq(Trail, q + 1, Len(Trail))
        BY <1>1, <2>1, AfterALine
    <2> QED
        BY <2>1, <2>2 DEF q
<1>8. /\ since \in Seq(Line) /\ Len(since) = n - p
      /\ \A i \in 1 .. n - p : since[i] = Trail[p + i] /\ p + i \in 1 .. n
      /\ rest = <<>> <=> n = p + m
    <2>1. /\ p \in 0 .. Len(Trail) /\ n \in p .. Len(Trail) /\ Trail \in Seq(Line)
          /\ p + m \in 0 .. Len(Trail) /\ n \in p + m .. Len(Trail)
        BY <1>1, <1>2, <1>4, TrailIs
    <2>2. n = Len(Trail)
        OBVIOUS
    <2> HIDE DEF n, m
    <2>3. rest = <<>> <=> n = p + m
        BY <2>1, SliceIs
    <2>4. /\ since \in Seq(Line) /\ Len(since) = n - p
          /\ \A i \in 1 .. n - p : since[i] = Trail[p + i] /\ p + i \in 1 .. Len(Trail)
        BY <2>1, SliceIs
    <2> QED
        BY <2>2, <2>3, <2>4
<1> HIDE DEF n, m
<1>9. page.entries \o rest = since
    <2>1. /\ Trail \in Seq(Line) /\ p + 1 \in 1 .. Len(Trail) + 1
          /\ p + m \in (p + 1) - 1 .. Len(Trail) /\ n \in p + m .. Len(Trail)
        <3>1. Trail \in Seq(Line) /\ n = Len(Trail)
            BY <1>1, TrailIs DEF n
        <3> QED
            BY <1>2, <1>4, <3>1
    <2>2. SubSeq(Trail, p + 1, p + m) \o SubSeq(Trail, p + m + 1, n) = SubSeq(Trail, p + 1, n)
        <3> DEFINE low == p + 1
                   mid == p + m
        <3>1. low \in 1 .. Len(Trail) + 1 /\ mid \in low - 1 .. Len(Trail) /\ n \in mid .. Len(Trail)
            BY <2>1
        <3> HIDE DEF low, mid
        <3>2. SubSeq(Trail, low, mid) \o SubSeq(Trail, mid + 1, n) = SubSeq(Trail, low, n)
            BY <2>1, <3>1, ConcatAdjacentSubSeq
        <3> QED
            BY <3>2 DEF low, mid
    <2> QED
        BY <1>5, <2>2
<1>10. page.hasMore <=> rest # <<>>
    <2>1. n - p > limit <=> n # p + m
        BY <1>2, <1>4 DEF m
    <2> QED
        BY <1>5, <1>8, <2>1
<1>11. /\ DOMAIN since = 1 .. n - p
       /\ \A i \in 1 .. n - p : since[i] = Trail[p + i] /\ p + i \in 1 .. n
    BY <1>8, LenProperties
<1> HIDE DEF since, rest, page
<1>12. ASSUME NEW i \in DOMAIN since, NEW j \in DOMAIN since, i < j PROVE since[i].hash < since[j].hash
    <2>1. /\ since[i] = Trail[p + i] /\ since[j] = Trail[p + j] /\ p + i \in 1 .. n /\ p + j \in 1 .. n
          /\ p + i < p + j
        BY <1>2, <1>11, <1>12
    <2> QED
        BY <1>1, <2>1 DEF Increasing, n
<1>13. ASSUME ~edited PROVE {since[i].hash : i \in DOMAIN since} = (cursor + 1 .. hashes) \ lost
    <2>1. ASSUME NEW i \in DOMAIN since PROVE since[i].hash \in (cursor + 1 .. hashes) \ lost
        <3>1. since[i] = Trail[p + i] /\ p + i \in 1 .. n /\ p < p + i
            BY <1>2, <1>11
        <3>2. cursor < Trail[p + i].hash
            BY <1>1, <1>3, <3>1 DEF Increasing, n
        <3>3. Trail[p + i].hash \in (1 .. hashes) \ lost
            BY <1>1, <3>1 DEF LogInv, Known, n
        <3> QED
            BY <1>1, <3>1, <3>2, <3>3
    <2>2. ASSUME NEW h \in (cursor + 1 .. hashes) \ lost PROVE \E i \in DOMAIN since : since[i].hash = h
        <3>1. h \in (1 .. hashes) \ lost /\ cursor < h
            BY <1>1
        <3>2. ~ \A i \in 1 .. n : h < Trail[i].hash
            <4>1. ~(h < Trail[p].hash)
                BY <1>1, <1>3, <3>1
            <4> QED
                BY <4>1
        <3>3. PICK i \in 1 .. n : Trail[i].hash = h
            BY <1>1, <1>13, <3>1, <3>2 DEF LogInv, Accounted, n
        <3>4. p < i
            <4>1. i < p \/ i = p \/ p < i
                BY <1>2
            <4>2. ~(i < p)
                BY <1>1, <1>3, <3>1, <3>3 DEF Increasing, n
            <4> QED
                BY <1>1, <1>3, <3>1, <3>3, <4>1, <4>2
        <3>5. i - p \in 1 .. n - p /\ p + (i - p) = i
            BY <1>2, <3>4
        <3> QED
            BY <1>11, <3>3, <3>5
    <2> QED
        BY <2>1, <2>2
<1> QED
    BY <1>6, <1>7, <1>9, <1>10, <1>12, <1>13 DEF page

\* Whoever resumes from a cursor that is not stale gets every record since,
\* once and in order, page by page (audit-collector.js entriesAfterIn, startAuditCollector).
THEOREM ResumedComplete == AuditSpec => []ResumedIsComplete
BY Resumed, TrailInvariant, PTL
=============================================================================
