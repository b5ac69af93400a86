---------------------------- MODULE SignerProofs ----------------------------
(***************************************************************************)
(* The isolated signer keeps its word, for every number of calls, every    *)
(* policy and every session: SignerInvariant is an inductive invariant of  *)
(* SignerProcess, and the three invariants of its runs follow from it.     *)
(*                                                                         *)
(* IInv says what the properties leave out: what the messages on their way *)
(* in either direction may still be, and which policy a worker has by the  *)
(* time that somebody can ask it anything.                                 *)
(*                                                                         *)
(* The second half is about PaymentGuard, for any number of payments,      *)
(* verifications and mandates: a snapshot is honoured once, a mandate is   *)
(* worth what was decided, the ledger covers all that is under way, and so *)
(* the payments of a day stay within a ceiling they were judged by.        *)
(***************************************************************************)
EXTENDS SignerProcess, PaymentGuard, SumTheorems, SequenceTheorems, TLAPS

-----------------------------------------------------------------------------
(* What combining two policies promises, and the takeover guard: nothing   *)
(* that results admits what the policy before refuses.                     *)

\* The ceiling that results admits nothing that the bound one refuses.
LEMMA CeilingNeverLooser ==
    ASSUME NEW a \in Int, NEW b \in Int, NEW x \in Int,
           StrictestCeiling(a, b) > 0 => x <= StrictestCeiling(a, b)
    PROVE  a > 0 => x <= a
BY SMT DEF StrictestCeiling

\* The combined threshold, where neither side has one or one has, is the smaller.
LEMMA ThresholdNeverLooser ==
    ASSUME NEW a \in Thresholds, NEW b \in Thresholds, NEW default \in Nat,
           default > 0, a # 0
    PROVE  /\ StrictestThreshold(a, b, default) \in Nat
           /\ StrictestThreshold(a, b, default) > 0
           /\ StrictestThreshold(a, b, default) <= ThresholdOr(a, default)
BY SMT DEF StrictestThreshold, ThresholdOr, Thresholds, Unset

\* The mode that results is the bound one's or a stricter one.
LEMMA ModeNeverLooser ==
    ASSUME NEW own, NEW requested
    PROVE  /\ EffectiveType(own, requested) \in Modes
           /\ EffectiveType(own, requested) = "unlimited" => ResolveSpendMode(own) = "unlimited"
           /\ EffectiveType(own, requested) = "limit" =>
                    ResolveSpendMode(own) \in {"unlimited", "limit"}
<1> DEFINE b == ResolveSpendMode(own)
           r == ResolveSpendMode(requested)
<1>1. b \in Modes /\ r \in Modes
  BY DEF ResolveSpendMode, Modes
<1>2. /\ ModeStrictness["unlimited"] = 0 /\ ModeStrictness["limit"] = 1
      /\ ModeStrictness["require-approval"] = 2
  BY DEF ModeStrictness, Modes
<1> QED BY <1>1, <1>2, SMT DEF EffectiveType, Modes

\* Only an amount below both thresholds, in order, is signed at once.
LEMMA SmallTier ==
    ASSUME NEW config, NEW amount, NEW n \in Int, NEW small \in Int, NEW large \in Int,
           amount.n = n, SmallThreshold(config) = small, LargeThreshold(config) = large
    PROVE  ResolveTier(amount, config) = "allow" <=>
                amount.tag = "number" /\ n < small /\ small < large
BY SMT DEF ResolveTier

\* combineSpendPolicies: what is signed under the policy that results would
\* be signed under the policy bound to the key, whatever the parent asks for.
THEOREM CombineNeverLooser ==
    ASSUME NEW Type, NEW own \in SpendConfigs(Type), NEW requested \in SpendConfigs(Type),
           NEW amount \in SpendAmounts, NEW spent \in Int,
           own # NoPolicy, WellFormed(own),
           CheckSpendAllowedTiered(CombineSpendPolicies(own, requested), amount, spent) = "allow"
    PROVE  CheckSpendAllowedTiered(own, amount, spent) = "allow"
<1> DEFINE type == EffectiveType(own, requested)
           joint == CombineSpendPolicies(own, requested)
<1>1. /\ own.maxPerTx \in Int /\ own.maxDaily \in Int
      /\ requested.maxPerTx \in Int /\ requested.maxDaily \in Int
      /\ own.smallThreshold \in Thresholds /\ own.largeThreshold \in Thresholds
      /\ requested.smallThreshold \in Thresholds /\ requested.largeThreshold \in Thresholds
      /\ amount.n \in Int
  BY DEF SpendConfigs, SpendAmounts
<1>2. /\ joint.type = type
      /\ joint.smallThreshold =
            StrictestThreshold(own.smallThreshold, requested.smallThreshold, DefaultSmall)
      /\ joint.largeThreshold =
            StrictestThreshold(own.largeThreshold, requested.largeThreshold, DefaultLarge)
      /\ type = "limit" =>
            /\ joint.maxPerTx = StrictestCeiling(own.maxPerTx, requested.maxPerTx)
            /\ joint.maxDaily = StrictestCeiling(own.maxDaily, requested.maxDaily)
  BY DEF CombineSpendPolicies
<1>3. /\ CheckSpendAllowed(joint, amount, spent) = "allow"
      /\ amount # Absent
      /\ ResolveTier(amount, joint) = "allow"
  BY DEF CheckSpendAllowedTiered
<1>4. ResolveSpendMode(joint) = type /\ type \in Modes
  BY <1>2, ModeNeverLooser DEF ResolveSpendMode
<1>5. /\ amount.tag # "malformed" /\ ~(amount.n < 0) /\ ~(spent < 0)
      /\ type \in {"unlimited", "limit"}
      /\ type = "limit" => WithinCeilings(joint, amount.n, spent)
  BY <1>3, <1>4 DEF CheckSpendAllowed, Modes
<1>6. CheckSpendAllowed(own, amount, spent) = "allow"
  <2>1. CASE ResolveSpendMode(own) = "unlimited"
    BY <1>5, <2>1 DEF CheckSpendAllowed
  <2>2. CASE ResolveSpendMode(own) # "unlimited"
    <3>1. type = "limit" /\ ResolveSpendMode(own) = "limit"
      BY <1>5, <2>2, ModeNeverLooser
    <3>2. own.type = "limit"
      BY <3>1 DEF ResolveSpendMode
    <3>3. own.maxPerTx > 0 \/ own.maxDaily > 0
      BY <3>2 DEF WellFormed
    <3>4. /\ joint.maxPerTx > 0 => amount.n <= joint.maxPerTx
          /\ joint.maxDaily > 0 => spent + amount.n <= joint.maxDaily
      BY <1>5, <3>1 DEF WithinCeilings
    <3>5. own.maxPerTx > 0 => amount.n <= own.maxPerTx
      BY <1>1, <1>2, <3>1, <3>4, CeilingNeverLooser
    <3>6. spent + amount.n \in Int
      BY <1>1, SMT
    <3>7. own.maxDaily > 0 => spent + amount.n <= own.maxDaily
      BY <1>1, <1>2, <3>1, <3>4, <3>6, CeilingNeverLooser
    <3> QED BY <1>5, <3>1, <3>3, <3>5, <3>7 DEF CheckSpendAllowed, WithinCeilings
  <2> QED BY <2>1, <2>2
<1>7. ResolveTier(amount, own) = "allow"
  <2>1. /\ joint.smallThreshold \in Nat /\ joint.largeThreshold \in Nat
        /\ joint.smallThreshold <= SmallThreshold(own)
    <3>1. /\ DefaultSmall \in Nat /\ DefaultSmall > 0 /\ own.smallThreshold # 0
          /\ DefaultLarge \in Nat /\ DefaultLarge > 0 /\ own.largeThreshold # 0
      BY ThresholdsAssumption, SMT DEF WellFormed
    <3> QED BY <1>1, <1>2, <3>1, ThresholdNeverLooser DEF SmallThreshold
  <2>2. /\ SmallThreshold(joint) = joint.smallThreshold
        /\ LargeThreshold(joint) = joint.largeThreshold
    BY <2>1, SMT DEF SmallThreshold, LargeThreshold, ThresholdOr, Unset
  <2>3. /\ amount.tag = "number"
        /\ amount.n < joint.smallThreshold
    BY <1>1, <1>3, <2>1, <2>2, SmallTier
  <2>4. SmallThreshold(own) < LargeThreshold(own)
    BY DEF WellFormed
  <2>5. SmallThreshold(own) \in Int /\ LargeThreshold(own) \in Int
    BY <1>1, ThresholdsAssumption, SMT
       DEF SmallThreshold, LargeThreshold, ThresholdOr, Thresholds, Unset
  <2>6. amount.n < SmallThreshold(own)
    BY <1>1, <2>1, <2>3, <2>5, SMT
  <2> QED BY <1>1, <2>3, <2>4, <2>5, <2>6, SmallTier
<1> QED BY <1>3, <1>6, <1>7 DEF CheckSpendAllowedTiered

-----------------------------------------------------------------------------
(* A takeover. *)

\* takeoverGuard: what may be committed under the policy an operation ends
\* with could have been committed under the one it began with.  The later
\* ceilings are assumed not to be negative, which the guard does not test.
THEOREM GuardedCommitNeverLooser ==
    ASSUME NEW Type, NEW before \in SpendConfigs(Type), NEW after \in SpendConfigs(Type),
           NEW amount \in SpendAmounts, NEW spent \in Int,
           WellFormed(before), before.maxPerTx >= 0, before.maxDaily >= 0,
           after.maxPerTx >= 0, after.maxDaily >= 0,
           TakeoverGuard(before, after),
           CheckSpendAllowed(after, amount, spent) = "allow"
    PROVE  CheckSpendAllowed(before, amount, spent) = "allow"
<1>1. /\ before.maxPerTx \in Int /\ before.maxDaily \in Int
      /\ after.maxPerTx \in Int /\ after.maxDaily \in Int
      /\ amount.n \in Int
  BY DEF SpendConfigs, SpendAmounts
<1>2. ResolveSpendMode(before) = ResolveSpendMode(after) /\ ResolveSpendMode(after) \in Modes
  BY DEF TakeoverGuard, ResolveSpendMode, Modes
<1>3. CASE ResolveSpendMode(after) # "limit"
  BY <1>2, <1>3 DEF CheckSpendAllowed, Modes
<1>4. CASE ResolveSpendMode(after) = "limit"
  <2>1. before.type = "limit"
    BY <1>2, <1>4 DEF ResolveSpendMode
  <2>2. before.maxPerTx > 0 \/ before.maxDaily > 0
    BY <2>1 DEF WellFormed
  <2>3. /\ before.maxPerTx > 0 => after.maxPerTx > 0 /\ after.maxPerTx <= before.maxPerTx
        /\ before.maxDaily > 0 => after.maxDaily > 0 /\ after.maxDaily <= before.maxDaily
    <3>1. ~Loosened(before.maxPerTx, after.maxPerTx) /\ ~Loosened(before.maxDaily, after.maxDaily)
      BY <1>4 DEF TakeoverGuard
    <3> QED BY <1>1, <3>1, SMT DEF Loosened
  <2>4. /\ amount.tag # "malformed" /\ ~(amount.n < 0) /\ ~(spent < 0)
        /\ WithinCeilings(after, amount.n, spent)
    BY <1>4 DEF CheckSpendAllowed
  <2>5. WithinCeilings(before, amount.n, spent)
    BY <1>1, <2>2, <2>3, <2>4, SMT DEF WithinCeilings
  <2> QED BY <1>2, <1>4, <2>4, <2>5 DEF CheckSpendAllowed
<1> QED BY <1>3, <1>4

\* takeoverWallet: after a takeover nothing is committed and nothing signed.
THEOREM TakenOverStops ==
    ASSUME NEW before, NEW amount, NEW spent
    PROVE  /\ ~TakeoverGuard(before, TakenOver)
           /\ CheckSpendAllowed(TakenOver, amount, spent) # "allow"
<1>1. ResolveSpendMode(TakenOver) = "require-approval"
  BY DEF ResolveSpendMode, TakenOver, NoPolicy, Modes
<1> QED BY <1>1 DEF TakeoverGuard, CheckSpendAllowed

-----------------------------------------------------------------------------
\* The policy that the worker should have.
Effective == IF bound = NoPolicy THEN asked ELSE CombineSpendPolicies(bound, asked)

\* The values of the state's parts.
Outcomes == {"idle", "waiting", "refused", "signed", "timelocked", "pong", "timed out", "terminated"}
WorkerTypes == {"init", "sign", "sign_intent", "sign_message", "overflow", "ping", "exit"}
ParentTypes == {"init_ok", "init_fail", "signature", "sign_fail", "sign_timelock", "pong", "exiting"}
Messages(Types) == [type : Types, id : Nat, call : Calls \cup {Nobody}]

\* Messages that may become a signature, and those that tell of one.
Asking(m) == m.type \in {"sign", "sign_intent", "sign_message", "overflow"}
Answering(m) == m.type \in {"signature", "sign_fail", "sign_timelock"}

\* A handle was handed out.
Usable == handle \in {"open", "closed"}
Waits(c) == outcome[c] = "waiting" /\ request[c].channel # "ping"

\* Types.
Shape ==
    /\ worker \in {"booting", "ready", "failed", "leaving", "gone"}
    /\ handle \in {"spawning", "open", "closed", "lost"}
    /\ toWorker \in Seq(Messages(WorkerTypes)) /\ toParent \in Seq(Messages(ParentTypes))
    /\ requestId \in Nat
    /\ outcome \in [Calls -> Outcomes] /\ result \in [Calls -> Calls \cup {Nobody}]
    /\ request \in [Calls -> Requests \cup {Unused}]
    /\ \A c \in Calls : outcome[c] # "idle" => request[c] \in Requests
    /\ signatures \subseteq Calls /\ pinging \in Calls \cup {Nobody}
    /\ bound \in BoundPolicies /\ session \in Sessions
    /\ asked \in {PolicyFor(given, session) : given \in ParentPolicies}

\* The map holds a request of every call that waits, and of no other.
TableOK ==
    /\ \A i \in DOMAIN pending : i \in 1..requestId /\ pending[i] \in Calls /\ Waits(pending[i])
    /\ \A i, j \in DOMAIN pending : pending[i] = pending[j] => i = j
    /\ \A c \in Calls : Waits(c) => \E i \in DOMAIN pending : pending[i] = c
    /\ pinging # Nobody => outcome[pinging] = "waiting" /\ request[pinging].channel = "ping"

\* An id is one call's.
Names(m) == m.call \in Calls /\ m.id \in 1..requestId /\ (m.id \in DOMAIN pending => pending[m.id] = m.call)

\* A request on its way is the only one of its call, which was not signed, nor
\* told that it was not.
AskOK(m) ==
    /\ Names(m)
    /\ m.call \notin signatures
    /\ outcome[m.call] \notin {"idle", "signed", "refused", "timelocked"}
    /\ request[m.call].channel = "asset" => SessionAdmits(request[m.call])

AsksOK ==
    /\ \A i \in DOMAIN toWorker : Asking(toWorker[i]) => AskOK(toWorker[i])
    /\ \A i, j \in DOMAIN toWorker :
           Asking(toWorker[i]) /\ Asking(toWorker[j]) /\ toWorker[i].call = toWorker[j].call => i = j
    /\ \A i \in DOMAIN toWorker, k \in DOMAIN toParent :
           Asking(toWorker[i]) /\ Answering(toParent[k]) => toWorker[i].call # toParent[k].call

\* An answer on its way is true.
AnswerOK(m) ==
    /\ Names(m)
    /\ outcome[m.call] # "idle"
    /\ m.type = "signature" <=> m.call \in signatures

AnswersOK == \A k \in DOMAIN toParent : Answering(toParent[k]) => AnswerOK(toParent[k])

\* What callers were told is true.
Told ==
    \A c \in Calls :
        /\ outcome[c] = "signed" => result[c] = c /\ c \in signatures
        /\ outcome[c] \in {"refused", "timelocked"} => c \notin signatures
        /\ c \in signatures => outcome[c] # "idle"

\* A worker that was initialised has the policy that it should; before that
\* nobody can ask it anything.
Announced == \E k \in DOMAIN toParent : toParent[k].type = "init_ok"

PolicyTaken ==
    /\ worker \in {"ready", "leaving"} \/ Usable \/ Announced =>
           worker \in {"ready", "leaving", "gone"} /\ policy = Effective
    /\ ~Usable => \A i \in DOMAIN toWorker : toWorker[i].type = "init"
    /\ \A i \in DOMAIN toWorker : toWorker[i].type = "init" =>
           Len(toWorker) = 1 /\ worker \in {"booting", "gone"} /\ ~Usable /\ ~Announced

\* What was signed the policy allows, and the session.
Allowed(r) ==
    /\ r.channel = "sign" => bound = NoPolicy
    /\ r.channel \in {"sign_intent", "asset"} => HasIntentAmount(r)
    /\ r.channel # "sign_message" /\ Effective.type # "absent" =>
           CheckSpendAllowedTiered(Effective, r.amount, 0) = "allow"
    /\ r.channel = "asset" => SessionAdmits(r)

SignedAllowed == \A c \in signatures : Allowed(request[c])

\* The inductive invariant.
IInv == Shape /\ TableOK /\ AsksOK /\ AnswersOK /\ Told /\ PolicyTaken /\ SignedAllowed

USE DEF setup, calls, table, vars
-----------------------------------------------------------------------------
(* The pipes. *)

\* A message more, at the end.
LEMMA Appended ==
    ASSUME NEW S, NEW q \in Seq(S), NEW m \in S
    PROVE  /\ Append(q, m) \in Seq(S)
           /\ \A i \in DOMAIN Append(q, m) :
                  \/ i \in DOMAIN q /\ Append(q, m)[i] = q[i]
                  \/ i = Len(q) + 1 /\ i \notin DOMAIN q /\ Append(q, m)[i] = m
<1>1. /\ Append(q, m) \in Seq(S) /\ Len(Append(q, m)) = Len(q) + 1
      /\ \A i \in 1..Len(q) : Append(q, m)[i] = q[i]
      /\ Append(q, m)[Len(q) + 1] = m
    BY AppendProperties
<1>2. /\ Len(q) \in Nat /\ DOMAIN q = 1..Len(q) /\ DOMAIN Append(q, m) = 1..(Len(q) + 1)
    BY <1>1, LenProperties
<1> QED
    BY <1>1, <1>2

\* The first message is read, and the others move up.
LEMMA Popped ==
    ASSUME NEW S, NEW q \in Seq(S), q # <<>>
    PROVE  /\ Tail(q) \in Seq(S) /\ Head(q) \in S /\ 1 \in DOMAIN q /\ Head(q) = q[1]
           /\ DOMAIN q = 1..Len(q) /\ Len(q) \in Nat
           /\ \A i \in DOMAIN Tail(q) : i \in Nat /\ i + 1 \in DOMAIN q /\ i + 1 # 1 /\ Tail(q)[i] = q[i + 1]
<1>1. /\ Tail(q) \in Seq(S) /\ Head(q) \in S /\ Len(Tail(q)) = Len(q) - 1
      /\ \A i \in 1..Len(Tail(q)) : Tail(q)[i] = q[i + 1]
    BY HeadTailProperties
<1>2. Len(q) \in Nat \ {0} /\ DOMAIN q = 1..Len(q) /\ DOMAIN Tail(q) = 1..(Len(q) - 1)
    BY <1>1, LenProperties, EmptySeq
<1>3. Head(q) = q[1]
    BY DEF Head
<1> QED
    BY <1>1, <1>2, <1>3

-----------------------------------------------------------------------------
(* The worker. *)

\* A policy that was taken stays taken while the queues run empty.
LEMMA PolicyKept ==
    ASSUME Shape, PolicyTaken, UNCHANGED <<policy, bound, asked, handle>>,
           worker' = worker \/ worker' = "gone" \/ (worker' = "leaving" /\ Usable),
           Announced' => Announced,
           \A i \in DOMAIN toWorker' : \E j \in DOMAIN toWorker : toWorker[j] = toWorker'[i],
           toWorker' # toWorker => \A i \in DOMAIN toWorker' : toWorker'[i].type # "init"
    PROVE  PolicyTaken'
<1> USE DEF PolicyTaken, Effective, Usable
<1>1. worker' \in {"ready", "leaving"} \/ Usable' \/ Announced' =>
        worker' \in {"ready", "leaving", "gone"} /\ policy' = Effective'
    OBVIOUS
<1>2. ~Usable' => \A i \in DOMAIN toWorker' : toWorker'[i].type = "init"
    OBVIOUS
<1>3. \A i \in DOMAIN toWorker' : toWorker'[i].type = "init" =>
          Len(toWorker') = 1 /\ worker' \in {"booting", "gone"} /\ ~Usable' /\ ~Announced'
    OBVIOUS
<1> QED
    BY <1>1, <1>2, <1>3

\* The worker reads a message and replies; what it signs its policy allows.
LEMMA Replies ==
    ASSUME IInv, toWorker # <<>>, Head(toWorker).type # "init", toWorker' = Tail(toWorker),
           NEW m \in Messages(ParentTypes), toParent' = Append(toParent, m), m.type # "init_ok",
           Answering(m) => /\ Asking(Head(toWorker))
                           /\ m.id = Head(toWorker).id /\ m.call = Head(toWorker).call
                           /\ m.type = "signature" <=> signatures' # signatures,
           \/ signatures' = signatures
           \/ /\ signatures' = signatures \cup {Head(toWorker).call}
              /\ Answering(m) /\ Allowed(request[Head(toWorker).call]),
           worker' = worker \/ (worker' = "leaving" /\ Usable),
           UNCHANGED <<policy, handle, table, calls, setup>>
    PROVE  IInv'
<1> USE DEF IInv
<1> DEFINE h == Head(toWorker)
<1>1. /\ toWorker \in Seq(Messages(WorkerTypes)) /\ toParent \in Seq(Messages(ParentTypes))
    BY DEF Shape
<1>2. /\ Tail(toWorker) \in Seq(Messages(WorkerTypes)) /\ 1 \in DOMAIN toWorker /\ h = toWorker[1]
      /\ \A i \in DOMAIN toWorker' : i \in Nat /\ i + 1 \in DOMAIN toWorker /\ i + 1 # 1 /\
           toWorker'[i] = toWorker[i + 1]
    BY <1>1, Popped
<1>3. /\ toParent' \in Seq(Messages(ParentTypes))
      /\ \A k \in DOMAIN toParent' : (k \in DOMAIN toParent /\ toParent'[k] = toParent[k]) \/ toParent'[k] = m
    BY <1>1, Appended
<1> HIDE DEF h
<1>4. Asking(h) => AskOK(h) /\ h.call \in Calls /\ h.call \notin signatures
    BY <1>2 DEF AsksOK, AskOK, Names
<1>5. signatures' # signatures => Asking(h) /\ signatures' = signatures \cup {h.call} /\ Allowed(request[h.call])
    BY DEF h
<1>6. Shape'
    <2>1. signatures' \subseteq Calls
        BY <1>4, <1>5 DEF Shape
    <2>2. worker' \in {"booting", "ready", "failed", "leaving", "gone"}
        BY DEF Shape
    <2> QED
        BY <1>2, <1>3, <2>1, <2>2 DEF Shape
<1>7. TableOK'
    BY DEF TableOK, Waits
<1>8. \A i \in DOMAIN toWorker' : Asking(toWorker'[i]) /\ Asking(h) => toWorker'[i].call # h.call
    BY <1>2 DEF AsksOK
<1>9. \A n : Names(n)' <=> Names(n)
    BY DEF Names
<1>10. AsksOK'
    <2>1. ASSUME NEW i \in DOMAIN toWorker', Asking(toWorker'[i]) PROVE AskOK(toWorker[i])'
        <3>1. AskOK(toWorker'[i])
            BY <1>2, <2>1 DEF AsksOK
        <3>2. toWorker'[i].call \notin signatures'
            BY <1>5, <1>8, <2>1, <3>1 DEF AskOK
        <3>3. Names(toWorker'[i])
            BY <3>1 DEF AskOK
        <3>4. Names(toWorker[i])'
            BY <3>3 DEF Names
        <3> QED
            BY <3>1, <3>2, <3>4 DEF AskOK, SessionAdmits
    <2>2. ASSUME NEW i \in DOMAIN toWorker', NEW j \in DOMAIN toWorker', Asking(toWorker'[i]), Asking(toWorker'[j]),
                 toWorker'[i].call = toWorker'[j].call
          PROVE  i = j
        <3>1. i + 1 = j + 1
            BY <1>2, <2>2 DEF AsksOK
        <3> QED
            BY <1>2, <3>1
    <2>3. ASSUME NEW i \in DOMAIN toWorker', NEW k \in DOMAIN toParent', Asking(toWorker'[i]), Answering(toParent'[k])
          PROVE  toWorker'[i].call # toParent'[k].call
        <3>1. CASE k \in DOMAIN toParent /\ toParent'[k] = toParent[k]
            BY <1>2, <2>3, <3>1 DEF AsksOK
        <3>2. CASE toParent'[k] = m
            BY <1>8, <2>3, <3>2 DEF h
        <3> QED
            BY <1>3, <3>1, <3>2
    <2> QED
        BY <2>1, <2>2, <2>3 DEF AsksOK
<1>11. AnswersOK'
    <2> SUFFICES ASSUME NEW k \in DOMAIN toParent', Answering(toParent'[k]) PROVE AnswerOK(toParent[k])'
        BY DEF AnswersOK
    <2>1. CASE k \in DOMAIN toParent /\ toParent'[k] = toParent[k]
        <3>1. AnswerOK(toParent[k]) /\ Answering(toParent[k])
            BY <2>1 DEF AnswersOK
        <3>2. Asking(h) => h.call # toParent[k].call
            <4>1. \A i \in DOMAIN toWorker : Asking(toWorker[i]) => toWorker[i].call # toParent[k].call
                BY <2>1, <3>1 DEF AsksOK
            <4> QED
                BY <1>2, <4>1
        <3>3. toParent[k].call \in signatures' <=> toParent[k].call \in signatures
            BY <1>5, <3>2
        <3> QED
            BY <2>1, <3>1, <3>3 DEF AnswerOK, Names
    <2>2. CASE toParent'[k] = m
        <3>1. Asking(h) /\ m.id = h.id /\ m.call = h.call /\ (m.type = "signature" <=> signatures' # signatures)
            BY <2>2 DEF h
        <3>2. m.type = "signature" <=> m.call \in signatures'
            BY <1>4, <1>5, <3>1
        <3>3. Names(h) /\ outcome[h.call] # "idle"
            BY <1>4, <3>1 DEF AskOK
        <3> QED
            BY <2>2, <3>1, <3>2, <3>3 DEF AnswerOK, Names
    <2> QED
        BY <1>3, <2>1, <2>2
<1>12. Told'
    BY <1>4, <1>5 DEF Told, AskOK
<1>13. PolicyTaken'
    <2>1. Announced' => Announced
        BY <1>3 DEF Announced
    <2>2. \A i \in DOMAIN toWorker' : \E j \in DOMAIN toWorker : toWorker[j] = toWorker'[i]
        BY <1>2
    <2>3. \A i \in DOMAIN toWorker' : toWorker'[i].type # "init"
        <3>1. ASSUME NEW i \in DOMAIN toWorker', toWorker'[i].type = "init" PROVE FALSE
            <4>1. Len(toWorker) = 1
                BY <1>2, <3>1 DEF PolicyTaken
            <4>2. DOMAIN toWorker = 1..1
                BY <1>1, <4>1, LenProperties
            <4> QED
                BY <1>2, <4>2
        <3> QED
            BY <3>1
    <2> QED
        BY <2>1, <2>2, <2>3, PolicyKept
<1>14. SignedAllowed'
    <2>1. \A r : Allowed(r)' <=> Allowed(r)
        BY DEF Allowed, Effective, SessionAdmits
    <2> QED
        BY <1>5, <2>1 DEF SignedAllowed, Allowed, Effective, SessionAdmits
<1> QED
    BY <1>6, <1>7, <1>10, <1>11, <1>12, <1>13, <1>14
\* Booting ends with the policy taken, or with nobody to ask.
LEMMA InitWorkerKeeps == ASSUME IInv, InitWorker PROVE IInv'
<1> USE DEF IInv
<1>1. /\ toWorker \in Seq(Messages(WorkerTypes)) /\ toParent \in Seq(Messages(ParentTypes))
      /\ toWorker # <<>> /\ Head(toWorker).type = "init" /\ toWorker' = Tail(toWorker) /\ worker # "gone"
      /\ UNCHANGED <<handle, table, calls, setup, signatures>>
    BY DEF Shape, InitWorker, Receives, Alive
<1>2. /\ toWorker' \in Seq(Messages(WorkerTypes)) /\ 1 \in DOMAIN toWorker /\ Head(toWorker) = toWorker[1]
      /\ Head(toWorker) \in Messages(WorkerTypes)
      /\ \A i \in DOMAIN toWorker' : i \in Nat /\ i + 1 \in DOMAIN toWorker /\ i + 1 # 1 /\
           toWorker'[i] = toWorker[i + 1]
    BY <1>1, Popped
<1>3. Len(toWorker) = 1 /\ worker = "booting" /\ ~Usable /\ ~Announced
    BY <1>1, <1>2 DEF PolicyTaken
<1>4. \A i \in DOMAIN toWorker' : FALSE
    <2>1. DOMAIN toWorker = 1..1
        BY <1>1, <1>3, LenProperties
    <2> QED
        BY <1>2, <2>1
<1>5. \/ worker' = "ready" /\ policy' = Effective
         /\ toParent' = Append(toParent, [type |-> "init_ok", id |-> Head(toWorker).id, call |-> Head(toWorker).call])
      \/ worker' = "failed" /\ policy' = policy
         /\ toParent' = Append(toParent, [type |-> "init_fail", id |-> Head(toWorker).id, call |-> Head(toWorker).call])
    BY DEF InitWorker, Reply, Effective
<1>6. PICK type \in {"init_ok", "init_fail"} :
          /\ toParent' = Append(toParent, [type |-> type, id |-> Head(toWorker).id, call |-> Head(toWorker).call])
          /\ type = "init_ok" => worker' = "ready" /\ policy' = Effective
          /\ type = "init_fail" => worker' = "failed"
    BY <1>5
<1> DEFINE m == [type |-> type, id |-> Head(toWorker).id, call |-> Head(toWorker).call]
<1>7. m \in Messages(ParentTypes) /\ ~Answering(m) /\ m.type = type
    BY <1>2 DEF Messages, ParentTypes, Answering
<1> HIDE DEF m
<1>8. /\ toParent' \in Seq(Messages(ParentTypes))
      /\ \A k \in DOMAIN toParent' : (k \in DOMAIN toParent /\ toParent'[k] = toParent[k]) \/ toParent'[k] = m
    <2>1. toParent' = Append(toParent, m)
        BY <1>6 DEF m
    <2> QED
        BY <1>1, <1>7, <2>1, Appended
<1>9. Shape'
    <2>1. worker' \in {"booting", "ready", "failed", "leaving", "gone"}
        BY <1>5
    <2> QED
        BY <1>1, <1>2, <1>8, <2>1 DEF Shape
<1>10. TableOK' /\ Told'
    BY <1>1 DEF TableOK, Waits, Told
<1>11. AsksOK'
    BY <1>4 DEF AsksOK
<1>12. AnswersOK'
    BY <1>1, <1>7, <1>8 DEF AnswersOK, AnswerOK, Names
<1>13. PolicyTaken'
    <2>1. ~Usable' /\ Effective' = Effective
        BY <1>1, <1>3 DEF Usable, Effective
    <2>2. worker' \in {"ready", "leaving"} \/ Announced' => worker' = "ready" /\ policy' = Effective
        BY <1>3, <1>6, <1>7, <1>8 DEF Announced
    <2> QED
        BY <1>4, <2>1, <2>2 DEF PolicyTaken
<1>14. SignedAllowed'
    BY <1>1 DEF SignedAllowed, Allowed, Effective, SessionAdmits
<1> QED
    BY <1>9, <1>10, <1>11, <1>12, <1>13, <1>14

\* What is not "init" reaches a worker that took its policy.
LEMMA Served ==
    ASSUME IInv, toWorker # <<>>, Head(toWorker).type # "init"
    PROVE  /\ Head(toWorker) \in Messages(WorkerTypes)
           /\ Usable /\ worker \in {"ready", "leaving", "gone"} /\ policy = Effective
           /\ Asking(Head(toWorker)) => AskOK(Head(toWorker))
<1>1. Head(toWorker) \in Messages(WorkerTypes) /\ 1 \in DOMAIN toWorker /\ Head(toWorker) = toWorker[1]
    BY Popped DEF IInv, Shape
<1> QED
    BY <1>1 DEF IInv, PolicyTaken, AsksOK

\* signs, sign_fail, sign_timelock: only what the policy allows is signed.
LEMMA HandleKeeps ==
    ASSUME IInv, NEW type \in Channels \ {"ping", "asset"}, Handle(type)
    PROVE  IInv'
<1> DEFINE h == Head(toWorker)
<1>1. toWorker # <<>> /\ h.type = type /\ type \in {"sign", "sign_intent", "sign_message"} /\ h.type # "init"
    BY DEF Handle, Channels
<1>2. Asking(h) /\ AskOK(h) /\ h \in Messages(WorkerTypes) /\ Usable /\ policy = Effective /\
        worker \in {"ready", "leaving", "gone"}
    BY <1>1, Served DEF Asking
<1> DEFINE r == request[h.call]
<1>3. \/ HandleSign(type, "sign_fail", FALSE)
      \/ HandleSign(type, "sign_timelock", FALSE)
      \/ HandleSign(type, "signature", TRUE) /\ ~Refuses(r) /\ Verdict(r) = "allow"
    BY DEF Handle
<1>4. h.call \in Calls /\ h.call \notin signatures /\ (r.channel = "asset" => SessionAdmits(r)) /\
        r \in Requests /\ h.id \in Nat
    BY <1>2 DEF AskOK, Names, IInv, Shape, Messages
<1>5. PICK reply \in {"sign_fail", "sign_timelock", "signature"}, signs \in BOOLEAN :
          /\ HandleSign(type, reply, signs) /\ (signs <=> reply = "signature")
          /\ signs => ~Refuses(r) /\ Verdict(r) = "allow"
    BY <1>3, Zenon
<1> DEFINE m == [type |-> reply, id |-> h.id, call |-> h.call]
<1>6. m \in Messages(ParentTypes) /\ m.type = reply /\ m.id = h.id /\ m.call = h.call
    BY <1>4 DEF Messages, ParentTypes
<1>7. /\ toWorker' = Tail(toWorker) /\ toParent' = Append(toParent, m)
      /\ signatures' = IF signs THEN signatures \cup {h.call} ELSE signatures
      /\ UNCHANGED <<worker, policy, handle, table, calls, setup>>
    BY <1>5 DEF HandleSign, Receives, Reply
<1>8. signs => Allowed(r)
    <2>1. CASE r.channel = "sign_message"
        BY <2>1 DEF Allowed
    <2>2. CASE r.channel # "sign_message"
        <3>1. ASSUME signs PROVE ~Refuses(r) /\ (HasPolicy => CheckSpendAllowedTiered(policy, r.amount, 0) = "allow")
            BY <1>5, <2>2, <3>1 DEF Verdict
        <3> QED
            BY <1>2, <1>4, <2>2, <3>1 DEF Allowed, Refuses, HasPolicy
    <2> QED
        BY <2>1, <2>2
<1> HIDE DEF r
<1>9. Answering(m) /\ m.type # "init_ok" /\ (m.type = "signature" <=> signatures' # signatures)
    <2>1. signs <=> signatures' # signatures
        BY <1>4, <1>7
    <2> QED
        BY <1>5, <1>6, <2>1 DEF Answering
<1>10. \/ signatures' = signatures
       \/ signatures' = signatures \cup {h.call} /\ Answering(m) /\ Allowed(request[h.call])
    BY <1>7, <1>8, <1>9 DEF r
<1> HIDE DEF m, h
<1>11. /\ h = Head(toWorker)
    BY DEF h
<1> QED
    BY <1>1, <1>2, <1>6, <1>7, <1>9, <1>10, <1>11, Replies

\* A pong and the announced exit sign nothing.
LEMMA HandlePingExitKeeps == ASSUME IInv, HandlePing \/ HandleExit PROVE IInv'
<1>1. toWorker # <<>> /\ Head(toWorker).type # "init" /\ toWorker' = Tail(toWorker)
    BY DEF HandlePing, HandleExit, Receives
<1>2. Usable /\ Head(toWorker).id \in Nat /\ Head(toWorker).call \in Calls \cup {Nobody}
    BY <1>1, Served DEF Messages
<1>3. PICK type \in {"pong", "exiting"} :
          /\ toParent' = Append(toParent, [type |-> type, id |-> Head(toWorker).id, call |-> Head(toWorker).call])
          /\ worker' = worker \/ worker' = "leaving"
          /\ UNCHANGED <<policy, handle, table, calls, setup, signatures>>
    BY DEF HandlePing, HandleExit, Reply
<1> DEFINE m == [type |-> type, id |-> Head(toWorker).id, call |-> Head(toWorker).call]
<1>4. m \in Messages(ParentTypes) /\ ~Answering(m) /\ m.type # "init_ok"
    BY <1>2 DEF Messages, ParentTypes, Answering
<1>5. toParent' = Append(toParent, m)
    BY <1>3
<1> HIDE DEF m
<1> QED
    BY <1>1, <1>2, <1>3, <1>4, <1>5, Replies

\* The worker goes, with what it read and did not answer.
LEMMA GoneKeeps == ASSUME IInv, Leave \/ HandleOverflow PROVE IInv'
<1> USE DEF IInv
<1>1. /\ worker' = "gone" /\ UNCHANGED <<policy, handle, toParent, table, calls, setup, signatures>>
      /\ \/ UNCHANGED toWorker
         \/ toWorker # <<>> /\ Head(toWorker).type = "overflow" /\ toWorker' = Tail(toWorker)
    BY DEF Leave, HandleOverflow, Receives
<1>2. toWorker \in Seq(Messages(WorkerTypes))
    BY DEF Shape
<1>3. PICK n \in {0, 1} :
          /\ toWorker' \in Seq(Messages(WorkerTypes))
          /\ \A i \in DOMAIN toWorker' : i \in Nat /\ i + n \in DOMAIN toWorker /\ toWorker'[i] = toWorker[i + n]
          /\ n = 0 => toWorker' = toWorker
          /\ n = 1 => \A i \in DOMAIN toWorker' : toWorker'[i].type # "init"
    <2>1. CASE toWorker' = toWorker
        <3>1. \A i \in DOMAIN toWorker : i \in Nat /\ i + 0 \in DOMAIN toWorker /\ toWorker[i] = toWorker[i + 0]
            BY <1>2, LenProperties
        <3> QED
            BY <1>2, <2>1, <3>1
    <2>2. CASE toWorker # <<>> /\ Head(toWorker).type = "overflow" /\ toWorker' = Tail(toWorker)
        <3>1. /\ toWorker' \in Seq(Messages(WorkerTypes)) /\ 1 \in DOMAIN toWorker /\
                   DOMAIN toWorker = 1..Len(toWorker)
              /\ \A i \in DOMAIN toWorker' : i \in Nat /\ i + 1 \in DOMAIN toWorker /\ i + 1 # 1 /\
                   toWorker'[i] = toWorker[i + 1]
            BY <1>2, <2>2, Popped
        <3>2. \A i \in DOMAIN toWorker' : toWorker'[i].type # "init"
            BY <3>1 DEF PolicyTaken
        <3> QED
            BY <3>1, <3>2
    <2> QED
        BY <1>1, <2>1, <2>2
<1>4. Shape'
    BY <1>1, <1>3 DEF Shape
<1>5. TableOK' /\ Told' /\ SignedAllowed'
    BY <1>1 DEF TableOK, Waits, Told, SignedAllowed, Allowed, Effective, SessionAdmits
<1>6. AsksOK'
    <2>1. ASSUME NEW i \in DOMAIN toWorker', Asking(toWorker'[i]) PROVE AskOK(toWorker[i])'
        <3>1. AskOK(toWorker'[i])
            BY <1>3, <2>1 DEF AsksOK
        <3> QED
            BY <1>1, <3>1 DEF AskOK, Names, SessionAdmits
    <2>2. ASSUME NEW i \in DOMAIN toWorker', NEW j \in DOMAIN toWorker', Asking(toWorker'[i]), Asking(toWorker'[j]),
                 toWorker'[i].call = toWorker'[j].call
          PROVE  i = j
        <3>1. i + n = j + n
            BY <1>3, <2>2 DEF AsksOK
        <3> QED
            BY <1>3, <3>1
    <2>3. ASSUME NEW i \in DOMAIN toWorker', NEW k \in DOMAIN toParent', Asking(toWorker'[i]), Answering(toParent'[k])
          PROVE  toWorker'[i].call # toParent'[k].call
        BY <1>1, <1>3, <2>3 DEF AsksOK
    <2> QED
        BY <2>1, <2>2, <2>3 DEF AsksOK
<1>7. AnswersOK'
    BY <1>1 DEF AnswersOK, AnswerOK, Names
<1>8. PolicyTaken'
    <2>1. Announced' => Announced
        BY <1>1 DEF Announced
    <2>2. \A i \in DOMAIN toWorker' : \E j \in DOMAIN toWorker : toWorker[j] = toWorker'[i]
        BY <1>3
    <2> QED
        BY <1>1, <1>3, <2>1, <2>2, PolicyKept
<1> QED
    BY <1>4, <1>5, <1>6, <1>7, <1>8
-----------------------------------------------------------------------------
(* The parent. *)

\* The parent reads the first message, or none.
LEMMA FewerAnswers ==
    ASSUME Shape, toParent' = toParent \/ (toParent # <<>> /\ toParent' = Tail(toParent))
    PROVE  /\ toParent' \in Seq(Messages(ParentTypes))
           /\ \A k \in DOMAIN toParent' : \E j \in DOMAIN toParent : toParent'[k] = toParent[j]
           /\ toParent # <<>> => 1 \in DOMAIN toParent /\ Head(toParent) = toParent[1] /\
                Head(toParent) \in Messages(ParentTypes)
<1>1. toParent \in Seq(Messages(ParentTypes))
    BY DEF Shape
<1>2. CASE toParent # <<>> /\ toParent' = Tail(toParent)
    BY <1>1, <1>2, Popped
<1>3. CASE toParent' = toParent
    <2>1. toParent # <<>> =>
            1 \in DOMAIN toParent /\ Head(toParent) = toParent[1] /\ Head(toParent) \in Messages(ParentTypes)
        BY <1>1, Popped
    <2> QED
        BY <1>1, <1>3, <2>1
<1> QED
    BY <1>2, <1>3

\* A handle is handed out on the word of a worker that took its policy.
LEMMA SpawnEndsKeeps == ASSUME IInv, SpawnEnds PROVE IInv'
<1> USE DEF IInv
<1>1. /\ UNCHANGED <<worker, policy, toWorker, table, calls, setup, signatures>>
      /\ handle = "spawning" /\ handle' \in {"open", "lost"} /\ ~Usable
      /\ toParent' = toParent \/ (toParent # <<>> /\ toParent' = Tail(toParent))
      /\ handle' = "open" => toParent # <<>> /\ Head(toParent).type = "init_ok"
    BY DEF SpawnEnds, Usable
<1>2. /\ toParent' \in Seq(Messages(ParentTypes))
      /\ \A k \in DOMAIN toParent' : \E j \in DOMAIN toParent : toParent'[k] = toParent[j]
      /\ toParent # <<>> => 1 \in DOMAIN toParent /\ Head(toParent) = toParent[1]
    BY <1>1, FewerAnswers
<1>3. Usable' => Announced
    BY <1>1, <1>2 DEF Usable, Announced
<1>4. Announced' => Announced
    BY <1>2 DEF Announced
<1>5. Shape'
    BY <1>1, <1>2 DEF Shape
<1>6. TableOK' /\ Told' /\ SignedAllowed'
    BY <1>1 DEF TableOK, Waits, Told, SignedAllowed, Allowed, Effective, SessionAdmits
<1>7. AsksOK'
    BY <1>1 DEF AsksOK, PolicyTaken, Asking
<1>8. AnswersOK'
    BY <1>1, <1>2 DEF AnswersOK, AnswerOK, Names
<1>9. PolicyTaken'
    BY <1>1, <1>3, <1>4 DEF PolicyTaken, Effective
<1> QED
    BY <1>5, <1>6, <1>7, <1>8, <1>9

\* A promise is settled: of what is on its way, nothing becomes untrue.
LEMMA Settles ==
    ASSUME IInv, UNCHANGED <<worker, policy, toWorker, requestId, request, setup, signatures>>,
           toParent' = toParent \/ (toParent # <<>> /\ toParent' = Tail(toParent)),
           handle' = handle \/ (Usable /\ handle' = "closed"),
           TableOK', Told',
           DOMAIN pending' \subseteq DOMAIN pending, \A i \in DOMAIN pending' : pending'[i] = pending[i],
           pinging' \in {pinging, Nobody},
           outcome' \in [Calls -> Outcomes], result' \in [Calls -> Calls \cup {Nobody}],
           \A c \in Calls :
               \/ outcome'[c] = outcome[c]
               \/ /\ outcome[c] = "waiting" /\ outcome'[c] # "idle"
                  /\ \/ outcome'[c] \in {"pong", "timed out", "terminated"}
                     \/ \A i \in DOMAIN toWorker : Asking(toWorker[i]) => toWorker[i].call # c
    PROVE  IInv'
<1> USE DEF IInv
<1>1. /\ toParent' \in Seq(Messages(ParentTypes))
      /\ \A k \in DOMAIN toParent' : \E j \in DOMAIN toParent : toParent'[k] = toParent[j]
    BY FewerAnswers
<1>2. \A m : Names(m) => Names(m)'
    BY DEF Names
<1>3. \A c \in Calls : outcome[c] # "idle" <=> outcome'[c] # "idle"
    OBVIOUS
<1>4. Shape'
    <2>1. handle' \in {"spawning", "open", "closed", "lost"} /\ pinging' \in Calls \cup {Nobody}
        BY DEF Shape
    <2> QED
        BY <1>1, <1>3, <2>1 DEF Shape
<1>5. AsksOK'
    <2>1. ASSUME NEW i \in DOMAIN toWorker, Asking(toWorker[i]) PROVE AskOK(toWorker[i])'
        <3>1. AskOK(toWorker[i]) /\ Names(toWorker[i]) /\ toWorker[i].call \in Calls
            BY <2>1 DEF AsksOK, AskOK, Names
        <3>2. outcome'[toWorker[i].call] \notin {"idle", "signed", "refused", "timelocked"}
            BY <2>1, <3>1 DEF AskOK
        <3>3. Names(toWorker[i])'
            BY <3>1 DEF Names
        <3> QED
            BY <3>1, <3>2, <3>3 DEF AskOK, SessionAdmits
    <2>2. ASSUME NEW i \in DOMAIN toWorker, NEW k \in DOMAIN toParent', Asking(toWorker[i]), Answering(toParent'[k])
          PROVE  toWorker[i].call # toParent'[k].call
        <3>1. PICK j \in DOMAIN toParent : toParent'[k] = toParent[j]
            BY <1>1
        <3>2. Answering(toParent[j])
            BY <2>2, <3>1
        <3>3. AsksOK
            OBVIOUS
        <3>4. toWorker[i].call # toParent[j].call
            BY ONLY <2>2, <3>2, <3>3 DEF AsksOK
        <3> QED
            BY ONLY <3>1, <3>4
    <2> QED
        BY <2>1, <2>2 DEF AsksOK
<1>6. AnswersOK'
    <2> SUFFICES ASSUME NEW k \in DOMAIN toParent', Answering(toParent'[k]) PROVE AnswerOK(toParent[k])'
        BY DEF AnswersOK
    <2>1. AnswerOK(toParent'[k])
        BY <1>1 DEF AnswersOK
    <2>2. Names(toParent'[k]) /\ toParent'[k].call \in Calls
        BY <2>1 DEF AnswerOK, Names
    <2>3. Names(toParent[k])'
        BY <2>2 DEF Names
    <2> QED
        BY <1>3, <2>1, <2>2, <2>3 DEF AnswerOK
<1>7. PolicyTaken'
    <2>1. Announced' => Announced
        BY <1>1 DEF Announced
    <2>2. Usable' <=> Usable
        BY DEF Usable
    <2> QED
        BY <2>1, <2>2 DEF PolicyTaken, Effective
<1>8. SignedAllowed'
    BY DEF SignedAllowed, Allowed, Effective, SessionAdmits
<1> QED
    BY <1>4, <1>5, <1>6, <1>7, <1>8

\* An answer settles the promise that its id names, if it still waits.
LEMMA HandleResponseKeeps == ASSUME IInv, HandleResponse PROVE IInv'
<1> USE DEF IInv
<1> DEFINE m == Head(toParent)
<1>1. /\ UNCHANGED <<worker, policy, handle, toWorker, requestId, request, setup, signatures>>
      /\ toParent # <<>> /\ toParent' = Tail(toParent)
    BY DEF HandleResponse
<1>2. m \in Messages(ParentTypes) /\ 1 \in DOMAIN toParent /\ m = toParent[1]
    BY <1>1, FewerAnswers
<1>3. \/ /\ m.type = "pong" /\ UNCHANGED <<pending, result>> /\ pinging' = Nobody
         /\ outcome' = IF pinging = Nobody THEN outcome ELSE [outcome EXCEPT ![pinging] = "pong"]
      \/ /\ m.type \in DOMAIN Settlement /\ m.id \in DOMAIN pending /\ UNCHANGED pinging
         /\ outcome' = [outcome EXCEPT ![pending[m.id]] = Settlement[m.type]]
         /\ result' = [result EXCEPT ![pending[m.id]] = IF m.type = "signature" THEN m.call ELSE Nobody]
         /\ pending' = Without(m.id)
      \/ UNCHANGED <<outcome, result, pending, pinging>>
    BY DEF HandleResponse
<1> HIDE DEF m
<1>4. CASE /\ m.type = "pong" /\ UNCHANGED <<pending, result>> /\ pinging' = Nobody
           /\ outcome' = IF pinging = Nobody THEN outcome ELSE [outcome EXCEPT ![pinging] = "pong"]
    <2>1. \A c \in Calls : outcome'[c] = outcome[c]
                           \/ (c = pinging /\ outcome[c] = "waiting" /\ outcome'[c] = "pong" /\ request[c].channel = "ping")
        BY <1>4 DEF Shape, TableOK
    <2>2. outcome' \in [Calls -> Outcomes] /\ result' \in [Calls -> Calls \cup {Nobody}]
        BY <1>4 DEF Shape, Outcomes
    <2>3. TableOK'
        <3>1. \A c \in Calls : Waits(c)' <=> Waits(c)
            BY <1>1, <2>1 DEF Waits
        <3>2. \A i \in DOMAIN pending : pending[i] \in Calls
            BY DEF TableOK
        <3>3. (\A c \in Calls : Waits(c)' => \E i \in DOMAIN pending' : pending'[i] = c)
            BY <1>4, <3>1 DEF TableOK
        <3>4. (\A i \in DOMAIN pending' : i \in 1..requestId' /\ pending'[i] \in Calls /\ Waits(pending[i])')
            <4> SUFFICES ASSUME NEW i \in DOMAIN pending'
            PROVE i \in 1..requestId' /\ pending'[i] \in Calls /\ Waits(pending[i])'
                OBVIOUS
            <4>1. i \in DOMAIN pending /\ pending'[i] = pending[i] /\ Waits(pending[i]) /\ pending[i] \in Calls
                BY <1>4 DEF TableOK
            <4> QED
                BY <1>1, <2>1, <4>1 DEF Waits, TableOK
        <3> QED
            BY <1>4, <3>3, <3>4 DEF TableOK
    <2>4. Told'
        BY <1>1, <1>4, <2>1 DEF Told
    <2>5. pinging' \in {pinging, Nobody} /\ DOMAIN pending' \subseteq DOMAIN pending
          /\ \A i \in DOMAIN pending' : pending'[i] = pending[i]
        BY <1>4
    <2> QED
        BY <1>1, <2>1, <2>2, <2>3, <2>4, <2>5, Settles
<1>5. CASE /\ m.type \in DOMAIN Settlement /\ m.id \in DOMAIN pending /\ UNCHANGED pinging
           /\ outcome' = [outcome EXCEPT ![pending[m.id]] = Settlement[m.type]]
           /\ result' = [result EXCEPT ![pending[m.id]] = IF m.type = "signature" THEN m.call ELSE Nobody]
           /\ pending' = Without(m.id)
    <2>1. m.type \in {"signature", "sign_fail", "sign_timelock"}
        BY <1>5 DEF Settlement
    <2>2. AnswerOK(m) /\ m.call \in Calls /\ pending[m.id] = m.call /\ Waits(m.call)
        BY <1>2, <1>5, <2>1 DEF AnswersOK, Answering, AnswerOK, Names, TableOK
    <2> DEFINE s == Settlement[m.type]
    <2>3. /\ s \in {"signed", "refused", "timelocked"} /\ (s = "signed" <=> m.type = "signature")
        BY <2>1 DEF Settlement
    <2> HIDE DEF s
    <2>4. /\ outcome' = [outcome EXCEPT ![m.call] = s]
          /\ result' = [result EXCEPT ![m.call] = IF m.type = "signature" THEN m.call ELSE Nobody]
        BY <1>5, <2>2 DEF s
    <2>5. outcome' \in [Calls -> Outcomes] /\ result' \in [Calls -> Calls \cup {Nobody}]
        BY <2>2, <2>3, <2>4 DEF Shape, Outcomes
    <2>6. /\ \A c \in Calls \ {m.call} : outcome'[c] = outcome[c] /\ result'[c] = result[c]
          /\ outcome'[m.call] = s /\ result'[m.call] = IF m.type = "signature" THEN m.call ELSE Nobody
        BY <2>2, <2>4 DEF Shape
    <2>7. DOMAIN pending' = DOMAIN pending \ {m.id} /\ \A i \in DOMAIN pending' : pending'[i] = pending[i]
        BY <1>5 DEF Without
    <2>8. TableOK'
        <3>1. \A i \in DOMAIN pending' : pending[i] \in Calls \ {m.call} /\ Waits(pending[i]) /\ i \in 1..requestId
            BY <1>5, <2>2, <2>7 DEF TableOK
        <3>2. \A i \in DOMAIN pending' : i \in 1..requestId' /\ pending'[i] \in Calls /\ Waits(pending[i])'
            <4> SUFFICES ASSUME NEW i \in DOMAIN pending'
            PROVE i \in 1..requestId' /\ pending'[i] \in Calls /\ Waits(pending[i])'
                OBVIOUS
            <4>1. pending'[i] = pending[i] /\ pending[i] \in Calls \ {m.call} /\ Waits(pending[i])
                BY <2>7, <3>1
            <4> QED
                BY <1>1, <2>6, <3>1, <4>1 DEF Waits
        <3>3. \A i, j \in DOMAIN pending' : pending'[i] = pending'[j] => i = j
            BY <2>7 DEF TableOK
        <3>4. ASSUME NEW c \in Calls, Waits(c)' PROVE \E i \in DOMAIN pending' : pending'[i] = c
            <4>1. c # m.call
                BY <2>3, <2>6, <3>4 DEF Waits
            <4>2. Waits(c)
                BY <1>1, <2>6, <3>4, <4>1 DEF Waits
            <4> QED
                BY <2>2, <2>7, <4>1, <4>2 DEF TableOK
        <3>5. pinging' # Nobody => outcome'[pinging'] = "waiting" /\ request'[pinging'].channel = "ping"
            <4>1. pinging' = pinging /\ request' = request
                BY <1>1, <1>5
            <4>2. pinging # Nobody =>
                    pinging \in Calls \ {m.call} /\ outcome[pinging] = "waiting" /\ request[pinging].channel = "ping"
                BY <2>2 DEF Shape, TableOK, Waits
            <4> QED
                BY <2>6, <4>1, <4>2
        <3> QED
            BY <3>2, <3>3, <3>4, <3>5 DEF TableOK
    <2>9. Told'
        <3>1. \A c \in Calls \ {m.call} : /\ outcome'[c] = "signed" => result'[c] = c /\ c \in signatures'
                                          /\ outcome'[c] \in {"refused", "timelocked"} => c \notin signatures'
                                          /\ c \in signatures' => outcome'[c] # "idle"
            BY <1>1, <2>6 DEF Told
        <3>2. /\ outcome'[m.call] = "signed" => result'[m.call] = m.call /\ m.call \in signatures'
              /\ outcome'[m.call] \in {"refused", "timelocked"} => m.call \notin signatures'
              /\ outcome'[m.call] # "idle"
            BY <1>1, <2>2, <2>3, <2>6 DEF AnswerOK
        <3> QED
            BY <3>1, <3>2 DEF Told
    <2>10. \A i \in DOMAIN toWorker : Asking(toWorker[i]) => toWorker[i].call # m.call
        BY <1>2, <2>1 DEF AsksOK, Answering
    <2>11. outcome[m.call] = "waiting" /\ s # "idle"
        BY <2>2, <2>3 DEF Waits
    <2>12. \A c \in Calls :
               \/ outcome'[c] = outcome[c]
               \/ /\ outcome[c] = "waiting" /\ outcome'[c] # "idle"
                  /\ \A i \in DOMAIN toWorker : Asking(toWorker[i]) => toWorker[i].call # c
        BY <2>6, <2>10, <2>11
    <2> QED
        BY <1>1, <1>5, <2>5, <2>7, <2>8, <2>9, <2>12, Settles
<1>6. CASE UNCHANGED <<outcome, result, pending, pinging>>
    <2>1. TableOK' /\ Told'
        BY <1>1, <1>6 DEF TableOK, Told, Waits
    <2>2. outcome' \in [Calls -> Outcomes] /\ result' \in [Calls -> Calls \cup {Nobody}]
        BY <1>6 DEF Shape
    <2> QED
        BY <1>1, <1>6, <2>1, <2>2, Settles
<1> QED
    BY <1>3, <1>4, <1>5, <1>6

\* A timer ends a wait: a request's takes its entry out, a ping's frees the slot.
LEMMA ExpireKeeps == ASSUME IInv, NEW c \in Calls, Expire(c) PROVE IInv'
<1> USE DEF IInv
<1>1. /\ UNCHANGED <<worker, policy, handle, toWorker, toParent, requestId, request, result, setup, signatures>>
      /\ outcome[c] = "waiting" /\ outcome' = [outcome EXCEPT ![c] = "timed out"]
    BY DEF Expire, TimeOut
<1>2. \/ request[c].channel = "ping" /\ pinging' = Nobody /\ pending' = pending
      \/ /\ request[c].channel # "ping" /\ pinging' = pinging
         /\ pending' = [i \in {j \in DOMAIN pending : pending[j] # c} |-> pending[i]]
    BY DEF Expire, TimeOut
<1>3. outcome' \in [Calls -> Outcomes] /\ result' \in [Calls -> Calls \cup {Nobody}]
    BY <1>1 DEF Shape, Outcomes
<1>4. outcome'[c] = "timed out" /\ \A d \in Calls \ {c} : outcome'[d] = outcome[d]
    BY <1>1 DEF Shape
<1>5. /\ DOMAIN pending' \subseteq DOMAIN pending /\ pinging' \in {pinging, Nobody}
      /\ \A i \in DOMAIN pending' : pending'[i] = pending[i] /\ pending[i] \in Calls \ {c}
      /\ \A i \in DOMAIN pending : pending[i] # c => i \in DOMAIN pending'
    BY <1>2 DEF TableOK, Waits
<1>6. pinging' # Nobody => pinging' \in Calls \ {c} /\ pinging' = pinging
    BY <1>1, <1>2 DEF Shape, TableOK
<1>7. \A d \in Calls : Waits(d)' <=> Waits(d) /\ d # c
    BY <1>1, <1>4 DEF Waits
<1>8. TableOK'
    <2>1. ASSUME NEW i \in DOMAIN pending' PROVE i \in 1..requestId' /\ pending'[i] \in Calls /\ Waits(pending[i])'
        <3>1. i \in 1..requestId /\ pending'[i] = pending[i] /\ pending[i] \in Calls \ {c} /\ Waits(pending[i])
            BY <1>5 DEF TableOK
        <3> QED
            BY <1>1, <1>4, <3>1 DEF Waits
    <2>2. \A i, j \in DOMAIN pending' : pending'[i] = pending'[j] => i = j
        BY <1>5 DEF TableOK
    <2>3. ASSUME NEW d \in Calls, Waits(d)' PROVE \E i \in DOMAIN pending' : pending'[i] = d
        BY <1>5, <1>7, <2>3 DEF TableOK
    <2>4. pinging' # Nobody => outcome'[pinging'] = "waiting" /\ request'[pinging'].channel = "ping"
        BY <1>1, <1>4, <1>6 DEF TableOK
    <2> QED
        BY <2>1, <2>2, <2>3, <2>4 DEF TableOK
<1>9. Told'
    BY <1>1, <1>4 DEF Told
<1>10. \A d \in Calls : outcome'[d] = outcome[d] \/ (outcome[d] = "waiting" /\ outcome'[d] = "timed out")
    BY <1>1, <1>4
<1> QED
    BY <1>1, <1>3, <1>5, <1>8, <1>9, <1>10, Settles

\* The worker's end: who waits is told, and the map is empty.
LEMMA ExitEventKeeps == ASSUME IInv, ExitEvent PROVE IInv'
<1> USE DEF IInv
<1> DEFINE ended == {pending[i] : i \in DOMAIN pending} \cup ({pinging} \ {Nobody})
<1>1. /\ UNCHANGED <<worker, policy, toWorker, toParent, requestId, request, result, setup, signatures>>
      /\ Usable /\ handle' = "closed" /\ pending' = <<>> /\ pinging' = Nobody
      /\ outcome' = [c \in Calls |-> IF c \in ended THEN "terminated" ELSE outcome[c]]
    BY DEF ExitEvent, Usable
<1>2. \A c \in Calls : c \in ended => outcome[c] = "waiting"
    BY DEF TableOK, Waits
<1>3. \A c \in Calls : Waits(c) => c \in ended
    BY DEF TableOK
<1> HIDE DEF ended
<1>4. \A i \in DOMAIN pending' : FALSE
    <2>1. DOMAIN <<>> = {}
        BY EmptySeq, LenProperties
    <2> QED
        BY <1>1, <2>1
<1>5. outcome' \in [Calls -> Outcomes] /\ result' \in [Calls -> Calls \cup {Nobody}]
    BY <1>1 DEF Shape, Outcomes
<1>6. \A c \in Calls : (outcome'[c] = outcome[c] /\ c \notin ended) \/ (outcome[c] = "waiting" /\ outcome'[c] = "terminated")
    BY <1>1, <1>2
<1>7. TableOK'
    <2>1. \A c \in Calls : ~Waits(c)'
        BY <1>1, <1>3, <1>6 DEF Waits
    <2> QED
        BY <1>1, <1>4, <2>1 DEF TableOK
<1>8. Told'
    BY <1>1, <1>6 DEF Told
<1>9. DOMAIN pending' \subseteq DOMAIN pending /\ \A i \in DOMAIN pending' : pending'[i] = pending[i]
    BY <1>4
<1> QED
    BY <1>1, <1>5, <1>6, <1>7, <1>8, <1>9, Settles

\* Before its call a caller has left no trace.
LEMMA NoTrace ==
    ASSUME IInv, NEW c \in Calls, outcome[c] = "idle"
    PROVE  /\ c \notin signatures /\ pinging # c
           /\ \A i \in DOMAIN toWorker : Asking(toWorker[i]) => toWorker[i].call # c
           /\ \A k \in DOMAIN toParent : Answering(toParent[k]) => toParent[k].call # c
           /\ \A i \in DOMAIN pending : pending[i] # c
<1> USE DEF IInv
<1>1. c \notin signatures
    BY DEF Told
<1>2. pinging # c
    BY CallsAssumption DEF TableOK
<1>3. \A i \in DOMAIN toWorker : Asking(toWorker[i]) => toWorker[i].call # c
    BY DEF AsksOK, AskOK
<1>4. \A k \in DOMAIN toParent : Answering(toParent[k]) => toParent[k].call # c
    BY DEF AnswersOK, AnswerOK
<1>5. \A i \in DOMAIN pending : pending[i] # c
    BY DEF TableOK, Waits
<1> QED
    BY <1>1, <1>2, <1>3, <1>4, <1>5

\* A call begins: what holds of the others is as it was.
LEMMA Begins ==
    ASSUME IInv, Usable, NEW c \in Calls, NEW r \in Requests, outcome[c] = "idle",
           NEW told \in {"refused", "waiting"},
           outcome' = [outcome EXCEPT ![c] = told], request' = [request EXCEPT ![c] = r],
           UNCHANGED <<worker, policy, handle, toParent, result, setup, signatures>>,
           requestId' \in Nat, requestId <= requestId',
           \A i \in DOMAIN pending : i \in DOMAIN pending' /\ pending'[i] = pending[i],
           \A i \in DOMAIN pending' : i \in DOMAIN pending \/ (i = requestId + 1 /\ i = requestId'),
           pinging' \in Calls \cup {Nobody},
           TableOK',
           toWorker' = toWorker
             \/ \E m \in Messages(WorkerTypes) :
                    /\ toWorker' = Append(toWorker, m) /\ m.type # "init"
                    /\ Asking(m) =>
                         /\ m.call = c /\ told = "waiting"
                         /\ m.id \in 1..requestId' /\ (m.id \in DOMAIN pending' => pending'[m.id] = c)
                         /\ r.channel = "asset" => SessionAdmits(r)
    PROVE  IInv'
<1> USE DEF IInv
<1>1. /\ c \notin signatures /\ pinging # c
      /\ \A i \in DOMAIN toWorker : Asking(toWorker[i]) => toWorker[i].call # c
      /\ \A k \in DOMAIN toParent : Answering(toParent[k]) => toParent[k].call # c
    BY NoTrace
<1>2. /\ outcome' \in [Calls -> Outcomes] /\ request' \in [Calls -> Requests \cup {Unused}]
      /\ outcome'[c] = told /\ request'[c] = r
      /\ \A d \in Calls \ {c} : outcome'[d] = outcome[d] /\ request'[d] = request[d]
    BY DEF Shape, Outcomes
<1>3. toWorker \in Seq(Messages(WorkerTypes)) /\ requestId \in Nat
    BY DEF Shape
<1> DEFINE New(m) ==
               /\ m.call = c /\ told = "waiting"
               /\ m.id \in 1..requestId' /\ (m.id \in DOMAIN pending' => pending'[m.id] = c)
               /\ r.channel = "asset" => SessionAdmits(r)
<1>4. /\ toWorker' \in Seq(Messages(WorkerTypes))
      /\ \A i \in DOMAIN toWorker' :
             /\ toWorker'[i].type # "init"
             /\ Asking(toWorker'[i]) =>
                    \/ i \in DOMAIN toWorker /\ toWorker'[i] = toWorker[i]
                    \/ i = Len(toWorker) + 1 /\ New(toWorker'[i])
    <2>1. \A i \in DOMAIN toWorker : toWorker[i].type # "init"
        BY DEF PolicyTaken
    <2>2. CASE toWorker' = toWorker
        BY <1>3, <2>1, <2>2
    <2>3. CASE toWorker' # toWorker
        <3> PICK m \in Messages(WorkerTypes) :
                toWorker' = Append(toWorker, m) /\ m.type # "init" /\ (Asking(m) => New(m))
            BY <2>3
        <3> HIDE DEF New
        <3>1. /\ toWorker' \in Seq(Messages(WorkerTypes))
              /\ \A i \in DOMAIN toWorker' : \/ i \in DOMAIN toWorker /\ toWorker'[i] = toWorker[i]
                                             \/ i = Len(toWorker) + 1 /\ toWorker'[i] = m
            BY <1>3, Appended
        <3> QED
            BY <2>1, <3>1
    <2> QED
        BY <2>2, <2>3
<1>5. Shape'
    <2>1. \A d \in Calls : outcome'[d] # "idle" => request'[d] \in Requests
        BY <1>2 DEF Shape
    <2> QED
        BY <1>2, <1>4, <2>1 DEF Shape
<1>6. AsksOK'
    <2>1. ASSUME NEW i \in DOMAIN toWorker', Asking(toWorker'[i]) PROVE AskOK(toWorker[i])'
        <3>1. CASE i \in DOMAIN toWorker /\ toWorker'[i] = toWorker[i]
            <4>1. AskOK(toWorker[i]) /\ toWorker[i].call # c /\ Names(toWorker[i]) /\ toWorker[i].call \in Calls
                BY <1>1, <2>1, <3>1 DEF AsksOK, AskOK, Names
            <4>2. Names(toWorker[i])'
                BY <1>3, <3>1, <4>1 DEF Names
            <4> QED
                BY <1>2, <3>1, <4>1, <4>2 DEF AskOK, SessionAdmits
        <3>2. CASE New(toWorker'[i])
            BY <1>1, <1>2, <3>2 DEF AskOK, Names, SessionAdmits
        <3> QED
            BY <1>4, <2>1, <3>1, <3>2
    <2>2. ASSUME NEW i \in DOMAIN toWorker', NEW j \in DOMAIN toWorker', Asking(toWorker'[i]), Asking(toWorker'[j]),
                 toWorker'[i].call = toWorker'[j].call
          PROVE  i = j
        BY <1>1, <1>4, <2>2 DEF AsksOK
    <2>3. ASSUME NEW i \in DOMAIN toWorker', NEW k \in DOMAIN toParent, Asking(toWorker'[i]), Answering(toParent[k])
          PROVE  toWorker'[i].call # toParent[k].call
        BY <1>1, <1>4, <2>3 DEF AsksOK
    <2> QED
        BY <2>1, <2>2, <2>3 DEF AsksOK
<1>7. AnswersOK'
    <2> SUFFICES ASSUME NEW k \in DOMAIN toParent, Answering(toParent[k]) PROVE AnswerOK(toParent[k])'
        BY DEF AnswersOK
    <2>1. AnswerOK(toParent[k]) /\ toParent[k].call # c /\ toParent[k].call \in Calls /\ Names(toParent[k])
        BY <1>1 DEF AnswersOK, AnswerOK, Names
    <2>2. Names(toParent[k])'
        BY <1>3, <2>1 DEF Names
    <2> QED
        BY <1>2, <2>1, <2>2 DEF AnswerOK
<1>8. Told'
    BY <1>1, <1>2 DEF Told
<1>9. PolicyTaken'
    BY <1>4 DEF PolicyTaken, Usable, Effective, Announced
<1>10. SignedAllowed'
    BY <1>1, <1>2 DEF SignedAllowed, Allowed, Effective, SessionAdmits, Shape
<1> QED
    BY <1>5, <1>6, <1>7, <1>8, <1>9, <1>10

\* A request is refused on the spot, or written under an id of its own.
LEMMA CallKeeps == ASSUME IInv, NEW c \in Calls, NEW r \in Requests, Call(c, r) PROVE IInv'
<1> USE DEF IInv
<1>1. /\ outcome[c] = "idle" /\ r.channel # "ping" /\ Usable
      /\ request' = [request EXCEPT ![c] = r]
      /\ UNCHANGED <<worker, policy, handle, toParent, result, setup, signatures>>
    BY DEF Call, Usable
<1>2. \/ outcome' = [outcome EXCEPT ![c] = "refused"] /\ UNCHANGED <<table, toWorker>>
      \/ /\ ~RefusedLocally(r) /\ requestId' = NextId /\ UNCHANGED pinging
         /\ pending' = [i \in DOMAIN pending \cup {NextId} |-> IF i = NextId THEN c ELSE pending[i]]
         /\ outcome' = [outcome EXCEPT ![c] = "waiting"]
         /\ toWorker' = Append(toWorker, [type |-> Line(r), id |-> NextId, call |-> c])
    BY DEF Call
<1>3. requestId \in Nat /\ pinging \in Calls \cup {Nobody}
    BY DEF Shape
<1>4. \A i \in DOMAIN pending : i \in 1..requestId /\ pending[i] \in Calls \ {c} /\ Waits(pending[i])
    BY <1>1, NoTrace DEF TableOK
<1>5. /\ request'[c] = r /\ \A d \in Calls \ {c} : request'[d] = request[d] /\ outcome'[d] = outcome[d]
    BY <1>1, <1>2 DEF Shape
<1>6. pinging # Nobody => pinging \in Calls \ {c} /\ outcome[pinging] = "waiting" /\ request[pinging].channel = "ping"
    BY <1>1, <1>3, NoTrace DEF TableOK
<1>7. CASE outcome' = [outcome EXCEPT ![c] = "refused"] /\ UNCHANGED <<table, toWorker>>
    <2>1. outcome'[c] = "refused"
        BY <1>7 DEF Shape
    <2>2. \A d \in Calls : Waits(d)' <=> Waits(d)
        BY <1>1, <1>5, <2>1 DEF Waits
    <2>3. ASSUME NEW i \in DOMAIN pending' PROVE i \in 1..requestId' /\ pending'[i] \in Calls /\ Waits(pending[i])'
        <3>1. i \in 1..requestId /\ pending'[i] = pending[i] /\ pending[i] \in Calls \ {c} /\ Waits(pending[i])
            BY <1>4, <1>7
        <3> QED
            BY <1>5, <1>7, <3>1 DEF Waits
    <2>4. \A d \in Calls : Waits(d)' => \E i \in DOMAIN pending' : pending'[i] = d
        BY <1>7, <2>2 DEF TableOK
    <2>5. TableOK'
        BY <1>5, <1>6, <1>7, <2>3, <2>4 DEF TableOK
    <2>6. /\ requestId' \in Nat /\ requestId <= requestId' /\ pinging' \in Calls \cup {Nobody} /\ toWorker' = toWorker
          /\ \A i \in DOMAIN pending : i \in DOMAIN pending' /\ pending'[i] = pending[i]
          /\ \A i \in DOMAIN pending' : i \in DOMAIN pending
        BY <1>3, <1>7
    <2>7. outcome' = [outcome EXCEPT ![c] = "refused"]
        BY <1>7
    <2> HIDE DEF IInv
    <2> QED
        BY <1>1, <2>5, <2>6, <2>7, Begins
<1>8. CASE /\ ~RefusedLocally(r) /\ requestId' = NextId /\ UNCHANGED pinging
           /\ pending' = [i \in DOMAIN pending \cup {NextId} |-> IF i = NextId THEN c ELSE pending[i]]
           /\ outcome' = [outcome EXCEPT ![c] = "waiting"]
           /\ toWorker' = Append(toWorker, [type |-> Line(r), id |-> NextId, call |-> c])
    <2>1. outcome'[c] = "waiting"
        BY <1>8 DEF Shape
    <2>2. requestId' = requestId + 1 /\ requestId' \in Nat /\ requestId' \notin DOMAIN pending
        BY <1>3, <1>4, <1>8 DEF NextId
    <2>3. /\ DOMAIN pending' = DOMAIN pending \cup {requestId'} /\ pending'[requestId'] = c
          /\ \A i \in DOMAIN pending : pending'[i] = pending[i]
        BY <1>8, <2>2
    <2>4. TableOK'
        <3>1. ASSUME NEW i \in DOMAIN pending'
              PROVE i \in 1..requestId' /\ pending'[i] \in Calls /\ Waits(pending[i])'
            <4>1. CASE i = requestId'
                BY <1>1, <1>3, <1>5, <2>1, <2>2, <2>3, <4>1 DEF Waits
            <4>2. CASE i # requestId'
                <5>1. i \in 1..requestId /\ pending'[i] = pending[i] /\ pending[i] \in Calls \ {c} /\
                        Waits(pending[i])
                    BY <1>4, <2>3, <4>2
                <5>2. i \in 1..requestId'
                    BY <1>3, <2>2, <5>1
                <5> QED
                    BY <1>5, <5>1, <5>2 DEF Waits
            <4> QED
                BY <4>1, <4>2
        <3>2. \A i, j \in DOMAIN pending' : pending'[i] = pending'[j] => i = j
            BY <1>4, <2>3 DEF TableOK
        <3>3. ASSUME NEW d \in Calls, Waits(d)' PROVE \E i \in DOMAIN pending' : pending'[i] = d
            <4>1. d # c => Waits(d)
                BY <1>5, <3>3 DEF Waits
            <4> QED
                BY <2>3, <4>1 DEF TableOK
        <3>4. pinging' # Nobody => outcome'[pinging'] = "waiting" /\ request'[pinging'].channel = "ping"
            BY <1>5, <1>6, <1>8
        <3> QED
            BY <3>1, <3>2, <3>3, <3>4 DEF TableOK
    <2> DEFINE m == [type |-> Line(r), id |-> requestId', call |-> c]
    <2>5. Line(r) \in {"overflow", "sign", "sign_intent", "sign_message"}
        BY <1>1, RequestsAssumption DEF Line, Channels
    <2>6. m \in Messages(WorkerTypes) /\ m.type # "init" /\ m.call = c /\ m.id = requestId' /\ m.id \in 1..requestId'
        BY <1>3, <2>2, <2>5 DEF Messages, WorkerTypes
    <2>7. toWorker' = Append(toWorker, m)
        BY <1>8, <2>2
    <2>8. r.channel = "asset" => SessionAdmits(r)
        BY <1>8 DEF RefusedLocally
    <2> HIDE DEF m
    <2>9. requestId <= requestId'
        BY <1>3, <2>2
    <2>10. \E n \in Messages(WorkerTypes) :
               /\ toWorker' = Append(toWorker, n) /\ n.type # "init"
               /\ Asking(n) =>
                    /\ n.call = c /\ "waiting" = "waiting"
                    /\ n.id \in 1..requestId' /\ (n.id \in DOMAIN pending' => pending'[n.id] = c)
                    /\ r.channel = "asset" => SessionAdmits(r)
        BY <2>3, <2>6, <2>7, <2>8
    <2>11. outcome' = [outcome EXCEPT ![c] = "waiting"] /\ pinging' \in Calls \cup {Nobody}
        BY <1>3, <1>8
    <2>12. /\ \A i \in DOMAIN pending : i \in DOMAIN pending' /\ pending'[i] = pending[i]
           /\ \A i \in DOMAIN pending' : i \in DOMAIN pending \/ (i = requestId + 1 /\ i = requestId')
        BY <2>2, <2>3
    <2> HIDE DEF IInv
    <2> QED
        BY <1>1, <2>2, <2>4, <2>9, <2>10, <2>11, <2>12, Begins
<1> QED
    BY <1>2, <1>7, <1>8

\* A ping takes the one slot of the pings, whoever holds it.
LEMMA PingKeeps == ASSUME IInv, NEW c \in Calls, NEW r \in Requests, Ping(c, r) PROVE IInv'
<1> USE DEF IInv
<1>1. /\ outcome[c] = "idle" /\ r.channel = "ping" /\ Usable
      /\ request' = [request EXCEPT ![c] = r] /\ outcome' = [outcome EXCEPT ![c] = "waiting"] /\ pinging' = c
      /\ toWorker' = Append(toWorker, [type |-> "ping", id |-> 0, call |-> c])
      /\ UNCHANGED <<worker, policy, handle, toParent, requestId, pending, result, setup, signatures>>
    BY DEF Ping, Usable
<1>2. requestId \in Nat
    BY DEF Shape
<1>3. \A i \in DOMAIN pending : i \in 1..requestId /\ pending[i] \in Calls \ {c} /\ Waits(pending[i])
    BY <1>1, NoTrace DEF TableOK
<1>4. /\ request'[c] = r /\ outcome'[c] = "waiting"
      /\ \A d \in Calls \ {c} : request'[d] = request[d] /\ outcome'[d] = outcome[d]
    BY <1>1 DEF Shape
<1>5. TableOK'
    <2>1. \A d \in Calls : Waits(d)' => Waits(d)
        BY <1>1, <1>4 DEF Waits
    <2>2. ASSUME NEW i \in DOMAIN pending' PROVE i \in 1..requestId' /\ pending'[i] \in Calls /\ Waits(pending[i])'
        <3>1. i \in 1..requestId /\ pending'[i] = pending[i] /\ pending[i] \in Calls \ {c} /\ Waits(pending[i])
            BY <1>1, <1>3
        <3> QED
            BY <1>1, <1>4, <3>1 DEF Waits
    <2>3. \A d \in Calls : Waits(d)' => \E i \in DOMAIN pending' : pending'[i] = d
        BY <1>1, <2>1 DEF TableOK
    <2>4. \A i, j \in DOMAIN pending' : pending'[i] = pending'[j] => i = j
        BY <1>1 DEF TableOK
    <2> QED
        BY <1>1, <1>4, <2>2, <2>3, <2>4 DEF TableOK
<1> DEFINE m == [type |-> "ping", id |-> 0, call |-> c]
<1>6. m \in Messages(WorkerTypes) /\ m.type # "init" /\ ~Asking(m)
    BY DEF Messages, WorkerTypes, Asking
<1>7. toWorker' = Append(toWorker, m)
    BY <1>1
<1> HIDE DEF m
<1>8. \E n \in Messages(WorkerTypes) :
          /\ toWorker' = Append(toWorker, n) /\ n.type # "init"
          /\ Asking(n) =>
               /\ n.call = c /\ "waiting" = "waiting"
               /\ n.id \in 1..requestId' /\ (n.id \in DOMAIN pending' => pending'[n.id] = c)
               /\ r.channel = "asset" => SessionAdmits(r)
    BY <1>6, <1>7
<1>9. /\ requestId' \in Nat /\ requestId <= requestId' /\ pinging' \in Calls \cup {Nobody}
      /\ \A i \in DOMAIN pending : i \in DOMAIN pending' /\ pending'[i] = pending[i]
      /\ \A i \in DOMAIN pending' : i \in DOMAIN pending
    BY <1>1, <1>2
<1> HIDE DEF IInv
<1> QED
    BY <1>1, <1>5, <1>8, <1>9, Begins

\* close(): no request from here on, and those that wait go on waiting.
LEMMA CloseKeeps == ASSUME IInv, Close PROVE IInv'
<1> USE DEF IInv
<1> DEFINE m == [type |-> "exit", id |-> 0, call |-> Nobody]
<1>1. /\ Usable /\ handle' = "closed" /\ toWorker' = Append(toWorker, m)
      /\ UNCHANGED <<worker, policy, toParent, table, calls, setup, signatures>>
    BY DEF Close, Usable
<1>2. m \in Messages(WorkerTypes) /\ m.type # "init" /\ ~Asking(m)
    BY DEF Messages, WorkerTypes, Asking
<1> HIDE DEF m
<1>3. /\ toWorker' \in Seq(Messages(WorkerTypes))
      /\ \A i \in DOMAIN toWorker' : (i \in DOMAIN toWorker /\ toWorker'[i] = toWorker[i]) \/ toWorker'[i] = m
    BY <1>1, <1>2, Appended DEF Shape
<1>4. Shape'
    BY <1>1, <1>3 DEF Shape
<1>5. TableOK' /\ Told' /\ SignedAllowed' /\ AnswersOK'
    BY <1>1 DEF TableOK, Waits, Told, SignedAllowed, Allowed, Effective, SessionAdmits, AnswersOK, AnswerOK, Names
<1>6. AsksOK'
    <2>1. \A i \in DOMAIN toWorker' : Asking(toWorker'[i]) => i \in DOMAIN toWorker /\ toWorker'[i] = toWorker[i]
        BY <1>2, <1>3
    <2> QED
        BY <1>1, <2>1 DEF AsksOK, AskOK, Names, SessionAdmits
<1>7. PolicyTaken'
    BY <1>1, <1>2, <1>3 DEF PolicyTaken, Usable, Effective, Announced
<1> QED
    BY <1>4, <1>5, <1>6, <1>7

-----------------------------------------------------------------------------
(* The invariant. *)

\* Every step keeps the invariant, one action at a time.
LEMMA StepKeeps == ASSUME IInv, [Next]_vars PROVE IInv'
<1>1. CASE UNCHANGED vars
    BY <1>1 DEF IInv, Shape, TableOK, Waits, AsksOK, AskOK, Names, AnswersOK, AnswerOK, Told, PolicyTaken, Usable,
                Announced, Effective, SignedAllowed, Allowed, SessionAdmits
<1>2. CASE InitWorker
    BY <1>2, InitWorkerKeeps
<1>3. CASE HandlePing \/ HandleExit
    BY <1>3, HandlePingExitKeeps
<1>4. CASE HandleOverflow \/ Leave
    BY <1>4, GoneKeeps
<1>5. ASSUME NEW type \in Channels \ {"ping", "asset"}, Handle(type) PROVE IInv'
    BY <1>5, HandleKeeps
<1>6. CASE SpawnEnds
    BY <1>6, SpawnEndsKeeps
<1>7. CASE HandleResponse
    BY <1>7, HandleResponseKeeps
<1>8. CASE ExitEvent
    BY <1>8, ExitEventKeeps
<1>9. CASE Close
    BY <1>9, CloseKeeps
<1>10. ASSUME NEW c \in Calls, NEW r \in Requests, Call(c, r) \/ Ping(c, r) PROVE IInv'
    BY <1>10, CallKeeps, PingKeeps
<1>11. ASSUME NEW c \in Calls, Expire(c) PROVE IInv'
    BY <1>11, ExpireKeeps
<1> QED
    BY <1>1, <1>2, <1>3, <1>4, <1>5, <1>6, <1>7, <1>8, <1>9, <1>10, <1>11 DEF Next

\* A spawned worker has been sent its initialisation and nothing else.
LEMMA InitHolds == ASSUME Init PROVE IInv
<1> DEFINE m == [type |-> "init", id |-> 0, call |-> Nobody]
<1>1. m \in Messages(WorkerTypes) /\ m.type = "init" /\ ~Asking(m)
    BY DEF Messages, WorkerTypes, Asking
<1>2. toWorker = <<m>>
    BY DEF Init
<1> HIDE DEF m
<1>3. toWorker \in Seq(Messages(WorkerTypes)) /\ Len(toWorker) = 1 /\ \A i \in DOMAIN toWorker : toWorker[i] = m
    BY <1>1, <1>2
<1>4. toParent \in Seq(Messages(ParentTypes)) /\ DOMAIN toParent = {}
    BY EmptySeq, LenProperties DEF Init
<1>5. DOMAIN pending = {}
    BY EmptySeq, LenProperties DEF Init
<1>6. Shape
    BY <1>3, <1>4 DEF Init, Shape, Outcomes
<1>7. TableOK
    BY <1>5 DEF Init, TableOK, Waits
<1>8. AsksOK /\ AnswersOK
    BY <1>1, <1>3, <1>4 DEF AsksOK, AnswersOK
<1>9. Told /\ SignedAllowed
    BY DEF Init, Told, SignedAllowed
<1>10. PolicyTaken
    BY <1>1, <1>3, <1>4 DEF Init, PolicyTaken, Usable, Announced
<1> QED
    BY <1>6, <1>7, <1>8, <1>9, <1>10 DEF IInv

\* The worker, the two pipes and the map of requests agree in every state: an
\* id names one call, what is on its way is asked or answered once, and only
\* what the worker's policy allows was signed (signer-child.js, signer-process.js).
THEOREM SignerInvariant == Spec => []IInv
<1>1. Init => IInv
    BY InitHolds
<1>2. IInv /\ [Next]_vars => IInv'
    BY StepKeeps
<1> QED
    BY <1>1, <1>2, PTL DEF Spec

-----------------------------------------------------------------------------
(* What callers are told. *)

\* What is told is what the invariant says of an answer when it arrived.
LEMMA TellsTheTruth == ASSUME IInv PROVE AnswersAreTrue
<1> USE DEF IInv
<1>1. TypeOK
    <2>1. {pending[i] : i \in DOMAIN pending} = {c \in Calls : outcome[c] = "waiting" /\ request[c].channel # "ping"}
        BY DEF TableOK, Waits
    <2>2. DOMAIN pending \subseteq 1..requestId
        BY DEF TableOK
    <2> QED
        BY <2>1, <2>2 DEF TypeOK, Shape
<1>2. AnswerIsOwn /\ RefusedMeansUnsigned
    BY DEF Told, AnswerIsOwn, RefusedMeansUnsigned
<1> QED
    BY <1>1, <1>2 DEF AnswersAreTrue

\* No caller is handed the signature of another call, nor told that nothing
\* was signed when something was, whatever the time-outs and late answers of
\* signer-process.js: for every set of calls, requests and policies.
THEOREM AnswersTrue == Spec => []AnswersAreTrue
<1>1. IInv => AnswersAreTrue
    BY TellsTheTruth
<1> QED
    BY <1>1, SignerInvariant, PTL

-----------------------------------------------------------------------------
(* What is signed. *)

\* The policy that the parent asks for is one, given or derived from a session.
LEMMA PoliciesParse ==
    ASSUME IInv
    PROVE  bound \in SpendConfigs(PolicyTypes) /\ asked \in SpendConfigs(PolicyTypes)
<1>1. bound \in BoundPolicies /\ session \in Sessions /\
        \E given \in ParentPolicies : asked = PolicyFor(given, session)
    BY DEF IInv, Shape
<1>2. PICK given \in ParentPolicies : asked = PolicyFor(given, session)
    BY <1>1
<1>3. given \in SpendConfigs(PolicyTypes) /\ bound \in SpendConfigs(PolicyTypes) /\ HasLimits(session.scope)
    BY <1>1, PoliciesAssumption
<1>4. PolicyOfSession(session.scope) \in SpendConfigs(PolicyTypes)
    <2>1. NoPolicy \in SpendConfigs(PolicyTypes)
        BY DEF NoPolicy, SpendConfigs, PolicyTypes, Thresholds, Unset
    <2>2. session.scope.maxPerTx \in Int /\ session.scope.maxDaily \in Int
        BY <1>3 DEF HasLimits
    <2> QED
        BY <2>1, <2>2 DEF PolicyOfSession, SpendConfigs, PolicyTypes, Modes
<1> QED
    BY <1>2, <1>3, <1>4 DEF PolicyFor

\* What was signed the combined policy allows, hence the bound one.
LEMMA BoundKept == ASSUME IInv PROVE SignedWithinBound
<1> SUFFICES ASSUME bound # NoPolicy, WellFormed(bound), NEW c \in signatures
             PROVE  /\ request[c].channel # "sign"
                    /\ request[c].channel \in {"sign_intent", "asset"} =>
                           CheckSpendAllowedTiered(bound, request[c].amount, 0) = "allow"
    BY DEF SignedWithinBound
<1> DEFINE r == request[c]
<1>1. Allowed(r) /\ r \in Requests
    BY DEF IInv, SignedAllowed, Shape, Told
<1>2. r.amount \in SpendAmounts
    BY <1>1, RequestsAssumption
<1>3. Effective = CombineSpendPolicies(bound, asked) /\ Effective.type # "absent"
    <2>1. Effective = CombineSpendPolicies(bound, asked)
        BY DEF Effective
    <2>2. Effective.type = EffectiveType(bound, asked)
        BY <2>1 DEF CombineSpendPolicies
    <2> QED
        BY <2>1, <2>2, ModeNeverLooser DEF Modes
<1>4. r.channel \in {"sign_intent", "asset"} => CheckSpendAllowedTiered(Effective, r.amount, 0) = "allow"
    BY <1>1, <1>3 DEF Allowed
<1>5. bound \in SpendConfigs(PolicyTypes) /\ asked \in SpendConfigs(PolicyTypes)
    BY PoliciesParse
<1> HIDE DEF r
<1>6. r.channel \in {"sign_intent", "asset"} => CheckSpendAllowedTiered(bound, r.amount, 0) = "allow"
    BY <1>2, <1>3, <1>4, <1>5, CombineNeverLooser
<1> QED
    BY <1>1, <1>6 DEF Allowed, r

\* P0-1 (signer-child.js): nothing is signed that the policy bound to the key
\* refuses, whatever policy and whatever requests the parent sends.
THEOREM BoundHolds == Spec => []SignedWithinBound
<1>1. IInv => SignedWithinBound
    BY BoundKept
<1> QED
    BY <1>1, SignerInvariant, PTL

\* A limit that is combined with another one is kept.
LEMMA LimitKept ==
    ASSUME NEW other \in SpendConfigs(PolicyTypes), NEW limit \in SpendConfigs(PolicyTypes), limit.type = "limit",
           NEW amount \in SpendAmounts,
           CheckSpendAllowedTiered(CombineSpendPolicies(other, limit), amount, 0) = "allow"
    PROVE  /\ limit.maxPerTx > 0 => amount.n <= limit.maxPerTx
           /\ limit.maxDaily > 0 => 0 + amount.n <= limit.maxDaily
<1> DEFINE combined == CombineSpendPolicies(other, limit)
<1>1. /\ limit.maxPerTx \in Int /\ limit.maxDaily \in Int /\ other.maxPerTx \in Int /\ other.maxDaily \in Int /\
           amount.n \in Int
    BY DEF SpendConfigs, SpendAmounts
<1>2. CheckSpendAllowed(combined, amount, 0) = "allow"
    BY DEF CheckSpendAllowedTiered
<1>3. ResolveSpendMode(limit) = "limit"
    BY DEF ResolveSpendMode, Modes
<1>4. ResolveSpendMode(combined) # "unlimited" /\ (ResolveSpendMode(combined) = "limit" => combined.type = "limit")
      /\ ResolveSpendMode(combined) \in Modes
    <2>1. CASE other = NoPolicy
        BY <1>3, <2>1 DEF CombineSpendPolicies, Modes
    <2>2. CASE other # NoPolicy
        <3>1. combined.type = EffectiveType(other, limit)
            BY <2>2 DEF CombineSpendPolicies
        <3>2. limit # NoPolicy
            BY DEF NoPolicy
        <3>3. ResolveSpendMode(other) \in Modes
            BY DEF ResolveSpendMode, Modes
        <3>4. ModeStrictness["unlimited"] = 0 /\ ModeStrictness["limit"] = 1
            BY DEF ModeStrictness, Modes
        <3>5. EffectiveType(other, limit) # "unlimited"
            BY <1>3, <3>2, <3>3, <3>4 DEF EffectiveType
        <3> QED
            BY <3>1, <3>5, ModeNeverLooser DEF ResolveSpendMode, Modes
    <2> QED
        BY <2>1, <2>2
<1>5. WithinCeilings(combined, amount.n, 0) /\ combined.type = "limit"
    BY <1>2, <1>4 DEF CheckSpendAllowed, Modes
<1>6. CASE other = NoPolicy
    BY <1>5, <1>6 DEF CombineSpendPolicies, WithinCeilings
<1>7. CASE other # NoPolicy
    <2>1. combined.maxPerTx = StrictestCeiling(other.maxPerTx, limit.maxPerTx)
          /\ combined.maxDaily = StrictestCeiling(other.maxDaily, limit.maxDaily)
        BY <1>5, <1>7 DEF CombineSpendPolicies
    <2>2. (combined.maxPerTx > 0 => amount.n <= combined.maxPerTx) /\
            (combined.maxDaily > 0 => 0 + amount.n <= combined.maxDaily)
        BY <1>5 DEF WithinCeilings
    <2> HIDE DEF combined
    <2> QED
        BY <1>1, <2>1, <2>2, SMT DEF StrictestCeiling
<1> QED
    BY <1>6, <1>7

\* A session's limits hold of each call through the parent's test, or through
\* the policy that is derived from it, which no bound policy loosens.
LEMMA SessionKept == ASSUME IInv PROVE EachWithinSession
<1> SUFFICES ASSUME NEW c \in signatures,
                    \/ request[c].channel = "asset"
                    \/ /\ request[c].channel = "sign_intent"
                       /\ session # NoSession
                       /\ asked = PolicyOfSession(session.scope)
             PROVE  WithinSessionLimits(session.scope, request[c].amount.n, 0)
    BY DEF EachWithinSession
<1> DEFINE r == request[c]
<1>1. Allowed(r) /\ r \in Requests
    BY DEF IInv, SignedAllowed, Shape, Told
<1>2. r.amount \in SpendAmounts
    BY <1>1, RequestsAssumption
<1>3. CASE r.channel = "asset"
    BY <1>1, <1>3 DEF Allowed, SessionAdmits
<1>4. CASE r.channel = "sign_intent" /\ asked = PolicyOfSession(session.scope)
    <2>1. asked.type = "limit" /\ asked.maxPerTx = session.scope.maxPerTx /\ asked.maxDaily = session.scope.maxDaily
        BY <1>4 DEF PolicyOfSession, NoPolicy
    <2>2. bound \in SpendConfigs(PolicyTypes) /\ asked \in SpendConfigs(PolicyTypes)
        BY PoliciesParse
    <2>3. Effective = CombineSpendPolicies(bound, asked)
        BY DEF Effective, CombineSpendPolicies
    <2>4. Effective.type # "absent"
        <3>1. CASE bound = NoPolicy
            BY <2>1, <3>1 DEF Effective
        <3>2. CASE bound # NoPolicy
            <4>1. Effective.type = EffectiveType(bound, asked)
                BY <2>3, <3>2 DEF CombineSpendPolicies
            <4> QED
                BY <4>1, ModeNeverLooser DEF Modes
        <3> QED
            BY <3>1, <3>2
    <2>5. CheckSpendAllowedTiered(CombineSpendPolicies(bound, asked), r.amount, 0) = "allow"
        BY <1>1, <1>4, <2>3, <2>4 DEF Allowed
    <2> HIDE DEF r
    <2>6. /\ asked.maxPerTx > 0 => r.amount.n <= asked.maxPerTx
          /\ asked.maxDaily > 0 => 0 + r.amount.n <= asked.maxDaily
        BY <1>2, <2>1, <2>2, <2>5, LimitKept
    <2> QED
        BY <2>1, <2>6 DEF WithinSessionLimits, r
<1> QED
    BY <1>3, <1>4

\* keys.js: each amount that an agent signs for a session is within its limits
\* if nothing was spent before, also where the parent leaves out the test, for
\* every session and every policy.  It is no bound on what several calls sign.
THEOREM EachSessionCallHolds == Spec => []EachWithinSession
<1>1. IInv => EachWithinSession
    BY SessionKept
<1> QED
    BY <1>1, SignerInvariant, PTL

-----------------------------------------------------------------------------
(* The guardrail.  Its types, and what the ledger, the settlements and the *)
(* snapshots under verification may be.                                    *)

EvalStages ==
    {"idle", "scoped", "spent", "summed", "hold", "approval-required", "denied",
     "signing", "failed", "allow", "paid", "unpaid"}

Evaluations ==
    [stage : EvalStages, amount : SpendAmounts, config : SpendConfigs(PolicyTypes),
     spent : Int, read : Nat, pending : Int, until : Nat]

Verifications ==
    [stage : {"idle", "verifying", "accepted", "ended"}, of : Payments \cup {0}]

Bindings ==
    [stage : {"none", "cosigned", "verified"}, kind : {"none", "checkout", "payment"},
     total : SpendAmounts, of : Payments \cup {0}]

GuardTypeOK ==
    /\ now \in Nat /\ late \in BOOLEAN
    /\ held \subseteq Payments
    /\ settled \subseteq [of : Payments, day : Int]
    /\ eval \in [Payments -> Evaluations]
    /\ DOMAIN consumed \subseteq Payments
    /\ \A n \in DOMAIN consumed : consumed[n] \in Nat
    /\ check \in [Checks -> Verifications]
    /\ mandate \in [Mandates -> Bindings]

\* With a reservation that was not given back, and with any verdict to pay.
Committed == {"signing", "allow", "paid", "unpaid"}
Decided == Committed \cup {"failed"}

\* Only what was decided is in the ledger, and it is not negative.
LedgerShape ==
    /\ \A q \in held : Stage(q) \in Decided
    /\ \A q \in Payments : Stage(q) \in Decided => eval[q].amount.n \in Nat

\* A payment is settled once, and not on a day to come.
SettledShape ==
    /\ \A s \in settled : Stage(s.of) = "paid" /\ s.day <= Today
    /\ \A s, t \in settled : s.of = t.of => s = t

Reading == {q \in Payments : Stage(q) \in {"spent", "summed"}}

\* What is verified has been signed, and its nonce is kept as long as it could
\* be presented again.
VerifierShape ==
    /\ \A c \in Checks : check[c].stage # "idle" => check[c].of \in Payments /\ Signed(check[c].of)
    /\ ~late => \A c \in Checks : check[c].stage = "accepted" =>
           \/ eval[check[c].of].until <= now
           \/ check[c].of \in DOMAIN consumed /\ consumed[check[c].of] = eval[check[c].of].until

\* A mandate is bound to a signed snapshot, a payment mandate to its amount.
MandateShape ==
    \A m \in Mandates : mandate[m].stage # "none" =>
        /\ mandate[m].of \in Payments /\ Signed(mandate[m].of)
        /\ mandate[m].kind = "payment" => mandate[m].total = eval[mandate[m].of].amount

\* A policy that parses admits no negative amount.
LEMMA AllowedIsCounted ==
    ASSUME NEW config \in SpendConfigs(PolicyTypes), NEW amount \in SpendAmounts, NEW spent \in Int,
           CheckSpendAllowedTiered(config, amount, spent) = "allow"
    PROVE  amount.n \in Nat
<1>1. amount.n \in Int
    BY DEF SpendAmounts
<1>2. CheckSpendAllowed(config, amount, spent) = "allow"
    BY DEF CheckSpendAllowedTiered
<1>3. ~(amount.n < 0)
    BY <1>2 DEF CheckSpendAllowed
<1> QED
    BY <1>1, <1>3

\* Sums over payments are integers.
LEMMA PaymentSums ==
    ASSUME GuardTypeOK, NEW S \in SUBSET Payments
    PROVE  IsFiniteSet(S) /\ Sum(Worth, S) \in Int
<1>1. IsFiniteSet(S)
    BY PaymentsAssumption, FS_Subset
<1>2. \A q \in S : Worth[q] \in Int
    BY DEF GuardTypeOK, Evaluations, SpendAmounts, Worth
<1> QED
    BY <1>1, <1>2, SumInt

\* Days are whole numbers and do not go back.
LEMMA DaysGrow ==
    ASSUME NEW t \in Nat, NEW u \in Nat, t <= u
    PROVE  t \div DayLength \in Nat /\ u \div DayLength \in Nat /\ t \div DayLength <= u \div DayLength
<1> USE GuardAssumption
<1> DEFINE q == t \div DayLength
           r == u \div DayLength
<1>1. /\ q \in Int /\ r \in Int
      /\ t = (DayLength * q) + (t % DayLength) /\ u = (DayLength * r) + (u % DayLength)
      /\ t % DayLength \in 0..(DayLength - 1) /\ u % DayLength \in 0..(DayLength - 1)
    BY SMT
<1>2. q >= 0 /\ r >= 0 /\ q <= r
    BY SMT
<1> QED
    BY <1>1, <1>2

\* One evaluation moves at a time, and only forwards: what was decided stays
\* decided, with its amount, its policy and its expiry.
LEMMA EvaluationsKept ==
    ASSUME GuardTypeOK, NEW p \in Payments, Evaluate(p)
    PROVE  /\ eval' \in [Payments -> Evaluations]
           /\ \A q \in Payments : q # p => eval'[q] = eval[q]
           /\ now' = now
           /\ Stage(p) \in {"summed"} \cup Decided =>
                  /\ eval'[p].amount = eval[p].amount /\ eval'[p].config = eval[p].config
                  /\ eval'[p].spent = eval[p].spent /\ eval'[p].read = eval[p].read
           /\ Stage(p) \in Decided => Stage(p)' \in Decided /\ eval'[p].until = eval[p].until
           /\ Stage(p)' \in Committed => Stage(p) \in Committed \cup {"summed"}
           /\ Stage(p)' \in Decided => Stage(p) \in Decided \cup {"summed"}
           /\ Signed(p) => Signed(p)'
<1> USE DEF GuardTypeOK, Evaluations, To, Ends, Stage
<1>0. eval[p] \in Evaluations /\ now \in Nat
    OBVIOUS
<1>1. CASE ReadPolicy(p)
    <2>1. PICK o \in Offers, given \in Policies :
               eval' = [eval EXCEPT ![p] =
                   [eval[p] EXCEPT !.stage = IF InScope(given.lists, o) THEN "scoped" ELSE "denied",
                                   !.config = given.config, !.amount = o.amount]]
        BY <1>1 DEF ReadPolicy
    <2>2. o.amount \in SpendAmounts /\ given.config \in SpendConfigs(PolicyTypes)
        BY OffersAssumption, ProviderAssumption
    <2>3. now' = now /\ eval[p].stage = "idle"
        BY <1>1 DEF ReadPolicy
    <2> DEFINE e == [eval[p] EXCEPT !.stage = IF InScope(given.lists, o) THEN "scoped" ELSE "denied",
                                    !.config = given.config, !.amount = o.amount]
    <2>4. e \in Evaluations /\ e.stage \in {"scoped", "denied"}
        BY <1>0, <2>2 DEF EvalStages
    <2>5. eval' = [eval EXCEPT ![p] = e]
        BY <2>1
    <2> HIDE DEF e
    <2> QED
        BY <2>3, <2>4, <2>5 DEF Decided, Committed, Signed
<1>2. CASE ReadSpent(p)
    <2>1. SpentOn(Today) \in Int
        BY PaymentSums DEF SpentOn, SettledOn, Sum
    <2> QED
        BY <1>0, <1>2, <2>1 DEF ReadSpent, EvalStages, Decided, Committed, Signed
<1>3. CASE ReadPending(p)
    <2>1. TotalOf(Live(held)) \in Int
        BY PaymentSums DEF TotalOf, Live, Sum
    <2> QED
        BY <1>0, <1>3, <2>1 DEF ReadPending, EvalStages, Decided, Committed, Signed
<1>4. CASE Decide(p)
    <2>1. now + Ttl \in Nat
        BY GuardAssumption
    <2>2. now' = now /\ eval[p].stage = "summed"
        BY <1>4 DEF Decide
    <2>3. \/ eval' = [eval EXCEPT ![p] = [eval[p] EXCEPT !.stage = "signing", !.until = now + Ttl]]
          \/ \E s \in {"hold", "approval-required", "denied"} :
                 eval' = [eval EXCEPT ![p] = [eval[p] EXCEPT !.stage = s]]
        BY <1>4 DEF Decide
    <2>4. CASE eval' = [eval EXCEPT ![p] = [eval[p] EXCEPT !.stage = "signing", !.until = now + Ttl]]
        BY <1>0, <2>1, <2>2, <2>4 DEF EvalStages, Decided, Committed, Signed
    <2>5. ASSUME NEW s \in {"hold", "approval-required", "denied"},
                 eval' = [eval EXCEPT ![p] = [eval[p] EXCEPT !.stage = s]]
          PROVE  /\ eval' \in [Payments -> Evaluations]
                 /\ \A q \in Payments : q # p => eval'[q] = eval[q]
                 /\ eval'[p] = [eval[p] EXCEPT !.stage = s]
        BY <1>0, <2>5 DEF EvalStages
    <2> QED
        BY <2>2, <2>3, <2>4, <2>5 DEF EvalStages, Decided, Committed, Signed
<1>5. CASE EndSign(p)
    BY <1>0, <1>5 DEF EndSign, EvalStages, Decided, Committed, Signed
<1>6. CASE DoPayment(p)
    BY <1>0, <1>6 DEF DoPayment, EvalStages, Decided, Committed, Signed
<1> QED
    BY <1>1, <1>2, <1>3, <1>4, <1>5, <1>6 DEF Evaluate

\* What decides what an evaluation did to the ledger and to the payments made.
LEMMA LedgerMoves ==
    ASSUME GuardTypeOK, NEW p \in Payments, Evaluate(p)
    PROVE  /\ \/ held' \subseteq held
              \/ held' = Live(held) \cup {p} /\ Stage(p)' = "signing" /\ Stage(p) = "summed"
           /\ \/ settled' = settled
              \/ /\ settled' = settled \cup {[of |-> p, day |-> Today]}
                 /\ Stage(p) = "allow" /\ Stage(p)' = "paid"
           /\ late' \in BOOLEAN /\ (late => late')
           /\ UNCHANGED <<verifier, mandate>>
<1> USE DEF GuardTypeOK, To, Ends, Stage
<1>1. CASE ReadPolicy(p)
    BY <1>1 DEF ReadPolicy
<1>2. CASE ReadSpent(p)
    BY <1>2 DEF ReadSpent
<1>3. CASE ReadPending(p)
    BY <1>3 DEF ReadPending, Live
<1>4. CASE Decide(p)
    <2>1. UNCHANGED <<verifier, mandate>> /\ settled' = settled /\ late' \in BOOLEAN /\ (late => late')
        BY <1>4 DEF Decide
    <2>2. \/ held' \in {Live(held), held}
          \/ held' = Live(held) \cup {p} /\ eval'[p] = [eval[p] EXCEPT !.stage = "signing", !.until = now + Ttl]
        BY <1>4 DEF Decide
    <2>4. eval[p] \in Evaluations
        OBVIOUS
    <2>5. [eval[p] EXCEPT !.stage = "signing", !.until = now + Ttl].stage = "signing"
        BY <2>4 DEF Evaluations
    <2>3. eval[p].stage = "summed"
        BY <1>4 DEF Decide
    <2> QED
        BY <2>1, <2>2, <2>3, <2>5 DEF Live
<1>5. CASE EndSign(p)
    <2>1. Release(held, eval[p].amount.n) \subseteq held
        BY DEF Release
    <2> QED
        BY <1>5, <2>1 DEF EndSign
<1>6. CASE DoPayment(p)
    BY <1>6 DEF DoPayment, Evaluations
<1> QED
    BY <1>1, <1>2, <1>3, <1>4, <1>5, <1>6 DEF Evaluate

GuardShape == GuardTypeOK /\ LedgerShape /\ SettledShape /\ VerifierShape /\ MandateShape

\* A decision to pay counts for something.
LEMMA DecisionCounts ==
    ASSUME GuardTypeOK, NEW p \in Payments, Decide(p), Stage(p)' \in Decided
    PROVE  /\ eval[p].amount.n \in Nat
           /\ CheckSpendAllowedTiered(eval[p].config, eval[p].amount, eval[p].spent + eval[p].pending) = "allow"
           /\ eval[p].config.type = "limit" =>
                  MayReserve(eval[p].config, eval[p].spent, eval[p].amount.n) /\ held' = Live(held) \cup {p}
           /\ eval[p].config.type # "limit" => held' = held
           /\ eval'[p] = [eval[p] EXCEPT !.stage = "signing", !.until = now + Ttl]
           /\ late' = (late \/ LapsedSince(eval[p].read))
<1> DEFINE e == eval[p]
           verdict == CheckSpendAllowedTiered(e.config, e.amount, e.spent + e.pending)
           pays == verdict = "allow" /\ (e.config.type = "limit" => MayReserve(e.config, e.spent, e.amount.n))
<1>1. e \in Evaluations
    BY DEF GuardTypeOK
<1>2. pays
    <2>1. SUFFICES ASSUME ~pays PROVE FALSE
        OBVIOUS
    <2>2. Ends(p, CASE verdict = "timelock" -> "hold"
                    [] verdict = "approval" -> "approval-required"
                    [] OTHER -> "denied")
        BY <2>1, Zenon DEF Decide
    <2>3. eval'[p].stage \in {"hold", "approval-required", "denied"}
        BY <1>1, <2>2 DEF Ends, To, GuardTypeOK, Evaluations
    <2> QED
        BY <2>3 DEF Decided, Committed, Stage
<1>3. /\ To(p, [e EXCEPT !.stage = "signing", !.until = now + Ttl])
      /\ held' = IF e.config.type = "limit" THEN Live(held) \cup {p} ELSE held
      /\ late' = (late \/ LapsedSince(e.read))
    BY <1>2, Zenon DEF Decide
<1>4. e.amount.n \in Nat
    <2>1. /\ e.spent + e.pending \in Int /\ e.amount \in SpendAmounts
          /\ e.config \in SpendConfigs(PolicyTypes)
        BY <1>1 DEF Evaluations
    <2> QED
        BY <1>2, <2>1, AllowedIsCounted
<1>5. eval'[p] = [e EXCEPT !.stage = "signing", !.until = now + Ttl]
    BY <1>3 DEF To, GuardTypeOK
<1>6. e.config.type = "limit" =>
          MayReserve(e.config, e.spent, e.amount.n) /\ held' = Live(held) \cup {p}
    BY <1>2, <1>3
<1>7. e.config.type # "limit" => held' = held
    BY <1>3
<1> HIDE DEF pays
<1> QED
    BY <1>2, <1>3, <1>4, <1>5, <1>6, <1>7 DEF pays

\* A step of an evaluation keeps the shape.
LEMMA EvaluationKeepsShape ==
    ASSUME GuardShape, NEW p \in Payments, Evaluate(p)
    PROVE  GuardShape'
<1> USE DEF GuardShape
<1>1. /\ eval' \in [Payments -> Evaluations]
      /\ \A q \in Payments : q # p => eval'[q] = eval[q]
      /\ now' = now
      /\ Stage(p) \in {"summed"} \cup Decided =>
             /\ eval'[p].amount = eval[p].amount /\ eval'[p].config = eval[p].config
             /\ eval'[p].spent = eval[p].spent /\ eval'[p].read = eval[p].read
      /\ Stage(p) \in Decided => Stage(p)' \in Decided /\ eval'[p].until = eval[p].until
      /\ Stage(p)' \in Committed => Stage(p) \in Committed \cup {"summed"}
      /\ Stage(p)' \in Decided => Stage(p) \in Decided \cup {"summed"}
      /\ Signed(p) => Signed(p)'
    BY EvaluationsKept
<1>2. /\ \/ held' \subseteq held
         \/ held' = Live(held) \cup {p} /\ Stage(p)' = "signing" /\ Stage(p) = "summed"
      /\ \/ settled' = settled
         \/ /\ settled' = settled \cup {[of |-> p, day |-> Today]}
            /\ Stage(p) = "allow" /\ Stage(p)' = "paid"
      /\ late' \in BOOLEAN /\ (late => late')
      /\ UNCHANGED <<verifier, mandate>>
    BY LedgerMoves
<1>3. Today' = Today /\ Today \in Int
    BY <1>1, DaysGrow DEF Today, GuardTypeOK
<1>4. Live(held) \subseteq held
    BY DEF Live
<1>5. GuardTypeOK'
    BY <1>1, <1>2, <1>3, <1>4 DEF GuardTypeOK, verifier
<1>6. ASSUME NEW q \in Payments, Stage(q) \in Decided
      PROVE  /\ Stage(q)' \in Decided /\ eval'[q].amount = eval[q].amount
             /\ eval'[q].until = eval[q].until /\ (Signed(q) => Signed(q)')
    BY <1>1, <1>6 DEF Stage, Signed
<1>7. LedgerShape'
    <2>1. \A q \in held' : Stage(q)' \in Decided
        <3>1. CASE held' \subseteq held
            BY <1>6, <3>1 DEF LedgerShape, GuardTypeOK
        <3>2. CASE held' = Live(held) \cup {p} /\ Stage(p)' = "signing"
            BY <1>4, <1>6, <3>2 DEF LedgerShape, GuardTypeOK, Decided, Committed
        <3> QED
            BY <1>2, <3>1, <3>2
    <2>2. ASSUME NEW q \in Payments, Stage(q)' \in Decided
          PROVE  eval'[q].amount.n \in Nat
        <3>1. CASE Stage(q) \in Decided
            BY <1>6, <3>1 DEF LedgerShape
        <3>2. CASE Stage(q) \notin Decided
            <4>1. q = p
                BY <1>1, <2>2, <3>2 DEF Stage
            <4>2. Decide(p)
                BY <1>1, <2>2, <3>2, <4>1 DEF Evaluate, ReadPolicy, ReadSpent, ReadPending, EndSign, DoPayment
            <4>3. eval[p].amount.n \in Nat /\ Stage(p) = "summed"
                BY <2>2, <4>1, <4>2, DecisionCounts DEF Decide
            <4> QED
                BY <1>1, <4>1, <4>3
        <3> QED
            BY <3>1, <3>2
    <2> QED
        BY <2>1, <2>2 DEF LedgerShape
<1>8. SettledShape'
    <2>1. \A s \in settled : s.of \in Payments /\ Stage(s.of) = "paid"
        BY DEF GuardTypeOK, SettledShape
    <2>2. Stage(p) # "paid"
        BY DEF Evaluate, ReadPolicy, ReadSpent, ReadPending, Decide, EndSign, DoPayment
    <2>3. \A s \in settled : s.of # p /\ Stage(s.of)' = "paid"
        BY <1>1, <2>1, <2>2 DEF Stage
    <2>4. CASE settled' = settled
        BY <1>3, <2>3, <2>4 DEF SettledShape
    <2>5. CASE settled' = settled \cup {[of |-> p, day |-> Today]} /\ Stage(p)' = "paid"
        BY <1>3, <2>3, <2>5 DEF SettledShape
    <2> QED
        BY <1>2, <2>4, <2>5
<1>9. \A q \in Payments : Signed(q) => Stage(q) \in Decided
    BY DEF Signed, Decided, Committed
<1>10. VerifierShape'
    BY <1>1, <1>2, <1>6, <1>9 DEF VerifierShape, verifier
<1>11. MandateShape'
    BY <1>1, <1>2, <1>6, <1>9 DEF MandateShape
<1> QED
    BY <1>5, <1>7, <1>8, <1>10, <1>11

\* The verifier keeps it: what it accepts it had not, and will not again.
LEMMA VerificationKeepsShape ==
    ASSUME GuardShape, \/ \E c \in Checks, p \in Payments : BeginVerify(c, p)
                       \/ \E c \in Checks : EndVerify(c)
    PROVE  GuardShape'
<1> USE DEF GuardShape
<1>1. UNCHANGED <<now, settled, held, eval, mandate>>
    BY DEF BeginVerify, EndVerify, guard
<1>2. LedgerShape' /\ SettledShape' /\ MandateShape'
    BY <1>1 DEF LedgerShape, SettledShape, MandateShape, Stage, Signed, Today
<1>3. ASSUME NEW c \in Checks, NEW p \in Payments, BeginVerify(c, p)
      PROVE  GuardTypeOK' /\ VerifierShape'
    <2>1. PICK s \in {"verifying", "ended"} : check' = [check EXCEPT ![c] = [stage |-> s, of |-> p]]
        BY <1>3 DEF BeginVerify
    <2>2. UNCHANGED <<consumed, late>> /\ Signed(p)
        BY <1>3 DEF BeginVerify
    <2>3. /\ check' \in [Checks -> Verifications]
          /\ \A d \in Checks : d # c => check'[d] = check[d]
          /\ check'[c].stage = s /\ check'[c].of = p
        BY <2>1 DEF GuardTypeOK, Verifications
    <2>4. GuardTypeOK'
        BY <1>1, <2>2, <2>3 DEF GuardTypeOK
    <2> QED
        BY <1>1, <2>2, <2>3, <2>4 DEF VerifierShape, Signed, Stage
<1>4. ASSUME NEW c \in Checks, EndVerify(c)
      PROVE  GuardTypeOK' /\ VerifierShape'
    <2> DEFINE p == check[c].of
               fresh == p \notin Unforgotten
    <2>1. /\ consumed' = IF fresh THEN Consumed(p) ELSE [n \in Unforgotten |-> consumed[n]]
          /\ check' = [check EXCEPT ![c].stage = IF fresh THEN "accepted" ELSE "ended"]
          /\ late' = (late \/ (fresh /\ now >= eval[p].until))
          /\ check[c].stage = "verifying"
        BY <1>4 DEF EndVerify
    <2>2. p \in Payments /\ Signed(p) /\ eval[p].until \in Nat /\ now \in Nat /\ late \in BOOLEAN
        BY <2>1 DEF VerifierShape, GuardTypeOK, Evaluations
    <2>3. Unforgotten \subseteq DOMAIN consumed /\ DOMAIN consumed \subseteq Payments
        BY DEF Unforgotten, GuardTypeOK
    <2>4. /\ DOMAIN consumed' \subseteq Payments
          /\ \A n \in DOMAIN consumed' : consumed'[n] \in Nat
          /\ \A n \in Unforgotten : n \in DOMAIN consumed' /\ (n # p \/ ~fresh => consumed'[n] = consumed[n])
          /\ fresh /\ eval[p].until > now => p \in DOMAIN consumed' /\ consumed'[p] = eval[p].until
        <3>1. CASE fresh
            BY <2>1, <2>2, <2>3, <3>1, GuardAssumption DEF Consumed, GuardTypeOK
        <3>2. CASE ~fresh
            BY <2>1, <2>2, <2>3, <3>2 DEF GuardTypeOK
        <3> QED
            BY <3>1, <3>2
    <2>5. /\ check' \in [Checks -> Verifications]
          /\ \A d \in Checks : d # c => check'[d] = check[d]
          /\ check'[c].of = p
          /\ check'[c].stage = IF fresh THEN "accepted" ELSE "ended"
        BY <2>1 DEF GuardTypeOK, Verifications
    <2>6. GuardTypeOK'
        BY <1>1, <2>1, <2>4, <2>5 DEF GuardTypeOK
    <2>7. ~late' => ~late /\ (fresh => eval[p].until > now)
        <3> DEFINE ends == now >= eval[p].until
        <3>1. ~ends => eval[p].until > now
            BY <2>2
        <3> HIDE DEF ends
        <3>2. late' = (late \/ (fresh /\ ends))
            BY <2>1 DEF ends
        <3> HIDE DEF fresh, p
        <3> QED
            BY <3>1, <3>2, Zenon
    <2>8. ASSUME NEW d \in Checks, ~late', check'[d].stage = "accepted"
          PROVE  \/ eval[check'[d].of].until <= now
                 \/ check'[d].of \in DOMAIN consumed' /\ consumed'[check'[d].of] = eval[check'[d].of].until
        <3>1. CASE d = c
            BY <2>4, <2>5, <2>7, <2>8, <3>1
        <3>2. CASE d # c
            <4> DEFINE q == check[d].of
            <4>1. check'[d] = check[d] /\ check[d].stage = "accepted" /\ ~late
                BY <2>5, <2>7, <2>8, <3>2
            <4>2. eval[q].until <= now \/ (q \in DOMAIN consumed /\ consumed[q] = eval[q].until)
                BY <4>1 DEF VerifierShape
            <4>3. q \in Payments /\ eval[q].until \in Nat
                BY <4>1 DEF VerifierShape, GuardTypeOK, Evaluations
            <4>4. ASSUME ~(eval[q].until <= now)
                  PROVE  q \in Unforgotten /\ consumed[q] = eval[q].until
                BY <2>2, <4>2, <4>3, <4>4 DEF Unforgotten
            <4> HIDE DEF q
            <4> QED
                BY <2>4, <4>1, <4>4 DEF q
        <3> QED
            BY <3>1, <3>2
    <2>9. \A d \in Checks : check'[d].stage # "idle" =>
              check'[d].of \in Payments /\ eval'[check'[d].of].stage \in {"allow", "paid", "unpaid"}
        <3> SUFFICES ASSUME NEW d \in Checks, check'[d].stage # "idle"
                     PROVE  check'[d].of \in Payments /\ eval[check'[d].of].stage \in {"allow", "paid", "unpaid"}
            BY <1>1
        <3>1. CASE d = c
            BY <2>2, <2>5, <3>1 DEF Signed, Stage
        <3>2. CASE d # c
            BY <2>5, <3>2 DEF VerifierShape, Signed, Stage
        <3> QED
            BY <3>1, <3>2
    <2> QED
        <3>1. ~late' => \A d \in Checks : check'[d].stage = "accepted" =>
                  \/ eval'[check'[d].of].until <= now'
                  \/ check'[d].of \in DOMAIN consumed' /\ consumed'[check'[d].of] = eval'[check'[d].of].until
            BY <1>1, <2>8
        <3> HIDE DEF p, fresh
        <3> QED
            BY <2>6, <2>9, <3>1 DEF VerifierShape, Signed, Stage
<1> QED
    BY <1>2, <1>3, <1>4

\* Mandates and the clock keep it.
LEMMA OtherStepsKeepShape ==
    ASSUME GuardShape,
           \/ \E m \in Mandates, p \in Payments, kind \in {"checkout", "payment"}, k \in Amounts :
                  Bind(m, p, kind, k)
           \/ \E m \in Mandates, p \in Payments, k \in Amounts : VerifyCosignature(m, p, k)
           \/ Tick
           \/ UNCHANGED guardVars
    PROVE  GuardShape'
<1> USE DEF GuardShape
<1>1. /\ UNCHANGED <<settled, held, eval, consumed, check, late>>
      /\ now \in Nat /\ now' \in Nat /\ now <= now'
    <2>1. now \in Nat
        BY DEF GuardTypeOK
    <2>2. CASE Tick
        BY <2>1, <2>2 DEF Tick, guard, verifier
    <2>3. CASE UNCHANGED guardVars
        BY <2>1, <2>3 DEF guardVars, guard, verifier
    <2>4. CASE \E m \in Mandates, p \in Payments, kind \in {"checkout", "payment"}, k \in Amounts :
                   Bind(m, p, kind, k)
        BY <2>1, <2>4 DEF Bind, guard, verifier
    <2>5. CASE \E m \in Mandates, p \in Payments, k \in Amounts : VerifyCosignature(m, p, k)
        BY <2>1, <2>5 DEF VerifyCosignature, guard, verifier
    <2> QED
        BY <2>2, <2>3, <2>4, <2>5
<1>2. GuardTypeOK'
    <2>1. ASSUME NEW m \in Mandates, NEW p \in Payments, NEW kind \in {"checkout", "payment"},
                 NEW k \in Amounts, Bind(m, p, kind, k)
          PROVE  mandate' \in [Mandates -> Bindings]
        <3>1. [stage |-> "cosigned", kind |-> kind, total |-> k, of |-> p] \in Bindings
            BY OffersAssumption DEF Amounts, Bindings
        <3> QED
            BY <2>1, <3>1 DEF Bind, GuardTypeOK
    <2>2. ASSUME NEW m \in Mandates, NEW p \in Payments, NEW k \in Amounts, VerifyCosignature(m, p, k)
          PROVE  mandate' \in [Mandates -> Bindings]
        <3>1. mandate' = [mandate EXCEPT ![m] = [mandate[m] EXCEPT !.stage = "verified", !.total = k]]
            BY <2>2 DEF VerifyCosignature
        <3>2. k \in SpendAmounts /\ mandate[m] \in Bindings
            BY OffersAssumption DEF Amounts, GuardTypeOK
        <3>3. [mandate[m] EXCEPT !.stage = "verified", !.total = k] \in Bindings
            BY <3>2 DEF Bindings
        <3> QED
            BY <3>1, <3>3 DEF GuardTypeOK
    <2>3. mandate' \in [Mandates -> Bindings]
        BY <2>1, <2>2 DEF Tick, guardVars, GuardTypeOK
    <2> QED
        BY <1>1, <2>3 DEF GuardTypeOK
<1>3. LedgerShape'
    BY <1>1 DEF LedgerShape, Stage
<1>4. SettledShape'
    <2>1. Today \in Int /\ Today' \in Int /\ Today <= Today'
        BY <1>1, DaysGrow DEF Today
    <2>2. \A s \in settled : s.day \in Int
        BY DEF GuardTypeOK
    <2> HIDE DEF Today
    <2> QED
        BY <1>1, <2>1, <2>2 DEF SettledShape, Stage
<1>5. VerifierShape'
    <2>1. \A c \in Checks : check[c].stage # "idle" => eval[check[c].of].until \in Nat
        BY DEF VerifierShape, GuardTypeOK, Evaluations
    <2> QED
        BY <1>1, <2>1 DEF VerifierShape, Signed, Stage
<1>6. MandateShape'
    <2>1. CASE UNCHANGED mandate
        BY <1>1, <2>1 DEF MandateShape, Signed, Stage
    <2>2. ASSUME NEW m \in Mandates, NEW p \in Payments, NEW kind, NEW k, Bind(m, p, kind, k)
          PROVE  MandateShape'
        <3>1. /\ mandate' = [mandate EXCEPT ![m] =
                     [stage |-> "cosigned", kind |-> kind, total |-> k, of |-> p]]
              /\ Signed(p) /\ (kind = "payment" => k = eval[p].amount)
            BY <2>2 DEF Bind
        <3>2. \A o \in Mandates : mandate'[o] = mandate[o] \/ mandate'[o] =
                     [stage |-> "cosigned", kind |-> kind, total |-> k, of |-> p]
            BY <3>1 DEF GuardTypeOK
        <3> QED
            BY <1>1, <3>1, <3>2 DEF MandateShape, Signed, Stage
    <2>3. ASSUME NEW m \in Mandates, NEW p \in Payments, NEW k, VerifyCosignature(m, p, k)
          PROVE  MandateShape'
        <3>1. /\ mandate' = [mandate EXCEPT ![m] = [mandate[m] EXCEPT !.stage = "verified", !.total = k]]
              /\ mandate[m].of = p /\ mandate[m].total = k /\ mandate[m].stage = "cosigned" /\ Signed(p)
            BY <2>3 DEF VerifyCosignature, Unmodified
        <3>2. \A o \in Mandates : o # m => mandate'[o] = mandate[o]
            BY <3>1 DEF GuardTypeOK
        <3>3. mandate'[m].of = p /\ mandate'[m].total = k /\ mandate'[m].kind = mandate[m].kind
            BY <3>1 DEF GuardTypeOK, Bindings
        <3> QED
            BY <1>1, <3>1, <3>2, <3>3 DEF MandateShape, Signed, Stage
    <2> QED
        BY <2>1, <2>2, <2>3 DEF Tick, guardVars
<1> QED
    BY <1>2, <1>3, <1>4, <1>5, <1>6

\* At first there is nothing.
LEMMA GuardInitShape == ASSUME GuardInit PROVE GuardShape
<1> USE DEF GuardInit, NoEval, NoCheck, NoMandate, Stage, Signed
<1>1. NoPolicy \in SpendConfigs(PolicyTypes) /\ Absent \in SpendAmounts
    BY DEF NoPolicy, SpendConfigs, PolicyTypes, Modes, Thresholds, Unset, Absent, SpendAmounts
<1>2. NoEval \in Evaluations /\ NoCheck \in Verifications /\ NoMandate \in Bindings
    BY <1>1 DEF Evaluations, EvalStages, Verifications, Bindings
<1>3. GuardTypeOK
    <2>1. DOMAIN consumed = {}
        OBVIOUS
    <2> HIDE DEF NoEval, NoCheck, NoMandate
    <2> QED
        BY <1>2, <2>1 DEF GuardTypeOK
<1>4. LedgerShape /\ SettledShape /\ VerifierShape
    BY DEF LedgerShape, SettledShape, VerifierShape, Decided, Committed
<1>5. MandateShape
    BY DEF MandateShape
<1> QED
    BY <1>3, <1>4, <1>5 DEF GuardShape

\* The shape of the guardrail is an inductive invariant.
THEOREM GuardShapeInvariant == GuardSpec => []GuardShape
<1>1. GuardInit => GuardShape
    BY GuardInitShape
<1>2. GuardShape /\ [GuardNext]_guardVars => GuardShape'
    BY EvaluationKeepsShape, VerificationKeepsShape, OtherStepsKeepShape DEF GuardNext
<1> QED
    BY <1>1, <1>2, PTL DEF GuardSpec

\* D6: one snapshot is honoured once in its lifetime, for any number of
\* verifications that overlap.
THEOREM SnapshotOnce == GuardSpec => []HonouredOnceInTime
<1>1. GuardShape /\ GuardShape' /\ HonouredOnceInTime /\ [GuardNext]_guardVars => HonouredOnceInTime'
    <2> SUFFICES ASSUME GuardShape, HonouredOnceInTime, [GuardNext]_guardVars, ~late',
                        NEW c \in Checks, NEW d \in Checks, c # d,
                        check'[c] = check'[d], check'[c].stage = "accepted"
                 PROVE  FALSE
        BY DEF HonouredOnceInTime, Twice
    <2> USE DEF GuardShape
    <2>1. late \in BOOLEAN /\ check \in [Checks -> Verifications] /\ now \in Nat
        BY DEF GuardTypeOK
    <2>2. CASE check' = check /\ late' \in {late, TRUE}
        BY <2>1, <2>2 DEF HonouredOnceInTime, Twice
    <2>3. ASSUME NEW b \in Checks, NEW p \in Payments, BeginVerify(b, p)
          PROVE  FALSE
        <3>1. PICK s \in {"verifying", "ended"} : check' = [check EXCEPT ![b] = [stage |-> s, of |-> p]]
            BY <2>3 DEF BeginVerify
        <3>2. late' = late
            BY <2>3 DEF BeginVerify
        <3>3. check'[b].stage = s /\ \A o \in Checks : o # b => check'[o] = check[o]
            BY <2>1, <3>1
        <3> QED
            BY <3>2, <3>3 DEF HonouredOnceInTime, Twice
    <2>4. ASSUME NEW b \in Checks, EndVerify(b)
          PROVE  FALSE
        <3> DEFINE p == check[b].of
                   fresh == p \notin Unforgotten
                   ends == now >= eval[p].until
        <3>1. /\ check' = [check EXCEPT ![b].stage = IF fresh THEN "accepted" ELSE "ended"]
              /\ late' = (late \/ (fresh /\ ends))
              /\ check[b].stage = "verifying"
            BY <2>4 DEF EndVerify
        <3>2. /\ check'[b].of = p /\ (~fresh => check'[b].stage = "ended")
              /\ \A o \in Checks : o # b => check'[o] = check[o]
            BY <2>1, <3>1 DEF Verifications
        <3>3. ~late /\ ~(fresh /\ ends)
            <4> HIDE DEF fresh, ends
            <4> QED
                BY <3>1, Zenon
        <3>4. PICK o \in Checks : o # b /\ check[o].of = p /\ check[o].stage = "accepted" /\ fresh
            BY <3>2, <3>3 DEF HonouredOnceInTime, Twice
        <3>5. eval[p].until \in Nat /\ ~ends
            BY <3>1, <3>3, <3>4 DEF VerifierShape, GuardTypeOK, Evaluations
        <3>6. p \in DOMAIN consumed /\ consumed[p] = eval[p].until
            BY <2>1, <3>3, <3>4, <3>5 DEF VerifierShape
        <3> QED
            BY <2>1, <3>4, <3>5, <3>6 DEF Unforgotten
    <2>5. ASSUME NEW p \in Payments, Evaluate(p)
          PROVE  check' = check /\ late' \in {late, TRUE}
        BY <2>1, <2>5, LedgerMoves DEF verifier
    <2> QED
        BY <2>2, <2>3, <2>4, <2>5 DEF GuardNext, Bind, VerifyCosignature, Tick, guardVars, verifier
<1>2. GuardInit => HonouredOnceInTime
    BY DEF GuardInit, NoCheck, HonouredOnceInTime, Twice
<1> QED
    BY <1>1, <1>2, GuardShapeInvariant, PTL DEF GuardSpec

\* A payment mandate that verifies is worth what a signed decision allowed,
\* whatever total it came back with.
THEOREM MandatesCovered == GuardSpec => []MandateCovered
<1>1. GuardShape => MandateCovered
    BY DEF GuardShape, GuardTypeOK, MandateShape, MandateCovered
<1> QED
    BY <1>1, GuardShapeInvariant, PTL

-----------------------------------------------------------------------------
(* The ledger covers what is under way: whoever's reservation a failed     *)
(* signing gave back, every other one still has an entry that counts as    *)
(* much and lasts as long.                                                 *)

Expiry == [q \in Payments |-> eval[q].until]

\* Payments that were committed under a limit and not given up.
Active == {q \in Payments : Stage(q) \in Committed /\ eval[q].config.type = "limit" /\ Expiry[q] > now}

\* f finds each element of A an entry of its own in H.
Covers(f, A, H, w, u) ==
    /\ f \in [A -> H]
    /\ \A q, r \in A : f[q] = f[r] => q = r
    /\ \A q \in A : w[f[q]] = w[q] /\ u[q] <= u[f[q]]

LedgerCovers == ~late => \E f : Covers(f, Active, held, Worth, Expiry)

\* Fewer need fewer entries.
LEMMA CoverKept ==
    ASSUME NEW A, NEW H, NEW w, NEW u, NEW f, Covers(f, A, H, w, u),
           NEW B \in SUBSET A, NEW J, NEW v, NEW t,
           \A q \in B : f[q] \in J,
           \A q \in B : /\ v[q] = w[q] /\ v[f[q]] = w[f[q]]
                        /\ t[q] = u[q] /\ t[f[q]] = u[f[q]]
    PROVE  \E g : Covers(g, B, J, v, t)
<1> DEFINE g == [q \in B |-> f[q]]
<1>1. Covers(g, B, J, v, t)
    BY DEF Covers
<1> QED
    BY <1>1

\* A new reservation is an entry of its own.
LEMMA CoverJoined ==
    ASSUME NEW A, NEW H, NEW w, NEW u, NEW f, Covers(f, A, H, w, u),
           NEW p, p \notin H, w[p] \in Int, u[p] \in Int
    PROVE  \E g : Covers(g, A \cup {p}, H \cup {p}, w, u)
<1> DEFINE g == [q \in A \cup {p} |-> IF q = p THEN p ELSE f[q]]
<1>1. g \in [A \cup {p} -> H \cup {p}]
    BY DEF Covers
<1>2. \A q, r \in A \cup {p} : g[q] = g[r] => q = r
    BY DEF Covers
<1>3. \A q \in A \cup {p} : w[g[q]] = w[q] /\ u[q] <= u[g[q]]
    BY DEF Covers
<1> QED
    BY <1>1, <1>2, <1>3 DEF Covers

\* An entry goes with a payment of its amount: if it is the one that expires
\* first, whoever counted on it takes over the entry of that payment.
LEMMA CoverReleased ==
    ASSUME NEW A, NEW H, NEW w, NEW u, NEW f, Covers(f, A, H, w, u),
           NEW p \in A, NEW h \in H, w[h] = w[p],
           \A q \in A : u[q] \in Nat, \A q \in H : u[q] \in Nat,
           \A q \in H : w[q] = w[p] => u[h] <= u[q]
    PROVE  \E g : Covers(g, A \ {p}, H \ {h}, w, u)
<1> DEFINE g == [q \in A \ {p} |-> IF f[q] = h THEN f[p] ELSE f[q]]
<1>1. ASSUME NEW q \in A, q # p, f[q] = h
      PROVE  f[p] \in H \ {h} /\ w[f[p]] = w[q] /\ u[q] <= u[f[p]]
    <2>1. f[p] \in H /\ f[p] # h /\ w[f[p]] = w[p] /\ w[q] = w[p]
        BY <1>1 DEF Covers
    <2>2. u[q] <= u[h] /\ u[h] <= u[f[p]]
        BY <1>1, <2>1 DEF Covers
    <2>3. u[q] \in Nat /\ u[h] \in Nat /\ u[f[p]] \in Nat
        BY <2>1
    <2> QED
        BY <2>1, <2>2, <2>3
<1>2. g \in [A \ {p} -> H \ {h}]
    BY <1>1 DEF Covers
<1>3. \A q, r \in A \ {p} : g[q] = g[r] => q = r
    BY DEF Covers
<1>4. \A q \in A \ {p} : w[g[q]] = w[q] /\ u[q] <= u[g[q]]
    BY <1>1 DEF Covers
<1> QED
    BY <1>2, <1>3, <1>4 DEF Covers

\* Among finitely many expiries there is a first.
LEMMA FirstExpires ==
    ASSUME GuardTypeOK, NEW S \in SUBSET Payments, S # {}
    PROVE  First(S) \in S /\ \A r \in S : eval[First(S)].until <= eval[r].until
<1> DEFINE Least(T, q) == q \in T /\ \A r \in T : eval[q].until <= eval[r].until
           bad == {T \in SUBSET S : T # {} /\ ~ \E q \in T : Least(T, q)}
<1>1. \A q \in S : eval[q].until \in Nat
    BY DEF GuardTypeOK, Evaluations
<1>2. bad = {}
    <2>1. SUFFICES ASSUME bad # {} PROVE FALSE
        OBVIOUS
    <2>2. IsFiniteSet(S)
        BY PaymentsAssumption, FS_Subset
    <2>3. PICK M \in bad : \A V \in SUBSET M : V # M => V \notin bad
        <3>1. bad \subseteq SUBSET S
            OBVIOUS
        <3> HIDE DEF bad
        <3> QED
            BY <2>1, <2>2, <3>1, Smallest
    <2>4. PICK y \in M : TRUE
        OBVIOUS
    <2> DEFINE rest == M \ {y}
    <2>5. rest \notin bad /\ rest \in SUBSET S /\ M \in SUBSET S
        BY <2>3, <2>4
    <2>6. CASE rest = {}
        <3>1. Least(M, y)
            BY <1>1, <2>4, <2>5, <2>6
        <3> QED
            BY <2>4, <3>1
    <2>7. CASE rest # {}
        <3>1. PICK q \in rest : Least(rest, q)
            BY <2>5, <2>7
        <3>2. CASE eval[q].until <= eval[y].until
            <4>1. Least(M, q)
                BY <3>1, <3>2
            <4> QED
                BY <3>1, <4>1
        <3>3. CASE ~(eval[q].until <= eval[y].until)
            <4>1. Least(M, y)
                BY <1>1, <2>4, <2>5, <3>1, <3>3
            <4> QED
                BY <2>4, <4>1
        <3> QED
            BY <3>2, <3>3
    <2> QED
        BY <2>6, <2>7
<1>3. \E q \in S : Least(S, q)
    BY <1>2
<1> QED
    BY <1>3, Zenon DEF First

\* What is under way stays covered through an evaluation's step.
LEMMA EvaluationKeepsCover ==
    ASSUME GuardShape, LedgerCovers, NEW p \in Payments, Evaluate(p)
    PROVE  LedgerCovers'
<1> SUFFICES ASSUME ~late' PROVE \E g : Covers(g, Active', held', Worth', Expiry')
    BY DEF LedgerCovers
<1> USE DEF GuardShape
<1>1. /\ eval' \in [Payments -> Evaluations]
      /\ \A q \in Payments : q # p => eval'[q] = eval[q]
      /\ now' = now
      /\ Stage(p) \in {"summed"} \cup Decided =>
             /\ eval'[p].amount = eval[p].amount /\ eval'[p].config = eval[p].config
      /\ Stage(p) \in Decided => Stage(p)' \in Decided /\ eval'[p].until = eval[p].until
      /\ Stage(p)' \in Committed => Stage(p) \in Committed \cup {"summed"}
    BY EvaluationsKept
<1>2. ~late
    BY LedgerMoves DEF GuardTypeOK
<1>3. PICK f : Covers(f, Active, held, Worth, Expiry)
    BY <1>2 DEF LedgerCovers
<1>4. now \in Nat /\ held \subseteq Payments /\ \A q \in Payments : eval[q].until \in Nat /\ eval'[q].until \in Nat
    BY <1>1 DEF GuardTypeOK, Evaluations
<1>5. Active \subseteq Payments
    BY DEF Active
<1>6. \A q \in Active : f[q] \in Live(held) /\ Stage(f[q]) \in Decided
    <2> SUFFICES ASSUME NEW q \in Active PROVE f[q] \in Live(held) /\ Stage(f[q]) \in Decided
        OBVIOUS
    <2>1. f[q] \in held /\ f[q] \in Payments /\ q \in Payments /\ Expiry[q] <= Expiry[f[q]] /\ Expiry[q] > now
        BY <1>3, <1>4 DEF Covers, Active
    <2>2. eval[q].until > now /\ eval[q].until <= eval[f[q]].until
        BY <2>1 DEF Expiry
    <2>3. eval[f[q]].until > now
        BY <1>4, <2>1, <2>2
    <2> QED
        BY <2>1, <2>3 DEF Live, LedgerShape
<1>7. \A q \in Payments : Stage(q) \in Decided => Worth'[q] = Worth[q] /\ Expiry'[q] = Expiry[q]
    BY <1>1 DEF Worth, Expiry
<1>8. \A q \in Active : Stage(q) \in Decided
    BY DEF Active, Decided
<1>9. ASSUME Active' \subseteq Active, Live(held) \subseteq held'
      PROVE  \E g : Covers(g, Active', held', Worth', Expiry')
    <2>1. \A q \in Active' : f[q] \in held'
        BY <1>6, <1>9
    <2>2. \A q \in Active' : /\ Worth'[q] = Worth[q] /\ Worth'[f[q]] = Worth[f[q]]
                             /\ Expiry'[q] = Expiry[q] /\ Expiry'[f[q]] = Expiry[f[q]]
        BY <1>4, <1>5, <1>6, <1>7, <1>8, <1>9 DEF Live
    <2> QED
        BY <1>3, <1>9, <2>1, <2>2, CoverKept
<1>10. ASSUME Stage(p)' \in Committed => Stage(p) \in Committed
      PROVE  Active' \subseteq Active
    BY <1>1, <1>10 DEF Active, Expiry, Stage, Decided
<1>11. Live(held) \subseteq held
    BY DEF Live
<1>12. CASE ReadPolicy(p) \/ ReadSpent(p) \/ ReadPending(p)
    <2>1. ~(Stage(p)' \in Committed)
        BY <1>1, <1>12 DEF ReadPolicy, ReadSpent, ReadPending, Committed
    <2>2. Live(held) \subseteq held'
        BY <1>11, <1>12 DEF ReadPolicy, ReadSpent, ReadPending
    <2> QED
        BY <1>9, <1>10, <2>1, <2>2
<1>13. CASE DoPayment(p)
    <2>1. Stage(p) \in Committed /\ held' = held
        BY <1>13 DEF DoPayment, Committed
    <2> QED
        BY <1>9, <1>10, <1>11, <2>1
<1>14. CASE Decide(p)
    <2>1. Stage(p) = "summed" /\ held' \in {held, Live(held), Live(held) \cup {p}}
        BY <1>14 DEF Decide
    <2>2. CASE Stage(p)' \notin Decided
        BY <1>9, <1>10, <1>11, <2>1, <2>2 DEF Decided
    <2>3. CASE Stage(p)' \in Decided
        <3>1. /\ eval[p].config.type = "limit" => held' = Live(held) \cup {p}
              /\ eval'[p] = [eval[p] EXCEPT !.stage = "signing", !.until = now + Ttl]
            BY <1>14, <2>3, DecisionCounts
        <3>2. p \notin held
            BY <2>1 DEF LedgerShape, Decided, Committed
        <3>3. CASE eval[p].config.type # "limit"
            <4>1. Active' \subseteq Active
                BY <1>1, <2>1, <3>3 DEF Active, Expiry, Stage, Decided
            <4> QED
                BY <1>9, <1>11, <2>1, <4>1
        <3>4. CASE eval[p].config.type = "limit"
            <4>1. Active' \subseteq Active \cup {p} /\ p \notin Active
                BY <1>1, <2>1 DEF Active, Expiry, Stage, Decided, Committed
            <4>2. held' = Live(held) \cup {p}
                BY <3>1, <3>4
            <4>3. Worth'[p] \in Int /\ Expiry'[p] \in Int
                BY <1>1, <1>4 DEF Worth, Expiry, Evaluations, SpendAmounts
            <4>4. \A q \in Active : /\ Worth'[q] = Worth[q] /\ Worth'[f[q]] = Worth[f[q]]
                                    /\ Expiry'[q] = Expiry[q] /\ Expiry'[f[q]] = Expiry[f[q]]
                BY <1>4, <1>5, <1>6, <1>7, <1>8 DEF Live
            <4>5. PICK g : Covers(g, Active, Live(held), Worth', Expiry')
                BY <1>3, <1>6, <4>4, CoverKept
            <4>6. p \notin Live(held)
                BY <1>11, <3>2
            <4>7. PICK k : Covers(k, Active \cup {p}, Live(held) \cup {p}, Worth', Expiry')
                BY <4>3, <4>5, <4>6, CoverJoined
            <4>8. \A q \in Active' : k[q] \in held'
                BY <4>1, <4>2, <4>7 DEF Covers
            <4> QED
                BY <4>1, <4>7, <4>8, CoverKept
        <3> QED
            BY <3>3, <3>4
    <2> QED
        BY <2>2, <2>3
<1>15. CASE EndSign(p)
    <2>1. Stage(p) = "signing" /\ ~Outlasted(p)
        <3> DEFINE ends == Outlasted(p)
        <3>1. late' = (late \/ ends) /\ Stage(p) = "signing"
            BY <1>15 DEF EndSign
        <3> HIDE DEF ends
        <3>2. ~ends
            BY <3>1, Zenon
        <3> QED
            BY <3>1, <3>2 DEF ends
    <2>2. Active' \subseteq Active
        BY <1>10, <2>1 DEF Committed
    <2>3. CASE held' = held
        BY <1>9, <1>11, <2>2, <2>3
    <2>4. CASE held' # held
        <3>1. /\ eval' = [eval EXCEPT ![p] = [eval[p] EXCEPT !.stage = "failed"]]
              /\ held' = Release(held, eval[p].amount.n)
              /\ eval[p].config.type = "limit"
            BY <1>15, <2>4 DEF EndSign, Ends, To
        <3> DEFINE of == {q \in held : Worth[q] = Worth[p]}
                   h == First(of)
        <3>2. of # {} /\ held' = held \ {h}
            BY <2>4, <3>1 DEF Release, Worth
        <3>3. of \in SUBSET Payments
            BY <1>4
        <3>4. h \in of /\ \A r \in of : eval[h].until <= eval[r].until
            <4> HIDE DEF of
            <4> QED
                BY <3>2, <3>3, FirstExpires
        <3>5. p \in Active
            BY <1>4, <2>1, <3>1 DEF Active, Expiry, Outlasted, Committed
        <3>6. /\ h \in held /\ Worth[h] = Worth[p]
              /\ \A q \in held : Worth[q] = Worth[p] => Expiry[h] <= Expiry[q]
            BY <1>4, <3>4 DEF Expiry
        <3> HIDE DEF h, of
        <3>7. \A q \in Payments : Expiry[q] \in Nat
            BY <1>4 DEF Expiry
        <3>8. PICK g : Covers(g, Active \ {p}, held \ {h}, Worth, Expiry)
            <4>1. /\ \A q \in Active : Expiry[q] \in Nat
                  /\ \A q \in held : Expiry[q] \in Nat
                BY <1>4, <3>7 DEF Active
            <4> QED
                BY <1>3, <3>5, <3>6, <4>1, CoverReleased
        <3>9. p \notin Active'
            BY <1>1, <3>1 DEF Active, Stage, Committed, GuardTypeOK
        <3>10. Active' \in SUBSET (Active \ {p})
            BY <2>2, <3>9
        <3>11. \A q \in Active' : g[q] \in held' /\ g[q] \in held
            BY <3>2, <3>8, <3>10 DEF Covers
        <3>12. \A q \in Active' : /\ Worth'[q] = Worth[q] /\ Worth'[g[q]] = Worth[g[q]]
                                  /\ Expiry'[q] = Expiry[q] /\ Expiry'[g[q]] = Expiry[g[q]]
            BY <1>4, <1>5, <1>6, <1>7, <1>8, <3>10, <3>11 DEF LedgerShape
        <3> QED
            BY <3>8, <3>10, <3>11, <3>12, CoverKept
    <2> QED
        BY <2>3, <2>4
<1> QED
    BY <1>12, <1>13, <1>14, <1>15 DEF Evaluate

\* The verifier and the mandates leave the ledger alone.
LEMMA OtherStepsKeepLedger ==
    ASSUME GuardShape, [GuardNext]_guardVars, ~ \E p \in Payments : Evaluate(p)
    PROVE  /\ UNCHANGED <<settled, held, eval>>
           /\ now' \in Nat /\ now <= now'
           /\ late \in BOOLEAN /\ (late => late') /\ late' \in BOOLEAN
<1>1. now \in Nat /\ late \in BOOLEAN
    BY DEF GuardShape, GuardTypeOK
<1>2. CASE \E c \in Checks, p \in Payments : BeginVerify(c, p)
    BY <1>1, <1>2 DEF BeginVerify, guard
<1>3. CASE \E c \in Checks : EndVerify(c)
    <2>1. UNCHANGED <<now, guard>> /\ \E s \in BOOLEAN : late' = (late \/ s)
        BY <1>3 DEF EndVerify
    <2> QED
        BY <1>1, <2>1 DEF guard
<1>4. CASE \E m \in Mandates, p \in Payments, kind \in {"checkout", "payment"}, k \in Amounts : Bind(m, p, kind, k)
    BY <1>1, <1>4 DEF Bind, guard
<1>5. CASE \E m \in Mandates, p \in Payments, k \in Amounts : VerifyCosignature(m, p, k)
    BY <1>1, <1>5 DEF VerifyCosignature, guard
<1>6. CASE Tick \/ UNCHANGED guardVars
    BY <1>1, <1>6 DEF Tick, guardVars, guard
<1> QED
    BY <1>2, <1>3, <1>4, <1>5, <1>6 DEF GuardNext

\* As time goes by less is under way.
LEMMA OtherStepsKeepCover ==
    ASSUME GuardShape, LedgerCovers, [GuardNext]_guardVars, ~ \E p \in Payments : Evaluate(p)
    PROVE  LedgerCovers'
<1> SUFFICES ASSUME ~late' PROVE \E g : Covers(g, Active', held', Worth', Expiry')
    BY DEF LedgerCovers
<1>1. /\ UNCHANGED <<settled, held, eval>>
      /\ now' \in Nat /\ now <= now' /\ (late => late')
    BY OtherStepsKeepLedger
<1>2. PICK f : Covers(f, Active, held, Worth, Expiry)
    BY <1>1 DEF LedgerCovers
<1>3. now \in Nat /\ \A q \in Payments : eval[q].until \in Nat
    BY DEF GuardShape, GuardTypeOK, Evaluations
<1>4. Worth' = Worth /\ Expiry' = Expiry
    BY <1>1 DEF Worth, Expiry
<1>5. Active' \in SUBSET Active
    BY <1>1, <1>3 DEF Active, Stage, Expiry
<1>6. \A q \in Active' : f[q] \in held'
    BY <1>1, <1>2, <1>5 DEF Covers
<1> QED
    BY <1>2, <1>4, <1>5, <1>6, CoverKept

\* The ledger covers what is under way, always.
THEOREM LedgerInvariant == GuardSpec => []LedgerCovers
<1>1. GuardInit => LedgerCovers
    <2> SUFFICES ASSUME GuardInit PROVE \E f : Covers(f, Active, held, Worth, Expiry)
        BY DEF LedgerCovers
    <2>1. Active = {}
        BY DEF GuardInit, NoEval, Active, Stage, Committed
    <2> DEFINE f == [q \in Active |-> q]
    <2>2. Covers(f, Active, held, Worth, Expiry)
        BY <2>1 DEF Covers
    <2> QED
        BY <2>2
<1>2. GuardShape /\ LedgerCovers /\ [GuardNext]_guardVars => LedgerCovers'
    BY EvaluationKeepsCover, OtherStepsKeepCover
<1> QED
    BY <1>1, <1>2, GuardShapeInvariant, PTL DEF GuardSpec

\* A failed signing takes no other payment's headroom, for any number of
\* payments of any amounts.
THEOREM HeadroomIsKept == GuardSpec => []HeadroomKept
<1>1. GuardShape /\ LedgerCovers => HeadroomKept
    <2> SUFFICES ASSUME GuardShape, LedgerCovers, ~late, NEW p \in Payments
                 PROVE  Cardinality(InFlight(eval[p].amount.n))
                            <= Cardinality({q \in Live(held) : Worth[q] = eval[p].amount.n})
        BY DEF HeadroomKept
    <2> DEFINE k == eval[p].amount.n
               flying == InFlight(k)
               entries == {q \in Live(held) : Worth[q] = k}
    <2>1. PICK f : Covers(f, Active, held, Worth, Expiry)
        BY DEF LedgerCovers
    <2>2. now \in Nat /\ held \subseteq Payments /\ \A q \in Payments : eval[q].until \in Nat
        BY DEF GuardShape, GuardTypeOK, Evaluations
    <2>3. ASSUME NEW q \in flying
          PROVE  q \in Active /\ f[q] \in entries
        <3>1. q \in Payments /\ q \in Active /\ Worth[q] = k /\ eval[q].until > now
            BY <2>2 DEF InFlight, Active, Committed, Outlasted, Expiry, Worth
        <3>2. f[q] \in held /\ f[q] \in Payments /\ Worth[f[q]] = k /\ eval[q].until <= eval[f[q]].until
            BY <2>1, <2>2, <3>1 DEF Covers, Expiry
        <3>3. eval[f[q]].until > now
            BY <2>2, <3>1, <3>2
        <3> QED
            BY <3>1, <3>2, <3>3 DEF Live
    <2> DEFINE g == [q \in flying |-> f[q]]
    <2> HIDE DEF flying, entries
    <2>4. g \in Injection(flying, entries)
        <3>1. g \in [flying -> entries]
            BY <2>3
        <3>2. \A q, r \in flying : g[q] = g[r] => q = r
            BY <2>1, <2>3 DEF Covers
        <3> HIDE DEF g
        <3> QED
            BY <3>1, <3>2 DEF Injection, IsInjective
    <2>5. IsFiniteSet(entries)
        <3>1. entries \subseteq Payments
            BY <2>2 DEF entries, Live
        <3> QED
            BY <3>1, PaymentsAssumption, FS_Subset
    <2> HIDE DEF g
    <2>6. Cardinality(flying) <= Cardinality(entries)
        BY <2>4, <2>5, FS_Injection
    <2> QED
        BY <2>6 DEF flying, entries
<1> QED
    BY <1>1, GuardShapeInvariant, LedgerInvariant, PTL

-----------------------------------------------------------------------------
(* The day's ceiling.  What an evaluation read as spent covers what was    *)
(* settled by then and no longer held; the reservations cover the rest.    *)

\* Settled on the day that an evaluation read about, and lapsed by then.
Before(q) == {r \in SettledOn(eval[q].read \div DayLength) : Expiry[r] <= eval[q].read}

SpentNoted ==
    ~late => \A q \in Reading : eval[q].read <= now /\ Sum(Worth, Before(q)) <= eval[q].spent

\* What counts for a day: settled on it, or it may be.
PotOn(day) ==
    {q \in Limited : \/ q \in SettledOn(day)
                     \/ q \in Active /\ Stage(q) \in {"signing", "allow"} /\ Today <= day}

\* Whichever part of it is taken, the one that was decided last was decided
\* with the others in view.
PotHolds ==
    ~late => \A day \in Int : \A S \in SUBSET PotOn(day) :
        S # {} => \E t \in S : Sum(Worth, S) <= CeilingOf(t)

\* What a step does to decided payments, and when it settles one.
LEMMA DecidedKept ==
    ASSUME GuardShape, NEW p \in Payments, Evaluate(p), ~late'
    PROVE  /\ ~late
           /\ \A q \in Payments : Stage(q) \in Decided =>
                  /\ Stage(q)' \in Decided /\ eval'[q].config = eval[q].config
                  /\ Worth'[q] = Worth[q] /\ Expiry'[q] = Expiry[q]
           /\ \A q \in Payments : Stage(q)' \in Decided /\ Stage(q) \notin Decided => q = p /\ Decide(p)
           /\ \A s \in settled : s.of \in Payments /\ Stage(s.of) \in Decided
           /\ \/ settled' = settled
              \/ /\ settled' = settled \cup {[of |-> p, day |-> Today]}
                 /\ Stage(p) = "allow" /\ Expiry[p] > now
           /\ now' = now /\ Today' = Today
<1> USE DEF GuardShape
<1>1. /\ \A q \in Payments : q # p => eval'[q] = eval[q]
      /\ now' = now
      /\ Stage(p) \in {"summed"} \cup Decided =>
             /\ eval'[p].amount = eval[p].amount /\ eval'[p].config = eval[p].config
      /\ Stage(p) \in Decided => Stage(p)' \in Decided /\ eval'[p].until = eval[p].until
      /\ Stage(p)' \in Decided => Stage(p) \in Decided \cup {"summed"}
    BY EvaluationsKept
<1>2. ~late /\ \/ settled' = settled
               \/ settled' = settled \cup {[of |-> p, day |-> Today]} /\ Stage(p) = "allow"
    BY LedgerMoves DEF GuardTypeOK
<1>3. \A q \in Payments : Stage(q) \in Decided =>
          /\ Stage(q)' \in Decided /\ eval'[q].config = eval[q].config
          /\ Worth'[q] = Worth[q] /\ Expiry'[q] = Expiry[q]
    BY <1>1 DEF Worth, Expiry, Stage
<1>4. \A q \in Payments : Stage(q)' \in Decided /\ Stage(q) \notin Decided => q = p /\ Decide(p)
    BY <1>1 DEF Evaluate, ReadPolicy, ReadSpent, ReadPending, EndSign, DoPayment, Stage, Decided, Committed
<1>5. \A s \in settled : s.of \in Payments /\ Stage(s.of) \in Decided
    BY DEF GuardTypeOK, SettledShape, Decided, Committed
<1>6. ASSUME Stage(p) = "allow"
      PROVE  Expiry[p] > now
    <2>1. DoPayment(p)
        BY <1>6 DEF Evaluate, ReadPolicy, ReadSpent, ReadPending, EndSign, Decide
    <2>2. now \in Nat /\ eval[p].until \in Nat
        BY DEF GuardTypeOK, Evaluations
    <2> DEFINE ends == Outlasted(p)
    <2>3. late' = (late \/ ends)
        BY <2>1 DEF DoPayment
    <2> HIDE DEF ends
    <2>4. ~ends
        BY <2>3, Zenon
    <2> QED
        BY <2>2, <2>4 DEF ends, Outlasted, Expiry
<1> QED
    BY <1>1, <1>2, <1>3, <1>4, <1>5, <1>6 DEF Today

\* What was read stays in force through an evaluation's step.
LEMMA EvaluationKeepsNotes ==
    ASSUME GuardShape, GuardShape', SpentNoted, NEW p \in Payments, Evaluate(p)
    PROVE  SpentNoted'
<1> SUFFICES ASSUME ~late', NEW q \in Reading'
             PROVE  (eval[q].read <= now /\ Sum(Worth, Before(q)) <= eval[q].spent)'
    BY DEF SpentNoted
<1> USE DEF GuardShape
<1>1. /\ ~late
      /\ \A r \in Payments : Stage(r) \in Decided =>
             Worth'[r] = Worth[r] /\ Expiry'[r] = Expiry[r]
      /\ \A s \in settled : s.of \in Payments /\ Stage(s.of) \in Decided
      /\ \/ settled' = settled
         \/ settled' = settled \cup {[of |-> p, day |-> Today]} /\ Stage(p) = "allow" /\ Expiry[p] > now
      /\ now' = now
    BY DecidedKept
<1>2. \A r \in Payments : r # p => eval'[r] = eval[r]
    BY EvaluationsKept
<1>3. now \in Nat /\ q \in Payments /\ eval[q] \in Evaluations /\ eval'[q] \in Evaluations
    BY DEF GuardTypeOK, Reading
<1>4. \A d : /\ SettledOn(d)' \subseteq Payments /\ SettledOn(d) \subseteq Payments
             /\ SettledOn(d) \subseteq SettledOn(d)'
             /\ SettledOn(d)' \subseteq SettledOn(d) \cup {r \in {p} : Expiry[p] > now /\ Stage(p) = "allow"}
    BY <1>1 DEF SettledOn
<1>5. \A d : \A r \in SettledOn(d) : Stage(r) \in Decided
    BY <1>1 DEF SettledOn
<1>6. CASE ReadSpent(p) /\ q = p
    <2>0. PICK day : day = Today
        OBVIOUS
    <2> DEFINE S == SettledOn(day)
               B == Before(p)'
    <2>1. eval'[p] = [eval[p] EXCEPT !.stage = "spent", !.spent = SpentOn(Today), !.read = now] /\ settled' = settled
        BY <1>6 DEF ReadSpent, To, GuardTypeOK
    <2>2. eval'[p].spent = SpentOn(Today) /\ eval'[p].read = now
        BY <1>3, <1>6, <2>1 DEF Evaluations
    <2>3. SettledOn(day)' = S /\ \A r \in S : Worth'[r] = Worth[r]
        BY <1>1, <1>4, <1>5, <2>1 DEF SettledOn
    <2>4. B \subseteq S
        BY <2>0, <2>1, <2>2 DEF Before, Today, SettledOn
    <2>5. IsFiniteSet(S) /\ \A r \in S : Worth'[r] \in Nat /\ Worth[r] \in Nat
        <3>1. S \subseteq Payments
            BY <1>4
        <3>2. \A r \in S : Worth[r] \in Nat
            BY <1>5, <3>1 DEF LedgerShape, Worth
        <3> HIDE DEF S
        <3> QED
            BY <2>3, <3>1, <3>2, PaymentsAssumption, FS_Subset
    <2> HIDE DEF B, S
    <2>6. Sum(Worth', S) = Sum(Worth, S)
        BY <2>3, <2>5, SumSame
    <2>7. Sum(Worth', B) <= Sum(Worth', S)
        BY <2>4, <2>5, SumPart
    <2>8. SpentOn(Today) = Sum(Worth, S)
        BY <2>0 DEF SpentOn, Sum, S
    <2>9. eval'[p].read <= now' /\ Sum(Worth', B) <= eval'[p].spent
        BY <1>1, <1>3, <2>2, <2>6, <2>7, <2>8
    <2> QED
        BY <1>6, <2>9 DEF B
<1>7. CASE ~(ReadSpent(p) /\ q = p)
    <2>1. q \in Reading /\ eval'[q].read = eval[q].read /\ eval'[q].spent = eval[q].spent
        <3>1. CASE q # p
            BY <1>2, <3>1 DEF Reading, Stage
        <3>2. CASE q = p
            <4>1. Stage(p)' \in {"spent", "summed"}
                BY <3>2 DEF Reading
            <4>2. ReadPending(p)
                <5>1. Stage(p)' \notin Decided
                    BY <4>1 DEF Decided, Committed
                <5>2. ~EndSign(p) /\ ~DoPayment(p)
                    BY <5>1, EvaluationsKept DEF EndSign, DoPayment, Decided, Committed
                <5>3. ~ReadPolicy(p)
                    <6>1. SUFFICES ASSUME ReadPolicy(p) PROVE FALSE
                        OBVIOUS
                    <6>2. PICK o \in Offers, given \in Policies :
                              eval'[p] = [eval[p] EXCEPT !.stage = IF InScope(given.lists, o) THEN "scoped" ELSE "denied",
                                              !.config = given.config, !.amount = o.amount]
                        BY <6>1 DEF ReadPolicy, To, GuardTypeOK
                    <6>3. eval'[p].stage \in {"scoped", "denied"}
                        BY <1>3, <3>2, <6>2 DEF Evaluations
                    <6> QED
                        BY <4>1, <6>3 DEF Stage
                <5>4. ~Decide(p)
                    <6>1. SUFFICES ASSUME Decide(p) PROVE FALSE
                        OBVIOUS
                    <6>2. eval'[p] \in {[eval[p] EXCEPT !.stage = "signing", !.until = now + Ttl]}
                              \cup {[eval[p] EXCEPT !.stage = s] : s \in {"hold", "approval-required", "denied"}}
                        BY <6>1 DEF Decide, To, Ends, GuardTypeOK
                    <6>3. eval'[p].stage \in {"signing", "hold", "approval-required", "denied"}
                        BY <1>3, <3>2, <6>2 DEF Evaluations
                    <6> QED
                        BY <4>1, <6>3 DEF Stage
                <5> QED
                    BY <1>7, <3>2, <5>2, <5>3, <5>4 DEF Evaluate
            <4>3. eval'[p] = [eval[p] EXCEPT !.stage = "summed", !.pending = TotalOf(Live(held))]
                BY <4>2 DEF ReadPending, To, GuardTypeOK
            <4>4. eval'[p].read = eval[p].read /\ eval'[p].spent = eval[p].spent
                BY <1>3, <3>2, <4>3 DEF Evaluations
            <4> QED
                BY <1>3, <3>2, <4>2, <4>4 DEF ReadPending, Reading
        <3> QED
            BY <3>1, <3>2
    <2>2. eval[q].read <= now /\ Sum(Worth, Before(q)) <= eval[q].spent /\ eval[q].read \in Nat
        BY <1>1, <1>3, <2>1 DEF SpentNoted, Evaluations
    <2>8. PICK d : d = eval[q].read \div DayLength
        OBVIOUS
    <2>3. \A r \in SettledOn(d)' : r \in SettledOn(d) \/ ~(Expiry[r] <= eval[q].read)
        <3>1. eval[p].until \in Nat /\ Expiry[p] = eval[p].until
            BY DEF GuardTypeOK, Evaluations, Expiry
        <3> QED
            BY <1>3, <1>4, <2>2, <3>1
    <2>4. \A r \in SettledOn(d)' : Expiry'[r] = Expiry[r]
        <3>1. Stage(p) = "allow" => Expiry'[p] = Expiry[p]
            BY <1>1 DEF Decided, Committed
        <3> QED
            BY <1>1, <1>4, <1>5, <3>1
    <2>5. Before(q)' = {r \in SettledOn(d)' : Expiry'[r] <= eval[q].read}
        BY <2>1, <2>8 DEF Before, SettledOn
    <2>6. Before(q)' = Before(q)
        <3>1. Before(q) = {r \in SettledOn(d) : Expiry[r] <= eval[q].read}
            BY <2>8 DEF Before
        <3> QED
            BY <1>4, <2>3, <2>4, <2>5, <3>1
    <2>7. Sum(Worth', Before(q)) = Sum(Worth, Before(q))
        <3>1. Before(q) \subseteq Payments /\ \A r \in Before(q) : Worth'[r] = Worth[r]
            BY <1>1, <1>4, <1>5 DEF Before
        <3>2. IsFiniteSet(Before(q))
            BY <3>1, PaymentsAssumption, FS_Subset
        <3> QED
            BY <3>1, <3>2, SumSame
    <2> QED
        BY <1>1, <2>1, <2>2, <2>6, <2>7
<1> QED
    BY <1>6, <1>7

\* What counts for a day is decided, and not negative.
LEMMA PotCounts ==
    ASSUME GuardShape, NEW day
    PROVE  /\ PotOn(day) \subseteq Payments
           /\ \A q \in PotOn(day) : Stage(q) \in Decided /\ Worth[q] \in Nat /\ CeilingOf(q) \in Int
<1> USE DEF GuardShape
<1>1. PotOn(day) \subseteq Payments
    BY DEF PotOn, Limited
<1>2. \A q \in PotOn(day) : Stage(q) \in Decided
    <2>1. \A q \in SettledOn(day) : Stage(q) = "paid"
        BY DEF SettledOn, SettledShape
    <2> QED
        BY <2>1 DEF PotOn, Active, Decided, Committed
<1>3. \A q \in Payments : Stage(q) \in Decided => Worth[q] \in Nat
    BY DEF LedgerShape, Worth
<1>4. \A q \in Payments : CeilingOf(q) \in Int
    BY DEF CeilingOf, GuardTypeOK, Evaluations, SpendConfigs
<1> QED
    BY <1>1, <1>2, <1>3, <1>4

\* As long as nothing is added that counts.
LEMMA PotShrinks ==
    ASSUME GuardShape, PotHolds, ~late, NEW day \in Int, NEW S \in SUBSET PotOn(day), S # {},
           \A q \in S : Worth'[q] = Worth[q] /\ CeilingOf(q)' = CeilingOf(q)
    PROVE  \E t \in S : Sum(Worth', S) <= CeilingOf(t)'
<1>1. PICK t \in S : Sum(Worth, S) <= CeilingOf(t)
    BY DEF PotHolds
<1>2. IsFiniteSet(S)
    <2>1. S \subseteq Payments
        BY PotCounts
    <2> QED
        BY <2>1, PaymentsAssumption, FS_Subset
<1>3. Sum(Worth', S) = Sum(Worth, S)
    BY <1>2, SumSame
<1> QED
    BY <1>1, <1>3

\* Everything that counts beside a payment that is being decided is in what
\* its evaluation read as spent or in the ledger.
LEMMA DecisionInView ==
    ASSUME GuardShape, LedgerCovers, SpentNoted, NEW p \in Payments, Decide(p), Stage(p)' \in Decided,
           ~late, ~LapsedSince(eval[p].read),
           NEW day \in Int, Today <= day, NEW S \in SUBSET PotOn(day)
    PROVE  /\ Sum(Worth, S) \in Nat
           /\ Sum(Worth, S) <= eval[p].spent + TotalOf(Live(held))
<1> USE DEF GuardShape
<1> DEFINE A == S \cap Active
           B == S \ Active
<1>1. now \in Nat /\ held \subseteq Payments /\ \A q \in Payments : eval[q].until \in Nat
    BY DEF GuardTypeOK, Evaluations
<1>2. /\ S \subseteq Payments /\ IsFiniteSet(S)
      /\ \A q \in S : Worth[q] \in Nat
    <2>1. S \subseteq Payments /\ \A q \in S : Worth[q] \in Nat
        BY PotCounts
    <2> QED
        BY <2>1, PaymentsAssumption, FS_Subset
<1>3. p \in Reading /\ eval[p].read \in Nat /\ eval[p].spent \in Int
    BY DEF Decide, Reading, GuardTypeOK, Evaluations
<1>4. eval[p].read \div DayLength = Today
    BY DEF LapsedSince
<1>5. B \subseteq Before(p)
    <2> SUFFICES ASSUME NEW q \in B PROVE q \in Before(p)
        OBVIOUS
    <2>1. q \in Payments /\ q \in SettledOn(day) /\ q \in Limited /\ q \notin Active
        BY <1>2 DEF PotOn
    <2>2. Stage(q) = "paid" /\ day <= Today
        BY <2>1 DEF SettledOn, SettledShape
    <2>3. day = Today
        <3>1. Today \in Int
            BY <1>1, DaysGrow DEF Today
        <3> QED
            BY <2>2, <3>1
    <2>4. eval[q].until <= now
        BY <1>1, <2>1, <2>2 DEF Active, Limited, Committed, Expiry
    <2>5. ~(eval[p].read < eval[q].until)
        BY <2>1, <2>4 DEF LapsedSince
    <2>6. Expiry[q] <= eval[p].read
        BY <1>1, <1>3, <2>1, <2>5 DEF Expiry
    <2> QED
        BY <1>4, <2>1, <2>3, <2>6 DEF Before
<1>6. Sum(Worth, B) <= eval[p].spent
    <2>1. IsFiniteSet(Before(p)) /\ \A q \in Before(p) : Worth[q] \in Nat
        <3>1. Before(p) \subseteq Payments /\ \A q \in Before(p) : Stage(q) \in Decided
            BY DEF Before, SettledOn, SettledShape, Decided, Committed
        <3>2. \A q \in Before(p) : Worth[q] \in Nat
            BY <3>1 DEF LedgerShape, Worth
        <3> QED
            BY <3>1, <3>2, PaymentsAssumption, FS_Subset
    <2> HIDE DEF B
    <2>2. Sum(Worth, B) \in Nat /\ Sum(Worth, B) <= Sum(Worth, Before(p))
        BY <1>5, <2>1, SumPart
    <2>3. Sum(Worth, Before(p)) <= eval[p].spent
        BY <1>3 DEF SpentNoted
    <2>4. Sum(Worth, Before(p)) \in Int
        BY <2>1, SumInt
    <2> QED
        BY <1>3, <2>2, <2>3, <2>4
<1>7. Sum(Worth, A) <= TotalOf(Live(held)) /\ TotalOf(Live(held)) \in Nat
    <2>1. PICK f : Covers(f, Active, held, Worth, Expiry)
        BY DEF LedgerCovers
    <2>2. \A q \in A : q \in Payments /\ f[q] \in Live(held)
        <3> SUFFICES ASSUME NEW q \in A PROVE q \in Payments /\ f[q] \in Live(held)
            OBVIOUS
        <3>1. /\ q \in Payments /\ eval[q].until > now
              /\ f[q] \in held /\ f[q] \in Payments /\ eval[q].until <= eval[f[q]].until
            BY <1>1, <2>1 DEF Covers, Active, Expiry
        <3>2. eval[f[q]].until > now
            BY <1>1, <3>1
        <3> QED
            BY <3>1, <3>2 DEF Live
    <2> DEFINE g == [q \in A |-> f[q]]
               L == Live(held)
    <2>3. IsFiniteSet(L) /\ \A q \in L : Worth[q] \in Nat
        <3>1. L \subseteq held /\ L \subseteq Payments
            BY <1>1 DEF Live
        <3>2. \A q \in L : Worth[q] \in Nat
            BY <3>1 DEF LedgerShape, Worth
        <3> HIDE DEF L
        <3> QED
            BY <3>1, <3>2, PaymentsAssumption, FS_Subset
    <2>4. IsFiniteSet(A)
        BY <1>2, FS_Subset
    <2>5. /\ g \in [A -> L] /\ \A q \in A : Worth[q] = Worth[g[q]]
          /\ \A q, r \in A : g[q] = g[r] => q = r
        BY <2>1, <2>2 DEF Covers
    <2> HIDE DEF g, L, A
    <2>6. Sum(Worth, L) \in Nat /\ Sum(Worth, A) <= Sum(Worth, L)
        BY <2>3, <2>4, <2>5, SumInjected
    <2> QED
        BY <2>6 DEF TotalOf, Sum, L
<1>8. /\ Sum(Worth, A) \in Nat /\ Sum(Worth, B) \in Nat /\ Sum(Worth, S) = Sum(Worth, A) + Sum(Worth, B)
    <2>1. A \in SUBSET S /\ B \in SUBSET S /\ S \ A = B
        OBVIOUS
    <2> HIDE DEF A, B
    <2>2. \A q \in S : Worth[q] \in Int
        BY <1>2
    <2>4. IsFiniteSet(S) /\ A \in SUBSET S
        BY <1>2, <2>1
    <2>5. Sum(Worth, S) = Sum(Worth, A) + Sum(Worth, S \ A)
        <3> HIDE DEF Worth
        <3>1. ASSUME NEW g, NEW T \in SUBSET S, \A x \in S : g[x] \in Int
              PROVE  Sum(g, S) = Sum(g, T) + Sum(g, S \ T)
            BY <2>4, <3>1, SumSplit
        <3> QED
            BY <2>2, <2>4, <3>1
    <2>3. Sum(Worth, S) = Sum(Worth, A) + Sum(Worth, B)
        BY <2>1, <2>5
    <2> QED
        BY <1>2, <2>1, <2>3, SumPart
<1> HIDE DEF A, B
<1> QED
    BY <1>3, <1>6, <1>7, <1>8

\* The pot holds through an evaluation's step.
LEMMA EvaluationKeepsPot ==
    ASSUME GuardShape, GuardShape', LedgerCovers, SpentNoted, PotHolds, NEW p \in Payments, Evaluate(p)
    PROVE  PotHolds'
<1> SUFFICES ASSUME ~late', NEW day \in Int, NEW S \in SUBSET PotOn(day)', S # {}
             PROVE  \E t \in S : Sum(Worth', S) <= CeilingOf(t)'
    BY DEF PotHolds
<1>1. /\ ~late
      /\ \A q \in Payments : Stage(q) \in Decided =>
             /\ Stage(q)' \in Decided /\ eval'[q].config = eval[q].config
             /\ Worth'[q] = Worth[q] /\ Expiry'[q] = Expiry[q]
      /\ \A q \in Payments : Stage(q)' \in Decided /\ Stage(q) \notin Decided => q = p /\ Decide(p)
      /\ \A s \in settled : s.of \in Payments /\ Stage(s.of) \in Decided
      /\ \/ settled' = settled
         \/ /\ settled' = settled \cup {[of |-> p, day |-> Today]}
            /\ Stage(p) = "allow" /\ Expiry[p] > now
      /\ now' = now /\ Today' = Today
    BY DecidedKept
<1>2. Today \in Int /\ now \in Nat
    BY DaysGrow DEF Today, GuardShape, GuardTypeOK
<1>3. /\ \A q \in Payments : q # p => eval'[q] = eval[q]
      /\ Stage(p)' \in Committed => Stage(p) \in Committed \cup {"summed"}
    BY EvaluationsKept DEF GuardShape
<1>4. /\ PotOn(day)' \subseteq Payments
      /\ \A q \in PotOn(day)' : Stage(q)' \in Decided /\ Worth'[q] \in Nat
    <2>1. PotOn(day)' \subseteq Payments
        BY DEF PotOn, Limited
    <2>2. \A q \in SettledOn(day)' : Stage(q)' = "paid"
        BY DEF SettledOn, SettledShape, GuardShape
    <2>3. \A q \in PotOn(day)' : Stage(q)' \in Decided
        BY <2>2 DEF PotOn, Active, Decided, Committed
    <2>4. \A q \in Payments : Stage(q)' \in Decided => Worth'[q] \in Nat
        BY DEF GuardShape, LedgerShape, Worth
    <2> QED
        BY <2>1, <2>3, <2>4
<1>5. ASSUME NEW q \in PotOn(day)', Stage(q) \in Decided
      PROVE  q \in PotOn(day) /\ Worth'[q] = Worth[q] /\ CeilingOf(q)' = CeilingOf(q)
    <2>1. q \in Payments /\ Worth'[q] = Worth[q] /\ eval'[q].config = eval[q].config /\ Expiry'[q] = Expiry[q]
        BY <1>1, <1>4, <1>5
    <2>2. CeilingOf(q)' = CeilingOf(q) /\ q \in Limited
        BY <2>1 DEF CeilingOf, PotOn, Limited
    <2>3. CASE q \in SettledOn(day)'
        <3>1. [of |-> q, day |-> day] \in settled'
            BY <2>3 DEF SettledOn
        <3>2. CASE [of |-> q, day |-> day] \in settled
            BY <2>1, <2>2, <3>2 DEF PotOn, SettledOn
        <3>3. CASE [of |-> q, day |-> day] \notin settled
            <4>1. q = p /\ day = Today /\ Stage(p) = "allow" /\ Expiry[p] > now
                BY <1>1, <3>1, <3>3
            <4>2. q \in Active
                BY <2>2, <4>1 DEF Active, Committed, Limited
            <4> QED
                BY <1>2, <2>1, <2>2, <4>1, <4>2 DEF PotOn
        <3> QED
            BY <2>1, <2>2, <3>2, <3>3
    <2>4. CASE q \in Active' /\ Stage(q)' \in {"signing", "allow"} /\ (Today <= day)'
        <3>1. Stage(q) \in {"signing", "allow"}
            <4>1. CASE q # p
                BY <1>3, <2>1, <2>4, <4>1 DEF Stage
            <4>2. CASE q = p
                <5>1. EndSign(p) \/ DoPayment(p)
                    BY <1>5, <4>2 DEF Evaluate, ReadPolicy, ReadSpent, ReadPending, Decide, Decided, Committed
                <5> QED
                    BY <4>2, <5>1 DEF EndSign, DoPayment
            <4> QED
                BY <4>1, <4>2
        <3>2. q \in Active
            BY <1>1, <2>1, <2>2, <2>4, <3>1 DEF Active, Limited, Committed
        <3> QED
            BY <1>1, <2>1, <2>2, <2>4, <3>1, <3>2 DEF PotOn
    <2> QED
        BY <2>3, <2>4 DEF PotOn
<1>6. CASE \A q \in S : Stage(q) \in Decided
    <2>1. S \in SUBSET PotOn(day) /\ \A q \in S : Worth'[q] = Worth[q] /\ CeilingOf(q)' = CeilingOf(q)
        BY <1>5, <1>6
    <2> QED
        BY <1>1, <2>1, PotShrinks
<1>7. CASE \E q \in S : Stage(q) \notin Decided
    <2>1. p \in S /\ Decide(p) /\ Stage(p)' \in Decided /\ Stage(p) \notin Decided
        BY <1>1, <1>4, <1>7
    <2> DEFINE rest == S \ {p}
    <2>2. /\ eval[p].amount.n \in Nat
          /\ eval[p].config.type = "limit" => MayReserve(eval[p].config, eval[p].spent, eval[p].amount.n)
          /\ eval'[p] = [eval[p] EXCEPT !.stage = "signing", !.until = now + Ttl]
        BY <2>1, DecisionCounts DEF GuardShape
    <2>3. ~LapsedSince(eval[p].read)
        <3> DEFINE lapsed == LapsedSince(eval[p].read)
        <3>1. late' = (late \/ lapsed)
            BY <2>1, DecisionCounts DEF GuardShape
        <3> HIDE DEF lapsed
        <3>2. ~lapsed
            BY <3>1, Zenon
        <3> QED
            BY <3>2 DEF lapsed
    <2>4. /\ eval[p] \in Evaluations /\ eval'[p].config = eval[p].config
          /\ eval'[p].amount = eval[p].amount /\ eval'[p].stage = "signing"
        BY <2>2 DEF GuardShape, GuardTypeOK, Evaluations
    <2>5. eval[p].config.type = "limit" /\ eval[p].config.maxDaily > 0 /\ CeilingOf(p)' = eval[p].config.maxDaily
        BY <2>1, <2>4 DEF PotOn, Limited, CeilingOf
    <2>6. Today <= day
        <3>1. p \notin SettledOn(day)'
            BY <2>4 DEF SettledOn, SettledShape, GuardShape, Stage
        <3> QED
            BY <1>1, <2>1, <3>1 DEF PotOn
    <2>7. rest \in SUBSET PotOn(day) /\ \A q \in rest : Worth'[q] = Worth[q]
        <3>1. \A q \in rest : q \in PotOn(day)' /\ Stage(q) \in Decided
            BY <1>1, <1>4
        <3> QED
            BY <1>5, <3>1
    <2>8. Sum(Worth, rest) \in Nat /\ Sum(Worth, rest) <= eval[p].spent + TotalOf(Live(held))
        BY <1>1, <2>1, <2>3, <2>6, <2>7, DecisionInView
    <2>9. IsFiniteSet(S) /\ IsFiniteSet(rest) /\ \A q \in S : Worth'[q] \in Int
        BY <1>4, PaymentsAssumption, FS_Subset
    <2>10. Sum(Worth', S) = Worth'[p] + Sum(Worth', rest)
        BY <2>1, <2>9, SumTakeOut
    <2>11. Sum(Worth', rest) = Sum(Worth, rest)
        <3> HIDE DEF rest
        <3> QED
            BY <2>7, <2>9, SumSame
    <2>12. Worth'[p] = eval[p].amount.n
        BY <2>4 DEF Worth
    <2>13. eval[p].spent + TotalOf(Live(held)) + eval[p].amount.n <= eval[p].config.maxDaily
        BY <2>2, <2>5 DEF MayReserve
    <2>14. TotalOf(Live(held)) \in Int /\ eval[p].spent \in Int /\ eval[p].config.maxDaily \in Int
        <3>1. Sum(Worth, Live(held)) \in Int
            BY PaymentSums DEF Live, GuardShape, GuardTypeOK
        <3> QED
            BY <2>4, <3>1 DEF TotalOf, Sum, Evaluations, SpendConfigs
    <2>15. Sum(Worth', S) <= CeilingOf(p)'
        <3> HIDE DEF rest
        <3> QED
            BY <2>2, <2>5, <2>8, <2>10, <2>11, <2>12, <2>13, <2>14
    <2> QED
        BY <2>1, <2>15
<1> QED
    BY <1>6, <1>7

\* Nothing else adds to it, and a new day has less to count.
LEMMA OtherStepsKeepPot ==
    ASSUME GuardShape, PotHolds, SpentNoted, [GuardNext]_guardVars, ~ \E p \in Payments : Evaluate(p)
    PROVE  PotHolds' /\ SpentNoted'
<1>1. /\ UNCHANGED <<settled, held, eval>>
      /\ now \in Nat /\ now' \in Nat /\ now <= now' /\ (late => late')
    BY OtherStepsKeepLedger DEF GuardShape, GuardTypeOK
<1>2. Today \in Int /\ Today' \in Int /\ Today <= Today'
    BY <1>1, DaysGrow DEF Today
<1>3. Worth' = Worth /\ Expiry' = Expiry /\ Limited' = Limited
    BY <1>1 DEF Worth, Expiry, Limited, CeilingOf
<1>4. ASSUME NEW day \in Int PROVE PotOn(day)' \subseteq PotOn(day)
    <2>1. Active' \subseteq Active
        <3>1. \A q \in Payments : Expiry[q] \in Nat
            BY DEF Expiry, GuardShape, GuardTypeOK, Evaluations
        <3> QED
            BY <1>1, <1>3, <3>1 DEF Active, Stage
    <2>2. SettledOn(day)' = SettledOn(day)
        BY <1>1 DEF SettledOn
    <2> QED
        BY <1>1, <1>2, <1>3, <2>1, <2>2 DEF PotOn, Stage
<1>5. PotHolds'
    <2> SUFFICES ASSUME ~late', NEW day \in Int, NEW S \in SUBSET PotOn(day)', S # {}
                 PROVE  \E t \in S : Sum(Worth', S) <= CeilingOf(t)'
        BY DEF PotHolds
    <2>1. S \in SUBSET PotOn(day) /\ ~late
        BY <1>1, <1>4
    <2>2. \A q \in S : Worth'[q] = Worth[q] /\ CeilingOf(q)' = CeilingOf(q)
        BY <1>1, <1>3 DEF CeilingOf
    <2> QED
        BY <2>1, <2>2, PotShrinks
<1>6. SpentNoted'
    <2> SUFFICES ASSUME ~late', NEW q \in Reading'
                 PROVE  (eval[q].read <= now /\ Sum(Worth, Before(q)) <= eval[q].spent)'
        BY DEF SpentNoted
    <2>1. q \in Reading /\ ~late /\ eval' = eval
        BY <1>1 DEF Reading, Stage
    <2>2. Before(q)' = Before(q)
        BY <1>1, <1>3 DEF Before, SettledOn
    <2>3. eval[q].read <= now /\ Sum(Worth, Before(q)) <= eval[q].spent /\ eval[q].read \in Nat
        BY <2>1 DEF SpentNoted, Reading, GuardShape, GuardTypeOK, Evaluations
    <2> QED
        BY <1>1, <1>3, <2>1, <2>2, <2>3
<1> QED
    BY <1>5, <1>6

\* The inductive invariant of the day's ceiling.
THEOREM CeilingInvariant == GuardSpec => [](SpentNoted /\ PotHolds)
<1>1. GuardInit => SpentNoted /\ PotHolds
    <2> SUFFICES ASSUME GuardInit PROVE SpentNoted /\ PotHolds
        OBVIOUS
    <2>1. Reading = {} /\ Active = {} /\ \A day : SettledOn(day) = {}
        BY DEF GuardInit, NoEval, Reading, Active, Stage, Committed, SettledOn
    <2>2. \A day : PotOn(day) = {}
        BY <2>1 DEF PotOn
    <2> QED
        BY <2>1, <2>2 DEF SpentNoted, PotHolds
<1>2. /\ GuardShape /\ GuardShape' /\ LedgerCovers /\ SpentNoted /\ PotHolds
      /\ [GuardNext]_guardVars
      => SpentNoted' /\ PotHolds'
    BY EvaluationKeepsNotes, EvaluationKeepsPot, OtherStepsKeepPot
<1> QED
    BY <1>1, <1>2, GuardShapeInvariant, LedgerInvariant, PTL DEF GuardSpec

\* P0-4: what evaluations that overlap pay in a day stays within a ceiling
\* that one of them was judged by, for any number of payments, any policies
\* and any lifetime of the reservations.
THEOREM CeilingHolds == GuardSpec => []DayWithinCeiling
<1>1. GuardShape /\ PotHolds => DayWithinCeiling
    <2> SUFFICES ASSUME GuardShape, PotHolds, ~late, NEW s \in settled,
                        SettledOn(s.day) \cap Limited # {}
                 PROVE  \E t \in SettledOn(s.day) \cap Limited :
                            Sum(Worth, SettledOn(s.day) \cap Limited) <= CeilingOf(t)
        BY DEF DayWithinCeiling, Sum
    <2>1. s.day \in Int
        BY DEF GuardShape, GuardTypeOK
    <2>2. SettledOn(s.day) \cap Limited \in SUBSET PotOn(s.day)
        BY DEF PotOn
    <2> QED
        BY <2>1, <2>2 DEF PotHolds
<1> QED
    BY <1>1, GuardShapeInvariant, CeilingInvariant, PTL
=============================================================================
