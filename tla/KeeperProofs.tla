----------------------------- MODULE KeeperProofs ------------------------------
(***************************************************************************)
(* Proofs about Keeper, for any number of calls, arrivals and agents, any  *)
(* sessions and any retention of nonces.  Two requests with one nonce that *)
(* are past the replay test claimed it ReplayTtl apart, because a claim is *)
(* held, that is still in the keeper's memory or already run out.  And     *)
(* what one life signs on a day is within the session's ceiling, because   *)
(* the ledger covers what is signed together with what may yet be.         *)
(***************************************************************************)
EXTENDS Keeper, SumTheorems, TLAPS

-----------------------------------------------------------------------------
(* What narrowing a session promises.                                      *)

\* What narrowSession keeps of a limit of the first session, through every
\* narrowing: that it is at least as tight, or below 0, where it is read as
\* none (checkSessionAccess).
LimitKept(child, first) == child < 0 \/ first <= 0 \/ (0 < child /\ child <= first)

\* A session that descends from the first one by any number of narrowings.
NoWider(session, first) ==
    /\ session.expiresAt <= first.expiresAt
    /\ \A d \in Dimensions : IsSubsetOrUnrestricted(session.allowed[d], first.allowed[d])
    /\ LimitKept(session.maxPerTx, first.maxPerTx)
    /\ LimitKept(session.maxDaily, first.maxDaily)

\* A narrower limit of a kept one is kept: below 0 it stays below 0.
LEMMA LimitStaysKept ==
    ASSUME NEW child \in Int, NEW parent \in Int, NEW first \in Int,
           IsNarrowerOrEqual(child, parent), LimitKept(parent, first)
    PROVE  LimitKept(child, first)
BY SMT DEF IsNarrowerOrEqual, LimitKept

\* No whitelist is read as every asset, so that narrowing one must not drop it.
LEMMA WhitelistNeverWidens ==
    ASSUME NEW child, NEW parent, NEW name,
           IsSubsetOrUnrestricted(child, parent),
           Named(child, name)
    PROVE  Named(parent, name)
BY Zenon DEF IsSubsetOrUnrestricted, Named

\* A list drawn from one that was drawn from the first is drawn from the first.
LEMMA WhitelistStaysKept ==
    ASSUME NEW child, NEW parent, NEW first,
           IsSubsetOrUnrestricted(child, parent), IsSubsetOrUnrestricted(parent, first)
    PROVE  IsSubsetOrUnrestricted(child, first)
BY SMT DEF IsSubsetOrUnrestricted

\* A session descends from itself.
LEMMA NoWiderThanItself ==
    ASSUME NEW scope, HasLimits(scope)
    PROVE  NoWider(scope, scope)
<1>1. \A d \in Dimensions : IsSubsetOrUnrestricted(scope.allowed[d], scope.allowed[d])
    BY DEF IsSubsetOrUnrestricted
<1> QED
    BY <1>1, SMT DEF NoWider, LimitKept, HasLimits

\* One more narrowing is still a narrowing of the first session.
LEMMA NarrowedNoWider ==
    ASSUME NEW first, HasLimits(first), NEW parent, HasLimits(parent), NoWider(parent, first),
           NEW narrower, LimitsGiven(narrower),
           NEW issuer, NEW moment \in Int,
           NarrowSession(parent, narrower, issuer, moment) # Refused
    PROVE  NoWider(NarrowSession(parent, narrower, issuer, moment).scope, first)
<1> DEFINE child == Resolve(narrower, parent)
           ttl == ClampedTtl(narrower, parent, moment)
           scope == Scope(parent.agent, moment, moment + ttl, child.allowed, child.maxPerTx, child.maxDaily)
<1>1. Narrows(child, parent) /\ NarrowSession(parent, narrower, issuer, moment).scope = scope
    BY DEF NarrowSession, CreateSessionKey
<1>2. /\ parent.maxPerTx \in Int /\ parent.maxDaily \in Int /\ parent.expiresAt \in Int
      /\ first.maxPerTx \in Int /\ first.maxDaily \in Int /\ first.expiresAt \in Int
    BY DEF HasLimits
<1>3. ttl \in Int /\ moment + ttl <= parent.expiresAt
    BY <1>2, SMT DEF ClampedTtl, LimitsGiven
<1>4. child.maxPerTx \in Int /\ child.maxDaily \in Int
    BY <1>2, SMT DEF Resolve, LimitsGiven
<1> HIDE DEF child, ttl
<1>5. /\ scope.expiresAt = moment + ttl /\ scope.allowed = child.allowed
      /\ scope.maxPerTx = child.maxPerTx /\ scope.maxDaily = child.maxDaily
    BY DEF Scope
<1>6. moment + ttl <= first.expiresAt
    BY <1>2, <1>3, SMT DEF NoWider
<1>7. \A d \in Dimensions : IsSubsetOrUnrestricted(child.allowed[d], first.allowed[d])
    BY <1>1, WhitelistStaysKept DEF Narrows, NoWider
<1>8. LimitKept(child.maxPerTx, first.maxPerTx)
    BY <1>1, <1>2, <1>4, LimitStaysKept DEF Narrows, NoWider
<1>9. LimitKept(child.maxDaily, first.maxDaily)
    BY <1>1, <1>2, <1>4, LimitStaysKept DEF Narrows, NoWider
<1> HIDE DEF scope
<1> QED
    BY <1>1, <1>5, <1>6, <1>7, <1>8, <1>9 DEF NoWider

\* A limit that is kept lets nothing through that the first one, unless it
\* was lifted, does not.
LEMMA KeptLimitHolds ==
    ASSUME NEW child \in Int, NEW first \in Int, NEW x \in Int,
           LimitKept(child, first), child > 0 => x <= child,
           NEW lifted, lifted = IF child < 0 THEN 0 ELSE first
    PROVE  lifted > 0 => x <= lifted
BY SMT DEF LimitKept

\* What a session admits, the first one admits once the limits that the
\* narrowings set below 0 are lifted from it.
LEMMA NoWiderAdmits ==
    ASSUME NEW session, HasLimits(session), NEW first, HasLimits(first), NoWider(session, first),
           NEW use, use.amount # Absent /\ use.amount.tag = "number" => use.amount.n \in Int,
           NEW spent \in Int, NEW t \in Int,
           CheckSessionAccess(session, use, spent, t)
    PROVE  CheckSessionAccess(Lifted(first, session), use, spent, t)
<1> DEFINE lifted == Lifted(first, session)
<1>1. lifted.expiresAt = first.expiresAt /\ lifted.allowed = first.allowed
    BY DEF Lifted
<1>2. /\ session.maxPerTx \in Int /\ session.maxDaily \in Int /\ session.expiresAt \in Int
      /\ first.maxPerTx \in Int /\ first.maxDaily \in Int /\ first.expiresAt \in Int
    BY DEF HasLimits
<1>3. t <= first.expiresAt
    BY <1>2, SMT DEF CheckSessionAccess, NoWider
<1>4. \A d \in Dimensions : Named(first.allowed[d], use.names[d])
    BY WhitelistNeverWidens DEF CheckSessionAccess, NoWider
<1>5. ASSUME use.amount # Absent
      PROVE  /\ use.amount.tag = "number" /\ use.amount.n >= 0 /\ spent >= 0
             /\ WithinSessionLimits(lifted, use.amount.n, spent)
    <2>1. /\ use.amount.tag = "number" /\ use.amount.n >= 0 /\ spent >= 0 /\ use.amount.n \in Int
          /\ session.maxPerTx > 0 => use.amount.n <= session.maxPerTx
          /\ session.maxDaily > 0 => spent + use.amount.n <= session.maxDaily
        BY <1>5 DEF CheckSessionAccess, WithinSessionLimits
    <2>2. spent + use.amount.n \in Int
        BY <2>1, SMT
    <2>3. lifted.maxPerTx > 0 => use.amount.n <= lifted.maxPerTx
        <3>1. LimitKept(session.maxPerTx, first.maxPerTx)
            BY DEF NoWider
        <3>2. lifted.maxPerTx = IF session.maxPerTx < 0 THEN 0 ELSE first.maxPerTx
            BY DEF Lifted
        <3> HIDE DEF lifted
        <3> QED
            BY <1>2, <2>1, <3>1, <3>2, KeptLimitHolds
    <2>4. lifted.maxDaily > 0 => spent + use.amount.n <= lifted.maxDaily
        <3>1. LimitKept(session.maxDaily, first.maxDaily)
            BY DEF NoWider
        <3>2. lifted.maxDaily = IF session.maxDaily < 0 THEN 0 ELSE first.maxDaily
            BY DEF Lifted
        <3> HIDE DEF lifted
        <3> QED
            BY <1>2, <2>1, <2>2, <3>1, <3>2, KeptLimitHolds
    <2> QED
        BY <2>1, <2>3, <2>4 DEF WithinSessionLimits
<1> HIDE DEF lifted
<1>6. CheckSessionAccess(lifted, use, spent, t)
    BY <1>1, <1>3, <1>4, <1>5 DEF CheckSessionAccess
<1> QED
    BY <1>6 DEF lifted

\* A session that was narrowed has limits of its own.
LEMMA NarrowedHasLimits ==
    ASSUME NEW parent, HasLimits(parent), NEW narrower, LimitsGiven(narrower),
           NEW issuer, NEW moment \in Int,
           NarrowSession(parent, narrower, issuer, moment) # Refused
    PROVE  HasLimits(NarrowSession(parent, narrower, issuer, moment).scope)
<1> DEFINE child == Resolve(narrower, parent)
           ttl == ClampedTtl(narrower, parent, moment)
           scope == Scope(parent.agent, moment, moment + ttl, child.allowed, child.maxPerTx, child.maxDaily)
<1>1. NarrowSession(parent, narrower, issuer, moment).scope = scope
  BY DEF NarrowSession, CreateSessionKey
<1>2. ttl \in Int
  BY SMT DEF ClampedTtl, LimitsGiven, HasLimits
<1>3. child.maxPerTx \in Int /\ child.maxDaily \in Int
  BY SMT DEF Resolve, LimitsGiven, HasLimits
<1> HIDE DEF child, ttl
<1>4. HasLimits(scope)
  BY <1>2, <1>3, SMT DEF HasLimits, Scope
<1> QED BY <1>1, <1>4

\* narrowSession: whatever a narrowed session admits, its parent admits, at
\* the same time and after the same spending, but for the limits that the
\* narrowing set below 0, which are taken off the parent's here: narrowSession
\* accepts them and checkSessionAccess reads them as none.
THEOREM NarrowingNeverWidens ==
    ASSUME NEW parent, HasLimits(parent),
           NEW narrower, LimitsGiven(narrower),
           NEW issuer, NEW moment \in Int, NEW t \in Int, NEW spent \in Int,
           NEW use, use.amount # Absent /\ use.amount.tag = "number" => use.amount.n \in Int,
           NarrowSession(parent, narrower, issuer, moment) # Refused,
           CheckSessionAccess(NarrowSession(parent, narrower, issuer, moment).scope, use, spent, t)
    PROVE  CheckSessionAccess(Lifted(parent, NarrowSession(parent, narrower, issuer, moment).scope),
                              use, spent, t)
BY NoWiderThanItself, NarrowedNoWider, NarrowedHasLimits, NoWiderAdmits

-----------------------------------------------------------------------------
Stages == {"none", "known", "fresh", "allowed", "approved", "ended"}
Claimed == {"fresh", "allowed", "approved"}
Sent(c) == outcome[c] # "idle"

\* A job has a stage and a claim; its other fields do not matter here.
Jobs == [call : Calls \cup {0}, stage : Stages, claimed : Nat, checked : Nat, before : Int]

TypeOK ==
    /\ now \in Nat /\ boot \in Nat
    /\ \A n \in DOMAIN seen : seen[n] \in Nat
    /\ ledger \in [Agents -> [day : Int, total : Int]]
    /\ job \in [Arrivals -> Jobs]
    /\ outcome \in [Calls -> {"idle", "waiting", "signed", "refused", "timed out"}]
    /\ request = [c \in Calls |-> request[c]]
    /\ result = [c \in Calls |-> result[c]]
    /\ \A c \in Calls : Sent(c) => request[c].agent \in Agents /\ request[c].use \in Uses

\* A request in service was sent.
ServedWasSent ==
    \A i \in Arrivals : job[i].stage \in Claimed \cup {"known"} =>
        job[i].call \in Calls /\ Sent(job[i].call)

FarApart(t, u) == t - u >= ReplayTtl \/ u - t >= ReplayTtl

\* A claim of nonce made at t is remembered long enough, or has run out.
Held(memory, clock, nonce, t) ==
    \/ nonce \in DOMAIN memory /\ memory[nonce] >= t + ReplayTtl
    \/ t + ReplayTtl <= clock

JobsHold ==
    \A i \in Arrivals : job[i].stage \in Claimed =>
        job[i].claimed <= now /\ Held(seen, now, Of(i).nonce, job[i].claimed)

SignaturesHold ==
    \A s \in signatures :
        /\ s.boot \in Nat /\ s.boot <= boot /\ s.claimed \in Nat /\ s.claimed <= now
        /\ s.boot = boot => Held(seen, now, s.request.nonce, s.claimed)

JobsApart ==
    \A i, j \in Arrivals :
        i # j /\ job[i].stage \in Claimed /\ job[j].stage \in Claimed /\ Of(i).nonce = Of(j).nonce =>
            FarApart(job[i].claimed, job[j].claimed)

\* A request in service and a signature already made in this life.
ServedApart ==
    \A i \in Arrivals, s \in signatures :
        /\ s.boot = boot /\ s.arrival # i
        /\ job[i].stage \in Claimed /\ Of(i).nonce = s.request.nonce
        => FarApart(job[i].claimed, s.claimed)

ReplayInv == JobsHold /\ SignaturesHold /\ JobsApart /\ ServedApart /\ NonceSignsOnce

\* A nonce names one request: the call of that number made it, and a retry
\* of that call repeats its content.
NonceNamesRequest ==
    \A c \in Calls : Sent(c) =>
        /\ request[c].nonce \in Calls /\ Sent(request[c].nonce)
        /\ request[c] = request[request[c].nonce]

\* The keeper answers with what it signed, and signs what was sent.
AnswersAreSigned ==
    \A r \in responses :
        /\ \E c \in Calls : Sent(c) /\ r = request[c]
        /\ \E s \in signatures : s.request = r

AnswerInv == NonceNamesRequest /\ AnswersAreSigned /\ AcceptedIsOwn

IInv == TypeOK /\ ServedWasSent /\ ReplayInv /\ AnswerInv

-----------------------------------------------------------------------------
(* What a day and an authority have left, on top of IInv. *)

Admitted == {"allowed", "approved"}
Day(t) == t \div DayLength
Served == {i \in Arrivals : job[i].stage # "none"}

\* What one day's signatures of this life, and the requests admitted on it
\* that are still in service, come to.
SignedAmount == [s \in signatures |-> s.request.use.amount.n]
ServedAmount == [i \in Arrivals |-> Of(i).use.amount.n]
Pending(agent, day) ==
    {i \in Arrivals : job[i].stage \in Admitted /\ Of(i).agent = agent /\ Day(job[i].checked) = day}
Signed(agent, day) == Sum(SignedAmount, SpentOn(agent, boot, day))
Due(agent, day) == Sum(ServedAmount, Pending(agent, day))

\* The ledger's day is the last one that was charged, and its total covers
\* what is signed or may yet be signed on it.
Covered ==
    \A a \in Agents, d \in Int : keyring[a].maxDaily > 0 =>
        /\ Signed(a, d) + Due(a, d) <= keyring[a].maxDaily
        /\ d = ledger[a].day => Signed(a, d) + Due(a, d) <= ledger[a].total

LedgerOK ==
    \A a \in Agents : ledger[a].total \in Nat /\ ledger[a].day \in Nat /\ ledger[a].day <= Today

Countable(use) == use \in Uses /\ use.amount.n \in Nat

\* A request past the policy test was admitted by the session the keeper
\* holds, and counted.
ServedAdmitted ==
    \A i \in Arrivals : job[i].stage \in Admitted =>
        /\ Of(i).agent \in Agents /\ Countable(Of(i).use)
        /\ CheckSessionAccess(keyring[Of(i).agent], Of(i).use, job[i].before, job[i].checked)
        /\ Day(job[i].checked) <= ledger[Of(i).agent].day

SignaturesTimed == \A s \in signatures : s.checked \in Nat

SignaturesAdmitted ==
    \A s \in signatures :
        /\ s.request.agent \in Agents /\ Countable(s.request.use)
        /\ s.boot = boot =>
               /\ s.session = keyring[s.request.agent]
               /\ Day(s.checked) <= ledger[s.request.agent].day

\* The sessions in the file and in the keeper descend from the first ones.
SessionsNarrow ==
    /\ file = [a \in Agents |-> file[a]] /\ keyring = [a \in Agents |-> keyring[a]]
    /\ \A a \in Agents :
           /\ HasLimits(file[a]) /\ NoWider(file[a], FirstSession[a])
           /\ HasLimits(keyring[a]) /\ NoWider(keyring[a], FirstSession[a])

BudgetInv ==
    /\ IsFiniteSet(signatures) /\ IsFiniteSet(Served)
    /\ LedgerOK /\ ServedAdmitted /\ SignaturesTimed /\ SignaturesAdmitted /\ SessionsNarrow
    /\ Covered /\ DayWithinCeiling /\ SignedUnderAuthority

USE DEF keeper, client, vars

-----------------------------------------------------------------------------
\* Nothing is served, remembered or signed at first.
LEMMA InitIInv == Init => IInv
<1> SUFFICES ASSUME Init PROVE IInv
    OBVIOUS
<1>1. TypeOK
    BY KeeperAssumption DEF Init, TypeOK, Jobs, Stages, NoJob, NothingCharged, Sent
<1>2. ServedWasSent
    BY DEF Init, ServedWasSent, NoJob, Claimed
<1>3. ReplayInv
    BY DEF Init, ReplayInv, JobsHold, SignaturesHold, JobsApart, ServedApart, NonceSignsOnce, NoJob, Claimed
<1>4. AnswerInv
    BY DEF Init, AnswerInv, NonceNamesRequest, AnswersAreSigned, AcceptedIsOwn, Sent
<1> QED
    BY <1>1, <1>2, <1>3, <1>4 DEF IInv

-----------------------------------------------------------------------------
\* What is forgotten had run out.
MemoryKept ==
    \A n \in DOMAIN seen : seen[n] > now =>
        n \in DOMAIN seen' /\ seen'[n] \in Nat /\ seen'[n] >= seen[n]

LEMMA SeenStays ==
    ASSUME TypeOK, seen' = seen
    PROVE  MemoryKept /\ \A n \in DOMAIN seen' : seen'[n] \in Nat
<1>1. \A n \in DOMAIN seen : seen[n] \in Nat
    BY DEF TypeOK
<1> QED
    BY <1>1 DEF MemoryKept

\* Time does not undo a claim.
LEMMA HeldKept ==
    ASSUME TypeOK, NEW nonce, NEW t \in Nat, Held(seen, now, nonce, t), now' \in Nat, now' >= now,
           MemoryKept
    PROVE  Held(seen', now', nonce, t)
<1> USE KeeperAssumption
<1> now \in Nat /\ ReplayTtl \in Nat
    BY DEF TypeOK
<1>1. CASE t + ReplayTtl <= now
    BY <1>1 DEF Held
<1>2. CASE nonce \in DOMAIN seen /\ seen[nonce] >= t + ReplayTtl
    <2>1. /\ seen[nonce] \in Nat
          /\ seen[nonce] > now => nonce \in DOMAIN seen' /\ seen'[nonce] \in Nat /\ seen'[nonce] >= seen[nonce]
        BY <1>2 DEF TypeOK, MemoryKept
    <2> QED
        BY <1>2, <2>1 DEF Held
<1> QED
    BY <1>1, <1>2 DEF Held

\* Claims stay apart and held when no claim is made and no memory lost.
LEMMA ReplayKept ==
    ASSUME TypeOK, ReplayInv, now' \in Nat, now' >= now, boot' = boot, MemoryKept, signatures' = signatures,
           \A i \in Arrivals : job'[i].stage \in Claimed =>
               /\ job[i].stage \in Claimed /\ job'[i].claimed = job[i].claimed
               /\ Of(i)'.nonce = Of(i).nonce
    PROVE  ReplayInv'
<1> USE DEF ReplayInv
<1>0. now \in Nat
    BY DEF TypeOK
<1>1. ASSUME NEW nonce, NEW t \in Nat, Held(seen, now, nonce, t) PROVE Held(seen', now', nonce, t)
    BY <1>1, HeldKept
<1>2. \A i \in Arrivals : job[i].claimed \in Nat
    BY DEF TypeOK, Jobs
<1>3. JobsHold'
    <2> SUFFICES ASSUME NEW i \in Arrivals, job'[i].stage \in Claimed
                 PROVE  job'[i].claimed <= now' /\ Held(seen', now', Of(i)'.nonce, job'[i].claimed)
        BY DEF JobsHold, Held
    <2>1. job[i].claimed \in Nat /\ job[i].claimed <= now /\ Held(seen, now, Of(i).nonce, job[i].claimed)
        BY <1>2 DEF JobsHold
    <2>2. Held(seen', now', Of(i).nonce, job[i].claimed)
        BY <1>1, <2>1
    <2>3. job[i].claimed <= now'
        BY <1>0, <2>1
    <2> QED
        BY <2>2, <2>3
<1>4. SignaturesHold'
    <2> SUFFICES ASSUME NEW s \in signatures
                 PROVE  /\ s.boot \in Nat /\ s.boot <= boot /\ s.claimed \in Nat /\ s.claimed <= now'
                        /\ s.boot = boot => Held(seen', now', s.request.nonce, s.claimed)
        BY DEF SignaturesHold, Held
    <2>1. /\ s.boot \in Nat /\ s.boot <= boot /\ s.claimed \in Nat /\ s.claimed <= now
          /\ s.boot = boot => Held(seen, now, s.request.nonce, s.claimed)
        BY DEF SignaturesHold
    <2>2. s.boot = boot => Held(seen', now', s.request.nonce, s.claimed)
        BY <1>1, <2>1
    <2>3. s.claimed <= now'
        BY <1>0, <2>1
    <2> QED
        BY <2>1, <2>2, <2>3
<1>5. JobsApart'
    BY DEF JobsApart, FarApart
<1>6. ServedApart'
    BY DEF ServedApart, FarApart
<1>7. NonceSignsOnce'
    BY DEF NonceSignsOnce
<1> QED
    BY <1>3, <1>4, <1>5, <1>6, <1>7

\* What was accepted stays answered while only signatures are added.
LEMMA AnswersKept ==
    ASSUME AnswerInv, UNCHANGED <<client, responses>>, signatures \subseteq signatures'
    PROVE  AnswerInv'
    BY DEF AnswerInv, NonceNamesRequest, AnswersAreSigned, AcceptedIsOwn, Sent

\* Calls that go out join the ones sent, with a nonce that names their request.
LEMMA SendingKeeps ==
    ASSUME IInv, NEW c \in Calls, ~Sent(c), NEW r, r.agent \in Agents, r.use \in Uses,
           r.nonce = c \/ \E d \in Calls : Sent(d) /\ r = request[d],
           request' = [request EXCEPT ![c] = r],
           outcome' = [outcome EXCEPT ![c] = "waiting"],
           UNCHANGED <<now, keeper, job, responses, result, signatures>>
    PROVE  IInv'
<1> USE DEF IInv
<1>1. /\ request'[c] = r /\ outcome'[c] = "waiting"
      /\ \A d \in Calls \ {c} : request'[d] = request[d] /\ outcome'[d] = outcome[d]
    BY DEF TypeOK
<1>2. TypeOK'
    BY <1>1 DEF TypeOK, Sent
<1>3. ServedWasSent'
    BY <1>1 DEF ServedWasSent, Sent
<1>4. ReplayInv'
    <2>1. \A i \in Arrivals : job[i].stage \in Claimed => Of(i)' = Of(i)
        BY <1>1 DEF ServedWasSent, Of, Sent
    <2>2. now \in Nat
        BY DEF TypeOK
    <2> QED
        BY <2>1, <2>2, SeenStays, ReplayKept
<1>5. NonceNamesRequest'
    <2> SUFFICES ASSUME NEW d \in Calls, outcome'[d] # "idle"
                 PROVE  /\ request'[d].nonce \in Calls /\ outcome'[request'[d].nonce] # "idle"
                        /\ request'[d] = request'[request'[d].nonce]
        BY DEF NonceNamesRequest, Sent
    <2>1. CASE d # c
        BY <1>1, <2>1 DEF AnswerInv, NonceNamesRequest, Sent
    <2>2. CASE d = c /\ r.nonce = c
        BY <1>1, <2>2
    <2>3. CASE d = c /\ \E e \in Calls : Sent(e) /\ r = request[e]
        BY <1>1, <2>3 DEF AnswerInv, NonceNamesRequest, Sent
    <2> QED
        BY <2>1, <2>2, <2>3
<1>6. AnswersAreSigned' /\ AcceptedIsOwn'
    BY <1>1 DEF AnswerInv, AnswersAreSigned, AcceptedIsOwn, Sent
<1> QED
    BY <1>2, <1>3, <1>4, <1>5, <1>6 DEF AnswerInv

LEMMA SignIntentKeeps == ASSUME IInv, NEW c \in Calls, SignIntent(c) PROVE IInv'
<1> PICK a \in Agents, s \in issued \cup SelfMade, u \in Uses :
        request' = [request EXCEPT ![c] = [agent |-> a, session |-> s, use |-> u, nonce |-> c]]
    BY DEF SignIntent
<1> DEFINE r == [agent |-> a, session |-> s, use |-> u, nonce |-> c]
<1>1. r.agent \in Agents /\ r.use \in Uses /\ r.nonce = c
    OBVIOUS
<1> HIDE DEF r
<1> QED
    BY <1>1, SendingKeeps DEF SignIntent, Sent, r

LEMMA RetryKeeps == ASSUME IInv, NEW c \in Calls, NEW old \in Calls, Retry(c, old) PROVE IInv'
<1>1. Sent(old) /\ ~Sent(c)
    BY DEF Retry, Sent
<1>2. request[old].agent \in Agents /\ request[old].use \in Uses
    BY <1>1 DEF IInv, TypeOK
<1> QED
    BY <1>1, <1>2, SendingKeeps DEF Retry

\* An answer with the nonce of a call is an answer to what the call asked.
LEMMA ReceiveKeeps == ASSUME IInv, NEW c \in Calls, Receive(c) \/ Fail(c) PROVE IInv'
<1> USE DEF IInv
<1>1. /\ outcome[c] = "waiting" /\ outcome'[c] # "idle" /\ request' = request
      /\ \A d \in Calls \ {c} : result'[d] = result[d] /\ outcome'[d] = outcome[d]
      /\ outcome'[c] = "signed" => \E answer \in responses :
             answer.nonce = request[c].nonce /\ result'[c] = answer
      /\ UNCHANGED <<now, keeper, job, responses, signatures>>
    BY DEF Receive, Fail, VerifyCustodySignResponse, TypeOK
<1>2. TypeOK'
    BY <1>1 DEF Receive, Fail, TypeOK, Sent
<1>3. ServedWasSent'
    BY <1>1 DEF ServedWasSent, Sent
<1>4. ReplayInv'
    <2>1. \A i \in Arrivals : Of(i)' = Of(i)
        BY <1>1 DEF Of
    <2>2. now \in Nat
        BY DEF TypeOK
    <2> QED
        BY <1>1, <2>1, <2>2, SeenStays, ReplayKept
<1>5. NonceNamesRequest' /\ AnswersAreSigned'
    BY <1>1 DEF AnswerInv, NonceNamesRequest, AnswersAreSigned, Sent
<1>6. AcceptedIsOwn'
    <2> SUFFICES ASSUME NEW d \in Calls, outcome'[d] = "signed"
                 PROVE  /\ result'[d] = request[d]
                        /\ \E s \in signatures : s.request = request[d]
        BY <1>1 DEF AcceptedIsOwn
    <2>1. CASE d # c
        BY <1>1, <2>1 DEF AnswerInv, AcceptedIsOwn
    <2>2. CASE d = c
        <3>1. PICK answer \in responses : answer.nonce = request[c].nonce /\ result'[c] = answer
            BY <1>1, <2>2
        <3>2. PICK e \in Calls : Sent(e) /\ answer = request[e]
            BY DEF AnswerInv, AnswersAreSigned
        <3>3. request[c] = request[e]
            BY <1>1, <3>1, <3>2 DEF AnswerInv, NonceNamesRequest, Sent
        <3> QED
            BY <2>2, <3>1, <3>2, <3>3 DEF AnswerInv, AnswersAreSigned
    <2> QED
        BY <2>1, <2>2
<1> QED
    BY <1>2, <1>3, <1>4, <1>5, <1>6 DEF AnswerInv

-----------------------------------------------------------------------------
\* One job moves; a job that left the pipeline is of the type of the others.
LEMMA OneJobMoves ==
    ASSUME TypeOK, NEW i \in Arrivals, NEW notes \in Jobs, Moves(i, notes)
    PROVE  /\ job' \in [Arrivals -> Jobs]
           /\ job'[i] = notes
           /\ \A j \in Arrivals \ {i} : job'[j] = job[j]
    BY DEF TypeOK, Moves

LEMMA EndedIsJob == NoJob \in Jobs /\ Ended \in Jobs /\ Ended.stage = "ended"
    BY DEF NoJob, Ended, Jobs, Stages

\* A step that moves one job and makes no claim: the job was past the replay
\* test before if it is past it now, with the same call and claim.
LEMMA JobStepKeeps ==
    ASSUME IInv, NEW i \in Arrivals, NEW notes \in Jobs, Moves(i, notes),
           notes.stage \in Claimed =>
               /\ job[i].stage \in Claimed
               /\ notes.claimed = job[i].claimed /\ notes.call = job[i].call,
           notes.stage = "known" => notes.call \in Calls /\ Sent(notes.call),
           ledger' \in [Agents -> [day : Int, total : Int]],
           MemoryKept, \A n \in DOMAIN seen' : seen'[n] \in Nat,
           UNCHANGED <<now, boot, client, responses, signatures>>
    PROVE  IInv'
<1> USE DEF IInv
<1>1. /\ job' \in [Arrivals -> Jobs] /\ job'[i] = notes
      /\ \A j \in Arrivals \ {i} : job'[j] = job[j]
    BY OneJobMoves
<1>2. TypeOK'
    BY <1>1 DEF TypeOK, Sent
<1>3. ServedWasSent'
    BY <1>1 DEF ServedWasSent, Sent, Claimed
<1>4. ReplayInv'
    <2>1. \A j \in Arrivals : job'[j].stage \in Claimed =>
              /\ job[j].stage \in Claimed /\ job'[j].claimed = job[j].claimed
              /\ Of(j)' = Of(j)
        BY <1>1 DEF Of
    <2>2. now \in Nat
        BY DEF TypeOK
    <2> QED
        BY <2>1, <2>2, ReplayKept
<1>5. AnswerInv'
    BY AnswersKept
<1> QED
    BY <1>2, <1>3, <1>4, <1>5

LEMMA ArriveKeeps == ASSUME IInv, NEW i \in Arrivals, NEW c \in Calls, Arrive(i, c) PROVE IInv'
<1>1. PICK notes : /\ Moves(i, notes)
                   /\ notes \in {[NoJob EXCEPT !.call = c, !.stage = "known"], Ended}
    BY DEF Arrive
<1>2. notes \in Jobs /\ notes.stage \notin Claimed /\ (notes.stage = "known" => notes.call = c)
    <2>1. CASE notes = Ended
        BY <2>1, EndedIsJob DEF Claimed
    <2>2. CASE notes = [NoJob EXCEPT !.call = c, !.stage = "known"]
        BY <2>2, EndedIsJob DEF Jobs, Stages, Claimed
    <2> QED
        BY <1>1, <2>1, <2>2
<1>3. ledger' \in [Agents -> [day : Int, total : Int]]
    BY DEF Arrive, IInv, TypeOK
<1> QED
    BY <1>1, <1>2, <1>3, SeenStays, JobStepKeeps DEF Arrive, IInv, Sent

LEMMA ApprovalKeeps == ASSUME IInv, NEW i \in Arrivals, RequestApproval(i) PROVE IInv'
<1>1. PICK notes : /\ Moves(i, notes)
                   /\ notes \in {[job[i] EXCEPT !.stage = "approved"], Ended}
    BY DEF RequestApproval, Enters, Refuse
<1>2. job[i] \in Jobs /\ job[i].stage \in Claimed
    BY DEF RequestApproval, At, IInv, TypeOK, Claimed
<1>3. /\ notes \in Jobs /\ notes.stage # "known"
      /\ notes.stage \in Claimed => notes.claimed = job[i].claimed /\ notes.call = job[i].call
    BY <1>1, <1>2, EndedIsJob DEF Jobs, Stages, Claimed
<1>4. ledger' \in [Agents -> [day : Int, total : Int]]
    BY DEF RequestApproval, IInv, TypeOK
<1> QED
    BY <1>1, <1>2, <1>3, <1>4, SeenStays, JobStepKeeps DEF RequestApproval, IInv

\* What was charged on a day is a number.
LEMMA ChargedTyped ==
    ASSUME TypeOK, ServedWasSent, NEW i \in Arrivals, CheckPolicy(i)
    PROVE  /\ ledger' \in [Agents -> [day : Int, total : Int]]
           /\ Allowed(Of(i)) => now \in Nat /\ Total(Of(i).agent) \in Int
<1> DEFINE r == Of(i)
           charge == IF r.use.amount # Absent /\ r.session.maxDaily > 0 THEN r.use.amount.n ELSE 0
<1>1. r.agent \in Agents /\ r.use \in Uses
    BY DEF CheckPolicy, At, Of, ServedWasSent, TypeOK, Claimed
<1>2. Total(r.agent) \in Int /\ now \in Nat
    <2>1. ledger[r.agent] \in [day : Int, total : Int] /\ now \in Nat
        BY <1>1 DEF TypeOK
    <2> HIDE DEF r
    <2> QED
        BY <2>1 DEF Total
<1>3. Allowed(r) => charge \in Int
    BY <1>1, UsesAssumption DEF Allowed
<1>4. Today \in Int
    BY <1>2, KeeperAssumption DEF Today
<1>5. Allowed(r) => [day |-> Today, total |-> Total(r.agent) + charge] \in [day : Int, total : Int]
    BY <1>2, <1>3, <1>4
<1>6. IF Allowed(r)
      THEN ledger' = [ledger EXCEPT ![r.agent] = [day |-> Today, total |-> Total(r.agent) + charge]]
      ELSE ledger' = ledger
    BY DEF CheckPolicy
<1> HIDE DEF r, charge
<1>7. ledger' \in [Agents -> [day : Int, total : Int]]
    BY <1>1, <1>5, <1>6 DEF TypeOK
<1> QED
    BY <1>2, <1>7 DEF r

LEMMA PolicyKeeps == ASSUME IInv, NEW i \in Arrivals, CheckPolicy(i) PROVE IInv'
<1>1. /\ ledger' \in [Agents -> [day : Int, total : Int]]
      /\ Allowed(Of(i)) => now \in Nat /\ Total(Of(i).agent) \in Int
    BY ChargedTyped DEF IInv
<1>2. PICK notes : /\ Moves(i, notes)
                   /\ \/ /\ Allowed(Of(i))
                         /\ notes = [job[i] EXCEPT !.stage = "allowed", !.checked = now,
                                                  !.before = Total(Of(i).agent)]
                      \/ notes = Ended
    BY DEF CheckPolicy, Refuse
<1>3. job[i] \in Jobs /\ job[i].stage \in Claimed
    BY DEF CheckPolicy, At, IInv, TypeOK, Claimed
<1>4. /\ notes \in Jobs /\ notes.stage # "known"
      /\ notes.stage \in Claimed => notes.claimed = job[i].claimed /\ notes.call = job[i].call
    BY <1>1, <1>2, <1>3, EndedIsJob DEF Jobs, Stages, Claimed
<1> QED
    BY <1>1, <1>2, <1>3, <1>4, SeenStays, JobStepKeeps DEF CheckPolicy, IInv

-----------------------------------------------------------------------------
\* A nonce that is free was claimed long ago, if it was claimed at all.
LEMMA FreeIsOld ==
    ASSUME TypeOK, NEW nonce, nonce \notin Remembered, NEW t \in Nat, t <= now, Held(seen, now, nonce, t)
    PROVE  FarApart(now, t)
<1>1. now \in Nat /\ \A n \in DOMAIN seen : seen[n] \in Nat
    BY DEF TypeOK
<1>2. nonce \in DOMAIN seen => seen[nonce] <= now
    BY <1>1 DEF Remembered
<1> QED
    BY <1>1, <1>2, KeeperAssumption DEF Held, FarApart

\* The nonces that ran out are dropped, with a new claim or without.
LEMMA ClaimKept ==
    ASSUME TypeOK, NEW nonce, nonce \notin Remembered, seen' = Claim(nonce)
    PROVE  MemoryKept /\ \A n \in DOMAIN seen' : seen'[n] \in Nat
<1>1. now \in Nat /\ \A n \in DOMAIN seen : seen[n] \in Nat
    BY DEF TypeOK
<1>2. now + ReplayTtl \in Nat
    BY <1>1, KeeperAssumption
<1> QED
    BY <1>1, <1>2 DEF MemoryKept, Remembered, Claim

LEMMA PurgeKept ==
    ASSUME TypeOK, seen' = [n \in Remembered |-> seen[n]]
    PROVE  MemoryKept /\ \A n \in DOMAIN seen' : seen'[n] \in Nat
<1>1. \A n \in DOMAIN seen : seen[n] \in Nat
    BY DEF TypeOK
<1> QED
    BY <1>1 DEF MemoryKept, Remembered

\* The replay test: the only step that makes a claim.
LEMMA ReplayKeeps == ASSUME IInv, NEW i \in Arrivals, CheckReplay(i) PROVE IInv'
<1> USE DEF IInv
<1> DEFINE nonce == Of(i).nonce
<1>0. ledger' \in [Agents -> [day : Int, total : Int]] /\ now \in Nat
    BY DEF CheckReplay, TypeOK
<1>1. CASE nonce \in Remembered
    <2>1. Moves(i, Ended) /\ MemoryKept /\ \A n \in DOMAIN seen' : seen'[n] \in Nat
        BY <1>1, PurgeKept DEF CheckReplay, Refuse
    <2> QED
        BY <1>0, <2>1, EndedIsJob, JobStepKeeps DEF CheckReplay, Claimed
<1>2. CASE nonce \notin Remembered
    <2> DEFINE notes == [job[i] EXCEPT !.stage = "fresh", !.claimed = now]
    <2>1. Moves(i, notes) /\ seen' = Claim(nonce) /\ UNCHANGED <<now, boot, client, responses, signatures>>
        BY <1>2 DEF CheckReplay
    <2>2. notes \in Jobs /\ notes.call = job[i].call /\ notes.claimed = now /\ notes.stage = "fresh"
        BY <1>0 DEF TypeOK, Jobs, Stages
    <2>3. /\ job' \in [Arrivals -> Jobs] /\ job'[i] = notes
          /\ \A j \in Arrivals \ {i} : job'[j] = job[j]
        BY <2>1, <2>2, OneJobMoves
    <2>4. MemoryKept /\ \A n \in DOMAIN seen' : seen'[n] \in Nat
        BY <1>2, <2>1, ClaimKept
    <2>5. TypeOK'
        BY <1>0, <2>1, <2>3, <2>4 DEF TypeOK, Sent
    <2>6. ServedWasSent'
        BY <2>1, <2>2, <2>3 DEF CheckReplay, At, ServedWasSent, Sent, Claimed
    <2>7. \A j \in Arrivals : Of(j)' = Of(j)
        BY <2>1, <2>2, <2>3 DEF Of
    <2>8. ASSUME NEW n, NEW t \in Nat, Held(seen, now, n, t) PROVE Held(seen', now, n, t)
        BY <1>0, <2>1, <2>4, <2>8, HeldKept
    <2>9. Held(seen', now, nonce, now)
        BY <1>0, <2>1, KeeperAssumption DEF Claim, Held
    <2>10. \A j \in Arrivals \ {i} : job[j].stage \in Claimed =>
               /\ job[j].claimed \in Nat /\ job[j].claimed <= now
               /\ Held(seen, now, Of(j).nonce, job[j].claimed)
        BY DEF TypeOK, Jobs, ReplayInv, JobsHold
    <2>11. \A s \in signatures :
               /\ s.boot \in Nat /\ s.boot <= boot /\ s.claimed \in Nat /\ s.claimed <= now
               /\ s.boot = boot => Held(seen, now, s.request.nonce, s.claimed)
        BY DEF ReplayInv, SignaturesHold
    <2> HIDE DEF notes
    <2>12. JobsHold'
        <3> SUFFICES ASSUME NEW j \in Arrivals, job'[j].stage \in Claimed
                     PROVE  job'[j].claimed <= now' /\ Held(seen', now', Of(j)'.nonce, job'[j].claimed)
            BY DEF JobsHold, Held
        <3>1. CASE j = i
            BY <1>0, <2>1, <2>2, <2>3, <2>7, <2>9, <3>1
        <3>2. CASE j # i
            BY <2>1, <2>3, <2>7, <2>8, <2>10, <3>2
        <3> QED
            BY <3>1, <3>2
    <2>13. SignaturesHold'
        <3> SUFFICES ASSUME NEW s \in signatures
                     PROVE  /\ s.boot \in Nat /\ s.boot <= boot /\ s.claimed \in Nat /\ s.claimed <= now
                            /\ s.boot = boot => Held(seen', now, s.request.nonce, s.claimed)
            BY <2>1 DEF SignaturesHold, Held
        <3> QED
            BY <2>8, <2>11
    <2>14. \A j \in Arrivals \ {i} : job[j].stage \in Claimed /\ Of(j).nonce = nonce =>
               FarApart(now, job[j].claimed)
        BY <1>2, <2>10, FreeIsOld
    <2>15. \A s \in signatures : s.boot = boot /\ s.request.nonce = nonce => FarApart(now, s.claimed)
        BY <1>2, <2>11, FreeIsOld
    <2>16. JobsApart'
        BY <2>1, <2>2, <2>3, <2>7, <2>14 DEF ReplayInv, JobsApart, FarApart
    <2>17. ServedApart'
        BY <2>1, <2>2, <2>3, <2>7, <2>15 DEF ReplayInv, ServedApart, FarApart
    <2>18. NonceSignsOnce' /\ AnswerInv'
        BY <2>1, AnswersKept DEF ReplayInv, NonceSignsOnce
    <2> QED
        BY <2>5, <2>6, <2>12, <2>13, <2>16, <2>17, <2>18 DEF ReplayInv
<1> QED
    BY <1>1, <1>2

\* A signature takes over the claim of the job that made it.
LEMMA SignKeeps == ASSUME IInv, NEW i \in Arrivals, Sign(i) PROVE IInv'
<1> USE DEF IInv
<1> DEFINE new == [arrival |-> i, boot |-> boot, request |-> Of(i), session |-> keyring[Of(i).agent],
                   claimed |-> job[i].claimed, checked |-> job[i].checked, before |-> job[i].before]
<1>0. /\ now \in Nat /\ boot \in Nat /\ ledger' \in [Agents -> [day : Int, total : Int]]
      /\ \A j \in Arrivals : job[j].claimed \in Nat
    BY DEF Sign, TypeOK, Jobs
<1>1. /\ job' \in [Arrivals -> Jobs] /\ job'[i].stage = "ended" /\ job[i].stage \in Claimed
      /\ \A j \in Arrivals \ {i} : job'[j] = job[j]
    BY EndedIsJob, OneJobMoves DEF Sign, At, Claimed
<1>2. CASE UNCHANGED <<responses, signatures>>
    BY <1>0, <1>2, EndedIsJob, SeenStays, JobStepKeeps DEF Sign, Claimed
<1>3. CASE responses' = responses \cup {Of(i)} /\ signatures' = signatures \cup {new}
    <2>1. UNCHANGED <<now, boot, seen, client>>
        BY DEF Sign
    <2>2. TypeOK'
        BY <1>0, <1>1, <2>1, SeenStays DEF TypeOK, Sent
    <2>3. ServedWasSent'
        BY <1>1, <2>1 DEF ServedWasSent, Sent, Claimed
    <2>4. \A j \in Arrivals \ {i} : Of(j)' = Of(j)
        BY <1>1, <2>1 DEF Of
    <2>5. job[i].claimed <= now /\ Held(seen, now, Of(i).nonce, job[i].claimed)
        BY <1>1 DEF ReplayInv, JobsHold
    <2>6. /\ new.arrival = i /\ new.boot = boot /\ new.request = Of(i) /\ new.claimed = job[i].claimed
        OBVIOUS
    <2> HIDE DEF new
    <2>7. JobsHold'
        BY <1>1, <2>1, <2>4 DEF ReplayInv, JobsHold, Held, Claimed
    <2>8. SignaturesHold'
        BY <1>0, <1>3, <2>1, <2>5, <2>6 DEF ReplayInv, SignaturesHold, Held
    <2>9. JobsApart'
        BY <1>1, <2>4 DEF ReplayInv, JobsApart, FarApart, Claimed
    <2>10. \A j \in Arrivals \ {i} : job[j].stage \in Claimed /\ Of(j).nonce = new.request.nonce =>
               FarApart(job[j].claimed, new.claimed)
        BY <1>1, <2>6 DEF ReplayInv, JobsApart
    <2>11. ServedApart'
        BY <1>1, <1>3, <2>1, <2>4, <2>6, <2>10 DEF ReplayInv, ServedApart, FarApart, Claimed
    <2>12. \A s \in signatures : s.boot = boot /\ s.arrival # i /\ s.request.nonce = new.request.nonce =>
               FarApart(new.claimed, s.claimed)
        BY <1>1, <2>6 DEF ReplayInv, ServedApart
    <2>13. NonceSignsOnce'
        <3> SUFFICES ASSUME NEW s \in signatures \cup {new}, NEW t \in signatures \cup {new},
                            s.request.nonce = t.request.nonce, s.boot = t.boot, s.arrival # t.arrival
                     PROVE  FarApart(s.claimed, t.claimed)
            BY <1>3 DEF NonceSignsOnce, FarApart
        <3>1. CASE s \in signatures /\ t \in signatures
            BY <3>1 DEF ReplayInv, NonceSignsOnce, FarApart
        <3>2. CASE s = new /\ t \in signatures
            BY <2>6, <2>12, <3>2
        <3>3. CASE t = new /\ s \in signatures
            BY <2>6, <2>12, <3>3 DEF FarApart
        <3> QED
            BY <3>1, <3>2, <3>3
    <2>14. Of(i) = request[job[i].call] /\ job[i].call \in Calls /\ Sent(job[i].call)
        BY <1>1 DEF Of, ServedWasSent
    <2>15. AnswersAreSigned'
        BY <1>3, <2>1, <2>6, <2>14 DEF AnswerInv, AnswersAreSigned, Sent
    <2>16. NonceNamesRequest' /\ AcceptedIsOwn'
        BY <1>3, <2>1 DEF AnswerInv, NonceNamesRequest, AcceptedIsOwn, Sent
    <2> QED
        BY <2>2, <2>3, <2>7, <2>8, <2>9, <2>11, <2>13, <2>15, <2>16 DEF ReplayInv, AnswerInv
<1> QED
    BY <1>2, <1>3 DEF Sign

\* A restart forgets the claims together with everything in service.
LEMMA RestartKeeps == ASSUME IInv, Restart PROVE IInv'
<1> USE DEF IInv
<1>1. /\ boot \in Nat /\ boot' = boot + 1 /\ seen' = <<>>
      /\ UNCHANGED <<now, client, responses, signatures>>
    BY DEF Restart, TypeOK
<1>2. /\ job' \in [Arrivals -> Jobs]
      /\ \A i \in Arrivals : job'[i].stage \in {"none", "ended"}
    BY EndedIsJob DEF Restart, NoJob
<1>3. NothingCharged \in [Agents -> [day : Int, total : Int]]
    BY DEF NothingCharged
<1>4. TypeOK'
    <2>1. DOMAIN seen' = {} /\ boot' \in Nat
        BY <1>1
    <2>2. ledger' \in [Agents -> [day : Int, total : Int]]
        BY <1>3 DEF Restart
    <2> QED
        BY <1>1, <1>2, <2>1, <2>2 DEF TypeOK, Sent
<1>5. ServedWasSent'
    BY <1>2 DEF ServedWasSent, Claimed
<1>6. SignaturesHold'
    BY <1>1 DEF ReplayInv, SignaturesHold
<1>7. JobsHold' /\ JobsApart' /\ ServedApart'
    BY <1>2 DEF JobsHold, JobsApart, ServedApart, Claimed
<1>8. NonceSignsOnce' /\ AnswerInv'
    BY <1>1, AnswersKept DEF ReplayInv, NonceSignsOnce
<1> QED
    BY <1>4, <1>5, <1>6, <1>7, <1>8 DEF ReplayInv

\* The owner's file and the clock do not touch what the invariant is about.
LEMMA ElsewhereKeeps ==
    ASSUME IInv, now' \in Nat, now' >= now, UNCHANGED <<keeper, job, responses, client, signatures>>
    PROVE  IInv'
<1> USE DEF IInv
<1>1. TypeOK'
    BY DEF TypeOK, Sent
<1>2. ServedWasSent' /\ AnswerInv'
    BY AnswersKept DEF ServedWasSent, Sent
<1>3. \A i \in Arrivals : Of(i)' = Of(i)
    BY DEF Of
<1>4. ReplayInv'
    BY <1>3, SeenStays, ReplayKept
<1> QED
    BY <1>1, <1>2, <1>4

-----------------------------------------------------------------------------
\* The inductive invariant, one lemma per action.
THEOREM Invariant == Spec => []IInv
<1>1. Init => IInv
    BY InitIInv
<1>2. IInv /\ [Next]_vars => IInv'
    <2> SUFFICES ASSUME IInv, [Next]_vars PROVE IInv'
        OBVIOUS
    <2>0. now \in Nat
        BY DEF IInv, TypeOK
    <2>1. CASE \E c \in Calls : SignIntent(c) \/ Receive(c) \/ Fail(c)
        BY <2>1, SignIntentKeeps, ReceiveKeeps
    <2>2. CASE \E c, old \in Calls : Retry(c, old)
        BY <2>2, RetryKeeps
    <2>3. CASE \E i \in Arrivals, c \in Calls : Arrive(i, c)
        BY <2>3, ArriveKeeps
    <2>4. CASE \E i \in Arrivals : Serve(i)
        BY <2>4, ReplayKeeps, PolicyKeeps, ApprovalKeeps, SignKeeps DEF Serve
    <2>5. CASE \E a \in Agents, n \in Narrowings : Narrow(a, n)
        BY <2>0, <2>5, ElsewhereKeeps DEF Narrow
    <2>6. CASE Restart
        BY <2>6, RestartKeeps
    <2>7. CASE Tick
        BY <2>0, <2>7, ElsewhereKeeps DEF Tick
    <2>8. CASE UNCHANGED vars
        BY <2>0, <2>8, ElsewhereKeeps
    <2> QED
        BY <2>1, <2>2, <2>3, <2>4, <2>5, <2>6, <2>7, <2>8 DEF Next
<1> QED
    BY <1>1, <1>2, PTL DEF Spec

\* The keeper's replay test (createReplayChecker): in one life, two arrivals
\* with one nonce are signed only when they claimed it a retention apart.
THEOREM NonceOncePerRetention == Spec => []NonceSignsOnce
<1>1. IInv => NonceSignsOnce
    BY DEF IInv, ReplayInv
<1> QED
    BY <1>1, Invariant, PTL

\* The client's acceptance (verifyCustodySignResponse): the nonce alone tells
\* a call's answer from every other answer the keeper ever signed.
THEOREM AcceptsItsOwn == Spec => []AcceptedIsOwn
<1>1. IInv => AcceptedIsOwn
    BY DEF IInv, AnswerInv
<1> QED
    BY <1>1, Invariant, PTL

-----------------------------------------------------------------------------
(* The day's ceiling and the owner's authority. *)

\* Sums over some of the requests in service, or some of the signatures.
LEMMA DueInt ==
    ASSUME IsFiniteSet(Served), ServedAdmitted, NEW a, NEW d
    PROVE  /\ Pending(a, d) \subseteq Served /\ IsFiniteSet(Pending(a, d))
           /\ \A i \in Pending(a, d) : ServedAmount[i] \in Nat
           /\ Due(a, d) \in Nat
<1>1. Pending(a, d) \subseteq Served
    BY DEF Pending, Served, Admitted
<1>2. IsFiniteSet(Pending(a, d))
    BY <1>1, FS_Subset
<1>3. \A i \in Pending(a, d) : ServedAmount[i] \in Nat
    BY DEF Pending, ServedAmount, ServedAdmitted, Countable
<1> QED
    BY <1>1, <1>2, <1>3, SumPart DEF Due

\* The same of the signatures.
LEMMA SignedInt ==
    ASSUME IsFiniteSet(signatures), SignaturesAdmitted, NEW a, NEW life, NEW d
    PROVE  /\ IsFiniteSet(SpentOn(a, life, d))
           /\ \A s \in SpentOn(a, life, d) : SignedAmount[s] \in Nat
           /\ Sum(SignedAmount, SpentOn(a, life, d)) \in Nat
<1>1. SpentOn(a, life, d) \subseteq signatures
    BY DEF SpentOn
<1>2. IsFiniteSet(SpentOn(a, life, d))
    BY <1>1, FS_Subset
<1>3. \A s \in SpentOn(a, life, d) : SignedAmount[s] \in Nat
    BY <1>1 DEF SignedAmount, SignaturesAdmitted, Countable
<1> QED
    BY <1>2, <1>3, SumPart

\* The clock's day does not go back.
LEMMA DayGrows ==
    ASSUME NEW t \in Nat, NEW u \in Nat, t <= u
    PROVE  Day(t) \in Nat /\ Day(u) \in Nat /\ Day(t) <= Day(u)
<1> USE KeeperAssumption
<1> DEFINE q == t \div DayLength
           r == u \div DayLength
<1>1. /\ q \in Int /\ r \in Int
      /\ t = (DayLength * q) + (t % DayLength) /\ u = (DayLength * r) + (u % DayLength)
      /\ t % DayLength \in 0..(DayLength - 1) /\ u % DayLength \in 0..(DayLength - 1)
    BY SMT
<1>2. q >= 0 /\ r >= 0 /\ q <= r
    BY SMT
<1> QED
    BY <1>1, <1>2 DEF Day

\* What no step charges stays covered, as long as requests only leave.
LEMMA BudgetKept ==
    ASSUME TypeOK, BudgetInv, UNCHANGED <<boot, keyring, ledger, signatures>>,
           now' \in Nat, now' >= now, IsFiniteSet(Served'), SessionsNarrow',
           \A i \in Arrivals : job'[i].stage \in Admitted =>
               /\ job[i].stage \in Admitted /\ Of(i)' = Of(i)
               /\ job'[i].checked = job[i].checked /\ job'[i].before = job[i].before
    PROVE  BudgetInv'
<1> USE DEF BudgetInv
<1>1. LedgerOK'
    <2>1. now \in Nat
        BY DEF TypeOK
    <2>2. Today \in Nat /\ Today' \in Nat /\ Today <= Today'
        BY <2>1, DayGrows DEF Today, Day
    <2> QED
        BY <2>2 DEF LedgerOK
<1>2. ServedAdmitted'
    BY DEF ServedAdmitted
<1>3. SignaturesTimed' /\ SignaturesAdmitted' /\ DayWithinCeiling' /\ SignedUnderAuthority'
    BY DEF SignaturesTimed, SignaturesAdmitted, DayWithinCeiling, SpentOn, SignedUnderAuthority
<1>4. Covered'
    <2> SUFFICES ASSUME NEW a \in Agents, NEW d \in Int, keyring[a].maxDaily > 0
                 PROVE  /\ Signed(a, d)' + Due(a, d)' <= keyring[a].maxDaily
                        /\ d = ledger[a].day => Signed(a, d)' + Due(a, d)' <= ledger[a].total
        BY DEF Covered
    <2>1. Signed(a, d)' = Signed(a, d) /\ Signed(a, d) \in Nat
        <3>1. Signed(a, d)' = Signed(a, d)
            BY DEF Signed, SpentOn, SignedAmount
        <3> QED
            BY <3>1, SignedInt DEF Signed
    <2>2. Pending(a, d)' \subseteq Pending(a, d)
        BY DEF Pending
    <2>3. Due(a, d)' \in Nat /\ Due(a, d) \in Nat /\ Due(a, d)' <= Due(a, d)
        <3>1. \A i \in Pending(a, d)' : ServedAmount'[i] = ServedAmount[i]
            BY DEF Pending, ServedAmount
        <3>2. /\ IsFiniteSet(Pending(a, d)) /\ Due(a, d) \in Nat
              /\ \A i \in Pending(a, d) : ServedAmount[i] \in Nat
            BY DueInt
        <3>3. Sum(ServedAmount, Pending(a, d)') \in Nat /\ Sum(ServedAmount, Pending(a, d)') <= Due(a, d)
            BY <2>2, <3>2, SumPart DEF Due
        <3>4. IsFiniteSet(Pending(a, d)')
            BY <2>2, <3>2, FS_Subset
        <3>5. Sum(ServedAmount', Pending(a, d)') = Sum(ServedAmount, Pending(a, d)')
            BY <3>1, <3>4, SumSame
        <3> QED
            BY <3>2, <3>3, <3>5 DEF Due
    <2>4. /\ Signed(a, d) + Due(a, d) <= keyring[a].maxDaily
          /\ d = ledger[a].day => Signed(a, d) + Due(a, d) <= ledger[a].total
          /\ keyring[a].maxDaily \in Int /\ ledger[a].total \in Int
        BY DEF Covered, SessionsNarrow, HasLimits, LedgerOK
    <2> HIDE DEF BudgetInv
    <2> QED
        BY <2>1, <2>3, <2>4
<1> QED
    BY <1>1, <1>2, <1>3, <1>4

\* One job moves without being admitted or signed.
LEMMA BudgetJobMoves ==
    ASSUME IInv, BudgetInv, NEW i \in Arrivals, NEW notes, Moves(i, notes),
           notes.stage \in Admitted =>
               /\ job[i].stage \in Admitted /\ notes.call = job[i].call
               /\ notes.checked = job[i].checked /\ notes.before = job[i].before,
           UNCHANGED <<now, file, boot, keyring, ledger, request, signatures>>
    PROVE  BudgetInv'
<1>1. job'[i] = notes /\ \A j \in Arrivals \ {i} : job'[j] = job[j]
    BY DEF Moves, IInv, TypeOK
<1>2. IsFiniteSet(Served')
    <2>1. Served' \subseteq Served \cup {i}
        BY <1>1 DEF Served
    <2> QED
        BY <2>1, FS_AddElement, FS_Subset DEF BudgetInv
<1>3. SessionsNarrow'
    BY DEF BudgetInv, SessionsNarrow
<1>4. \A j \in Arrivals : job'[j].stage \in Admitted =>
          /\ job[j].stage \in Admitted /\ Of(j)' = Of(j)
          /\ job'[j].checked = job[j].checked /\ job'[j].before = job[j].before
    BY <1>1 DEF Of
<1>5. now \in Nat /\ TypeOK
    BY DEF IInv, TypeOK
<1> QED
    BY <1>2, <1>3, <1>4, <1>5, BudgetKept

\* The client, the network, the clock and the owner's file.
LEMMA BudgetElsewhere ==
    ASSUME IInv, BudgetInv, UNCHANGED <<keeper, job, signatures>>,
           now' \in Nat, now' >= now, SessionsNarrow',
           \A c \in Calls : Sent(c) => request'[c] = request[c]
    PROVE  BudgetInv'
<1>1. IsFiniteSet(Served')
    BY DEF Served, BudgetInv
<1>2. \A i \in Arrivals : job[i].stage \in Admitted => Of(i)' = Of(i)
    BY DEF IInv, ServedWasSent, Claimed, Admitted, Of
<1> QED
    BY <1>1, <1>2, BudgetKept DEF IInv

\* A session that replaces another was narrowed from it.
LEMMA BudgetNarrow ==
    ASSUME IInv, BudgetInv, NEW a \in Agents, NEW n \in Narrowings, Narrow(a, n)
    PROVE  BudgetInv'
<1> DEFINE child == NarrowSession(file[a], n, "owner", now)
<1>1. child # Refused /\ file' = [file EXCEPT ![a] = child.scope]
    BY DEF Narrow
<1>2. HasLimits(file[a]) /\ LimitsGiven(n) /\ now \in Int
    <2>1. now \in Nat
        BY DEF IInv, TypeOK
    <2>2. HasLimits(file[a])
        BY DEF BudgetInv, SessionsNarrow
    <2> QED
        BY <2>1, <2>2, NarrowingsAssumption
<1>3. HasLimits(child.scope)
    BY <1>1, <1>2, NarrowedHasLimits
<1>4. NoWider(child.scope, FirstSession[a])
    <2>1. HasLimits(FirstSession[a]) /\ NoWider(file[a], FirstSession[a])
        BY FirstSessionAssumption DEF BudgetInv, SessionsNarrow
    <2> QED
        BY <1>1, <1>2, <2>1, NarrowedNoWider
<1> HIDE DEF child
<1>5. SessionsNarrow'
    <2>1. UNCHANGED keyring
        BY DEF Narrow
    <2>2. /\ file' = [b \in Agents |-> file'[b]] /\ file'[a] = child.scope
          /\ \A b \in Agents \ {a} : file'[b] = file[b]
        BY <1>1 DEF BudgetInv, SessionsNarrow
    <2> QED
        BY <1>3, <1>4, <2>1, <2>2 DEF BudgetInv, SessionsNarrow
<1>6. now \in Nat /\ UNCHANGED <<now, keeper, job, signatures, client>>
    BY DEF Narrow, IInv, TypeOK
<1> QED
    BY <1>5, <1>6, BudgetElsewhere

\* The policy test: what it admits, the session and the day's total admit.
LEMMA BudgetPolicy ==
    ASSUME IInv, BudgetInv, NEW i \in Arrivals, CheckPolicy(i)
    PROVE  BudgetInv'
<1> DEFINE r == Of(i)
           a == r.agent
           n == r.use.amount.n
<1>1. CASE ~Allowed(r)
    <2>1. Moves(i, Ended) /\ ledger' = ledger
        BY <1>1 DEF CheckPolicy, Refuse
    <2> QED
        BY <2>1, EndedIsJob, BudgetJobMoves DEF CheckPolicy, Admitted
<1>2. CASE Allowed(r)
    <2> DEFINE notes == [job[i] EXCEPT !.stage = "allowed", !.checked = now, !.before = Total(a)]
               charge == IF r.use.amount # Absent /\ r.session.maxDaily > 0 THEN n ELSE 0
               entry == [day |-> Today, total |-> Total(a) + charge]
    <2>0. /\ TypeOK /\ ServedWasSent /\ now \in Nat /\ job[i] \in Jobs /\ job[i].stage = "fresh"
          /\ UNCHANGED <<now, file, issued, boot, keyring, request, signatures>>
        BY DEF CheckPolicy, At, IInv, TypeOK
    <2>1. Moves(i, notes) /\ ledger' = [ledger EXCEPT ![a] = entry]
        BY <1>2 DEF CheckPolicy
    <2>2. a \in Agents /\ r.use \in Uses
        BY <2>0 DEF Of, ServedWasSent, TypeOK, Claimed
    <2>3. n \in Nat /\ Countable(r.use)
        BY <1>2, <2>2, UsesAssumption DEF Allowed, Absent, Countable
    <2>4. Today \in Nat /\ Total(a) \in Nat
        <3>1. Today \in Nat
            BY <2>0, DayGrows DEF Today, Day
        <3>2. ledger[a].total \in Nat
            BY <2>2 DEF BudgetInv, LedgerOK
        <3> HIDE DEF a
        <3> QED
            BY <3>1, <3>2 DEF Total
    <2>5. keyring[a].maxDaily \in Int /\ HasLimits(keyring[a])
        BY <2>2 DEF BudgetInv, SessionsNarrow, HasLimits
    <2>6. r.session = keyring[a] /\ CheckSessionAccess(keyring[a], r.use, Total(a), now)
        <3>1. r.session = keyring[a]
            BY <1>2 DEF Allowed, SessionIsHeld
        <3> QED
            BY <1>2, <2>4, <3>1 DEF Allowed, CheckSessionAccess, WithinLimits, WithinSessionLimits
    <2>7. keyring[a].maxDaily > 0 => charge = n /\ (n = 0 \/ Total(a) + n <= keyring[a].maxDaily)
        <3>1. CASE r.use.amount = Absent
            BY <3>1 DEF Absent
        <3>2. CASE r.use.amount # Absent
            BY <2>6, <3>2 DEF CheckSessionAccess, WithinSessionLimits
        <3> QED
            BY <3>1, <3>2
    <2>8. charge \in Nat
        BY <2>3
    <2>9. /\ notes.stage = "allowed" /\ notes.checked = now /\ notes.before = Total(a)
          /\ notes.call = job[i].call /\ notes \in Jobs
        <3>1. Total(a) \in Int /\ now \in Nat /\ job[i] \in Jobs
            BY <2>0, <2>4
        <3> HIDE DEF a
        <3> QED
            BY <3>1 DEF Jobs, Stages
    <2>10. /\ job'[i] = notes /\ \A j \in Arrivals \ {i} : job'[j] = job[j]
           /\ \A j \in Arrivals : Of(j)' = Of(j)
        <3>1. job'[i] = notes /\ \A j \in Arrivals \ {i} : job'[j] = job[j]
            BY <2>0, <2>1, <2>9, OneJobMoves
        <3> QED
            BY <2>0, <2>9, <3>1 DEF Of
    <2>11. /\ entry.day = Today /\ entry.total = Total(a) + charge
           /\ ledger'[a] = entry /\ \A b \in Agents \ {a} : ledger'[b] = ledger[b]
        BY <2>0, <2>1, <2>2 DEF TypeOK
    <2>12. Today = Day(now) /\ Today' = Today
        BY <2>0 DEF Today, Day
    <2>13. \A b \in Agents : ledger[b].day \in Nat /\ ledger[b].day <= ledger'[b].day
        BY <2>4, <2>11 DEF BudgetInv, LedgerOK
    <2> HIDE DEF notes, entry, charge, n, a, r
    <2>14. LedgerOK'
        BY <2>4, <2>8, <2>11, <2>12 DEF BudgetInv, LedgerOK
    <2>15. IsFiniteSet(signatures') /\ IsFiniteSet(Served')
        <3>1. Served' \subseteq Served \cup {i}
            BY <2>10 DEF Served
        <3> QED
            BY <2>0, <3>1, FS_AddElement, FS_Subset DEF BudgetInv
    <2>16. ServedAdmitted'
        <3> SUFFICES ASSUME NEW j \in Arrivals, job'[j].stage \in Admitted
                     PROVE  /\ Of(j).agent \in Agents /\ Countable(Of(j).use)
                            /\ CheckSessionAccess(keyring[Of(j).agent], Of(j).use, job'[j].before, job'[j].checked)
                            /\ Day(job'[j].checked) <= ledger'[Of(j).agent].day
            BY <2>0, <2>10 DEF ServedAdmitted, Countable
        <3>1. CASE j = i
            BY <2>2, <2>3, <2>4, <2>6, <2>9, <2>10, <2>11, <2>12, <3>1 DEF r, a
        <3>2. CASE j # i
            <4>1. /\ Of(j).agent \in Agents /\ Countable(Of(j).use)
                  /\ CheckSessionAccess(keyring[Of(j).agent], Of(j).use, job[j].before, job[j].checked)
                  /\ Day(job[j].checked) <= ledger[Of(j).agent].day /\ job'[j] = job[j]
                BY <2>10, <3>2 DEF BudgetInv, ServedAdmitted
            <4>2. Day(job[j].checked) \in Nat
                <5>1. job[j].checked \in Nat
                    BY <2>0 DEF TypeOK, Jobs
                <5> QED
                    BY <5>1, DayGrows
            <4>3. ledger'[Of(j).agent].day \in Nat
                BY <2>14, <4>1 DEF LedgerOK
            <4> QED
                BY <2>13, <4>1, <4>2, <4>3
        <3> QED
            BY <3>1, <3>2
    <2>17. SignaturesAdmitted'
        <3> SUFFICES ASSUME NEW s \in signatures, s.boot = boot
                     PROVE  /\ s.session = keyring[s.request.agent]
                            /\ Day(s.checked) <= ledger'[s.request.agent].day
            BY <2>0 DEF BudgetInv, SignaturesAdmitted, Countable
        <3>1. /\ s.session = keyring[s.request.agent] /\ s.request.agent \in Agents
              /\ Day(s.checked) <= ledger[s.request.agent].day
            BY DEF BudgetInv, SignaturesAdmitted
        <3>2. Day(s.checked) \in Int
            BY KeeperAssumption DEF BudgetInv, SignaturesTimed, Day
        <3>3. ledger'[s.request.agent].day \in Nat
            BY <2>14, <3>1 DEF LedgerOK
        <3> QED
            BY <2>13, <3>1, <3>2, <3>3
    <2>18. Covered'
        <3> SUFFICES ASSUME NEW b \in Agents, NEW d \in Int, keyring[b].maxDaily > 0
                     PROVE  /\ Signed(b, d)' + Due(b, d)' <= keyring[b].maxDaily
                            /\ d = ledger'[b].day => Signed(b, d)' + Due(b, d)' <= ledger'[b].total
            BY <2>0 DEF Covered
        <3>1. Signed(b, d)' = Signed(b, d)
            BY <2>0 DEF Signed, SpentOn, SignedAmount
        <3>2. Signed(b, d) \in Nat
            BY SignedInt DEF BudgetInv, Signed
        <3>3. /\ IsFiniteSet(Pending(b, d)) /\ Due(b, d) \in Nat
              /\ \A j \in Pending(b, d) : ServedAmount[j] \in Nat
            BY DueInt DEF BudgetInv
        <3>4. ServedAmount' = ServedAmount /\ ServedAmount[i] = n
            BY <2>10 DEF ServedAmount, r, n
        <3>5. /\ Signed(b, d) + Due(b, d) <= keyring[b].maxDaily
              /\ d = ledger[b].day => Signed(b, d) + Due(b, d) <= ledger[b].total
              /\ keyring[b].maxDaily \in Int /\ ledger[b].total \in Int /\ ledger[b].day \in Nat
              /\ ledger[b].day <= Today
            BY DEF BudgetInv, Covered, SessionsNarrow, HasLimits, LedgerOK
        <3>6. CASE b # a \/ d # Today
            <4>1. Pending(b, d)' = Pending(b, d)
                BY <2>0, <2>9, <2>10, <2>12, <3>6 DEF Pending, Admitted, a, r
            <4>2. Due(b, d)' = Due(b, d)
                BY <3>4, <4>1 DEF Due
            <4>3. d = ledger'[b].day => b # a
                BY <2>11, <3>6
            <4> QED
                BY <2>2, <2>11, <3>1, <3>5, <4>2, <4>3
        <3>7. CASE b = a /\ d = Today
            <4>1. Pending(b, d)' = Pending(b, d) \cup {i} /\ i \notin Pending(b, d)
                BY <2>0, <2>9, <2>10, <2>12, <3>7 DEF Pending, Admitted, a, r
            <4>2. Due(b, d)' = n + Due(b, d)
                BY <2>3, <2>12, <3>3, <3>4, <3>7, <4>1, SumAdd DEF Due
            <4>3. Signed(a, Today) + Due(a, Today) <= Total(a)
                <5>1. CASE ledger[a].day = Today
                    BY <3>5, <3>7, <5>1 DEF Total
                <5>2. CASE ledger[a].day # Today
                    <6>1. SpentOn(a, boot, Today) = {}
                        <7> SUFFICES ASSUME NEW s \in SpentOn(a, boot, Today) PROVE FALSE
                            OBVIOUS
                        <7>1. Day(s.checked) = Today /\ Day(s.checked) <= ledger[a].day
                            BY DEF SpentOn, Day, BudgetInv, SignaturesAdmitted
                        <7> QED
                            BY <2>4, <3>5, <3>7, <5>2, <7>1
                    <6>2. Pending(a, Today) = {}
                        <7> SUFFICES ASSUME NEW j \in Pending(a, Today) PROVE FALSE
                            OBVIOUS
                        <7>1. Day(job[j].checked) = Today /\ Day(job[j].checked) <= ledger[a].day
                            BY DEF Pending, BudgetInv, ServedAdmitted
                        <7> QED
                            BY <2>4, <3>5, <3>7, <5>2, <7>1
                    <6>3. Signed(a, Today) = 0 /\ Due(a, Today) = 0
                        BY <6>1, <6>2, SumEmpty DEF Signed, Due
                    <6> QED
                        BY <2>4, <6>3
                <5> QED
                    BY <5>1, <5>2
            <4>4. ledger'[a].total = Total(a) + n /\ (n = 0 \/ Total(a) + n <= keyring[a].maxDaily)
                BY <2>7, <2>11, <3>7
            <4>5. /\ Signed(a, Today) \in Int /\ Due(a, Today) \in Int /\ Total(a) \in Int /\ n \in Int
                  /\ keyring[a].maxDaily \in Int
                  /\ Signed(a, Today) + Due(a, Today) <= keyring[a].maxDaily
                BY <2>3, <2>4, <3>2, <3>3, <3>5, <3>7
            <4>6. /\ Signed(a, Today) + (n + Due(a, Today)) <= keyring[a].maxDaily
                  /\ Signed(a, Today) + (n + Due(a, Today)) <= Total(a) + n
                BY <4>3, <4>4, <4>5
            <4> QED
                BY <2>12, <3>1, <3>7, <4>2, <4>4, <4>6
        <3> QED
            BY <3>6, <3>7
    <2>19. DayWithinCeiling' /\ SignedUnderAuthority' /\ SessionsNarrow'
        BY <2>0 DEF BudgetInv, DayWithinCeiling, SpentOn, SignedUnderAuthority, SessionsNarrow
    <2> QED
        BY <2>14, <2>15, <2>16, <2>17, <2>18, <2>19, <2>0 DEF BudgetInv, SignaturesTimed
<1> QED
    BY <1>1, <1>2

\* A signature takes over what was due for the request.
LEMMA BudgetSign ==
    ASSUME IInv, BudgetInv, NEW i \in Arrivals, Sign(i)
    PROVE  BudgetInv'
<1> DEFINE r == Of(i)
           new == [arrival |-> i, boot |-> boot, request |-> r, session |-> keyring[r.agent],
                   claimed |-> job[i].claimed, checked |-> job[i].checked, before |-> job[i].before]
<1>1. CASE UNCHANGED <<responses, signatures>>
    BY <1>1, EndedIsJob, BudgetJobMoves DEF Sign, Admitted
<1>2. CASE signatures' = signatures \cup {new}
    <2>0. /\ TypeOK /\ now \in Nat /\ job[i] \in Jobs /\ job[i].stage = "approved"
          /\ UNCHANGED <<now, file, boot, keyring, ledger, request>>
        BY DEF Sign, At, IInv, TypeOK
    <2>1. /\ job'[i] = Ended /\ Ended.stage = "ended"
          /\ \A j \in Arrivals \ {i} : job'[j] = job[j] /\ Of(j)' = Of(j)
        BY <2>0, EndedIsJob, OneJobMoves DEF Sign, Of
    <2>2. /\ r.agent \in Agents /\ Countable(r.use)
          /\ CheckSessionAccess(keyring[r.agent], r.use, job[i].before, job[i].checked)
          /\ Day(job[i].checked) <= ledger[r.agent].day
        BY <2>0 DEF BudgetInv, ServedAdmitted, Admitted
    <2>3. job[i].checked \in Nat /\ job[i].before \in Int
        BY <2>0 DEF Jobs
    <2>4. /\ new.boot = boot /\ new.request = r /\ new.session = keyring[r.agent]
          /\ new.checked = job[i].checked /\ new.before = job[i].before
        OBVIOUS
    <2> HIDE DEF new, r
    <2>5. LedgerOK' /\ SessionsNarrow'
        BY <2>0 DEF BudgetInv, LedgerOK, SessionsNarrow, Today
    <2>6. IsFiniteSet(signatures') /\ IsFiniteSet(Served')
        <3>1. Served' \subseteq Served
            BY <2>0, <2>1 DEF Served
        <3> QED
            BY <1>2, <3>1, FS_AddElement, FS_Subset DEF BudgetInv
    <2>7. ServedAdmitted'
        BY <2>0, <2>1 DEF BudgetInv, ServedAdmitted, Admitted, Countable
    <2>8. SignaturesTimed' /\ SignaturesAdmitted'
        BY <1>2, <2>0, <2>2, <2>3, <2>4 DEF BudgetInv, SignaturesTimed, SignaturesAdmitted, Countable
    <2>9. SignedUnderAuthority'
        <3>1. /\ HasLimits(keyring[r.agent]) /\ HasLimits(FirstSession[r.agent])
              /\ NoWider(keyring[r.agent], FirstSession[r.agent])
            BY <2>2, FirstSessionAssumption DEF BudgetInv, SessionsNarrow
        <3>2. CheckSessionAccess(Lifted(FirstSession[r.agent], keyring[r.agent]), r.use,
                                 job[i].before, job[i].checked)
            BY <2>2, <2>3, <3>1, NoWiderAdmits DEF Countable
        <3> QED
            BY <1>2, <2>2, <2>4, <3>2 DEF BudgetInv, SignedUnderAuthority
    <2>10. \A s \in signatures : SignedAmount'[s] = SignedAmount[s]
        BY <1>2 DEF SignedAmount
    <2>11. ASSUME NEW b \in Agents, NEW d \in Int, keyring[b].maxDaily > 0
           PROVE  /\ Signed(b, d)' \in Nat /\ Due(b, d)' \in Nat
                  /\ Signed(b, d)' + Due(b, d)' <= keyring[b].maxDaily
                  /\ d = ledger[b].day => Signed(b, d)' + Due(b, d)' <= ledger[b].total
        <3> USE <2>11
        <3>1. /\ Signed(b, d) + Due(b, d) <= keyring[b].maxDaily
              /\ d = ledger[b].day => Signed(b, d) + Due(b, d) <= ledger[b].total
              /\ keyring[b].maxDaily \in Int /\ ledger[b].total \in Int
            BY DEF BudgetInv, Covered, SessionsNarrow, HasLimits, LedgerOK
        <3>2. /\ IsFiniteSet(Pending(b, d)) /\ Due(b, d) \in Nat
              /\ \A j \in Pending(b, d) : ServedAmount[j] \in Nat
            BY DueInt DEF BudgetInv
        <3>3. /\ IsFiniteSet(SpentOn(b, boot, d)) /\ Signed(b, d) \in Nat
              /\ \A s \in SpentOn(b, boot, d) : SignedAmount[s] \in Nat
            BY SignedInt DEF BudgetInv, Signed
        <3>4. Sum(SignedAmount', SpentOn(b, boot, d)) = Signed(b, d)
            BY <2>10, <3>3, SumSame DEF Signed, SpentOn
        <3>5. Pending(b, d)' = Pending(b, d) \ {i}
            BY <2>1 DEF Pending, Admitted
        <3>6. Sum(ServedAmount', Pending(b, d)') = Sum(ServedAmount, Pending(b, d) \ {i})
            <4>1. \A j \in Pending(b, d)' : ServedAmount'[j] = ServedAmount[j]
                BY <2>1, <3>5 DEF ServedAmount, Pending
            <4>2. IsFiniteSet(Pending(b, d)')
                BY <3>2, <3>5, FS_Subset
            <4> QED
                BY <3>5, <4>1, <4>2, SumSame
        <3>7. CASE r.agent = b /\ Day(job[i].checked) = d
            <4>1. i \in Pending(b, d) /\ ServedAmount[i] = r.use.amount.n
                BY <2>0, <3>7 DEF Pending, Admitted, r, ServedAmount
            <4>2. /\ Due(b, d) = r.use.amount.n + Due(b, d)' /\ Due(b, d)' \in Nat
                <5>1. Due(b, d) = ServedAmount[i] + Sum(ServedAmount, Pending(b, d) \ {i})
                    BY <3>2, <4>1, SumTakeOut DEF Due
                <5>2. Sum(ServedAmount, Pending(b, d) \ {i}) \in Nat
                    BY <3>2, SumPart
                <5> QED
                    BY <3>6, <4>1, <5>1, <5>2 DEF Due
            <4>3. SpentOn(b, boot, d)' = SpentOn(b, boot, d) \cup {new}
                BY <1>2, <2>0, <2>4, <3>7 DEF SpentOn, Day
            <4>4. SignedAmount'[new] = r.use.amount.n /\ r.use.amount.n \in Nat
                BY <1>2, <2>2, <2>4 DEF SignedAmount, Countable
            <4>5. Signed(b, d)' \in Nat /\ Signed(b, d)' <= r.use.amount.n + Signed(b, d)
                <5>1. CASE new \in SpentOn(b, boot, d)
                    <6>1. SpentOn(b, boot, d)' = SpentOn(b, boot, d)
                        BY <4>3, <5>1
                    <6>2. Signed(b, d)' = Signed(b, d)
                        BY <2>0, <3>4, <6>1 DEF Signed
                    <6> QED
                        BY <3>3, <4>4, <6>2
                <5>2. CASE new \notin SpentOn(b, boot, d)
                    <6>1. \A s \in SpentOn(b, boot, d) \cup {new} : SignedAmount'[s] \in Int
                        BY <2>10, <3>3, <4>4 DEF SpentOn
                    <6>2. Sum(SignedAmount', SpentOn(b, boot, d) \cup {new}) =
                            r.use.amount.n + Signed(b, d)
                        BY <3>3, <3>4, <4>4, <5>2, <6>1, SumAdd
                    <6> QED
                        BY <2>0, <3>3, <4>3, <4>4, <6>2 DEF Signed
                <5> QED
                    BY <5>1, <5>2
            <4> QED
                BY <3>1, <3>2, <3>3, <4>2, <4>4, <4>5
        <3>8. CASE ~(r.agent = b /\ Day(job[i].checked) = d)
            <4>1. SpentOn(b, boot, d)' = SpentOn(b, boot, d)
                BY <1>2, <2>0, <2>4, <3>8 DEF SpentOn, Day
            <4>2. i \notin Pending(b, d)
                BY <3>8 DEF Pending, r
            <4>3. Signed(b, d)' = Signed(b, d) /\ Due(b, d)' = Due(b, d)
                <5>1. Pending(b, d) \ {i} = Pending(b, d)
                    BY <4>2
                <5> QED
                    BY <2>0, <3>4, <3>6, <4>1, <5>1 DEF Signed, Due
            <4> QED
                BY <3>1, <3>2, <3>3, <4>3
        <3> QED
            BY <3>7, <3>8
    <2>12. Covered'
        BY <2>0, <2>11 DEF Covered
    <2>13. DayWithinCeiling'
        <3> SUFFICES ASSUME NEW s \in signatures', s.session.maxDaily > 0
                     PROVE  Sum(SignedAmount', SpentOn(s.request.agent, s.boot, Day(s.checked))')
                                <= s.session.maxDaily
            BY DEF DayWithinCeiling, Sum, SignedAmount, Day
        <3> DEFINE b == s.request.agent
                   d == Day(s.checked)
        <3>1. CASE s.boot = boot
            <4>1. b \in Agents /\ s.session = keyring[b] /\ d \in Int /\ HasLimits(keyring[b])
                BY <2>0, <2>5, <2>8, <3>1, KeeperAssumption
                DEF SignaturesAdmitted, SignaturesTimed, Day, SessionsNarrow
            <4>2. keyring[b].maxDaily > 0
                BY <4>1
            <4> HIDE DEF b, d
            <4>3. /\ Signed(b, d)' \in Nat /\ Due(b, d)' \in Nat
                  /\ Signed(b, d)' + Due(b, d)' <= keyring[b].maxDaily
                BY <2>11, <4>1, <4>2
            <4>4. Signed(b, d)' <= keyring[b].maxDaily
                BY <4>1, <4>3 DEF HasLimits
            <4> QED
                BY <2>0, <3>1, <4>1, <4>4 DEF Signed, b, d
        <3>2. CASE s.boot # boot
            <4>1. s \in signatures /\ SpentOn(b, s.boot, d)' = SpentOn(b, s.boot, d)
                BY <1>2, <2>4, <3>2 DEF SpentOn
            <4>2. Sum(SignedAmount, SpentOn(b, s.boot, d)) <= s.session.maxDaily
                BY <4>1 DEF BudgetInv, DayWithinCeiling, Sum, SignedAmount, Day
            <4>3. Sum(SignedAmount', SpentOn(b, s.boot, d)) = Sum(SignedAmount, SpentOn(b, s.boot, d))
                <5>1. IsFiniteSet(SpentOn(b, s.boot, d))
                    BY SignedInt DEF BudgetInv
                <5>2. SpentOn(b, s.boot, d) \subseteq signatures
                    BY DEF SpentOn
                <5> QED
                    BY <2>10, <5>1, <5>2, SumSame
            <4> QED
                BY <4>1, <4>2, <4>3
        <3> QED
            BY <3>1, <3>2
    <2> QED
        BY <2>5, <2>6, <2>7, <2>8, <2>9, <2>12, <2>13 DEF BudgetInv
<1> QED
    BY <1>1, <1>2 DEF Sign

\* A new life has charged nothing, and signed nothing yet.
LEMMA BudgetRestart == ASSUME IInv, BudgetInv, Restart PROVE BudgetInv'
<1>1. /\ now' = now /\ boot' = boot + 1 /\ keyring' = file /\ ledger' = NothingCharged
      /\ UNCHANGED <<file, signatures>> /\ boot \in Nat /\ now \in Nat
      /\ job' = [i \in Arrivals |-> IF At(i, "none") THEN NoJob ELSE Ended]
    BY DEF Restart, IInv, TypeOK
<1>2. /\ \A i \in Arrivals : job'[i].stage \in {"none", "ended"} /\ (At(i, "none") => job'[i].stage = "none")
    BY <1>1, EndedIsJob DEF NoJob
<1>3. IsFiniteSet(Served')
    <2>1. Served' \subseteq Served
        BY <1>2 DEF Served, At
    <2> QED
        BY <2>1, FS_Subset DEF BudgetInv
<1>4. \A s \in signatures : s.boot # boot'
    BY <1>1 DEF IInv, ReplayInv, SignaturesHold
<1>5. LedgerOK'
    <2>1. Today' \in Nat
        BY <1>1, DayGrows DEF Today, Day
    <2> QED
        BY <1>1, <2>1 DEF LedgerOK, NothingCharged
<1>6. ServedAdmitted'
    BY <1>2 DEF ServedAdmitted, Admitted
<1>7. /\ SignaturesAdmitted' /\ SignaturesTimed' /\ SessionsNarrow'
      /\ DayWithinCeiling' /\ SignedUnderAuthority'
    BY <1>1, <1>4
    DEF BudgetInv, SignaturesAdmitted, SignaturesTimed, Countable, SessionsNarrow,
        DayWithinCeiling, SpentOn, SignedUnderAuthority
<1>8. Covered'
    <2> SUFFICES ASSUME NEW a \in Agents, NEW d \in Int, keyring'[a].maxDaily > 0
                 PROVE  /\ Signed(a, d)' + Due(a, d)' <= keyring'[a].maxDaily
                        /\ d = ledger'[a].day => Signed(a, d)' + Due(a, d)' <= ledger'[a].total
        BY DEF Covered
    <2>1. Pending(a, d)' = {}
        BY <1>2 DEF Pending, Admitted
    <2>2. SpentOn(a, boot, d)' = {}
        BY <1>1, <1>4 DEF SpentOn
    <2>3. Signed(a, d)' = 0 /\ Due(a, d)' = 0
        BY <2>1, <2>2, SumEmpty DEF Signed, Due
    <2>4. keyring'[a].maxDaily \in Int
        BY <1>1 DEF BudgetInv, SessionsNarrow, HasLimits
    <2>5. ledger'[a].total = 0
        BY <1>1 DEF NothingCharged
    <2> QED
        BY <2>3, <2>4, <2>5
<1> QED
    BY <1>1, <1>3, <1>5, <1>6, <1>7, <1>8 DEF BudgetInv

\* Nothing is due or signed at first.
LEMMA InitBudget == Init => BudgetInv
<1> SUFFICES ASSUME Init PROVE BudgetInv
    OBVIOUS
<1>1. signatures = {} /\ Served = {} /\ \A i \in Arrivals : job[i].stage = "none"
    BY DEF Init, Served, NoJob
<1>2. IsFiniteSet(signatures) /\ IsFiniteSet(Served)
    BY <1>1, FS_EmptySet
<1>3. LedgerOK
    <2>1. Today \in Nat
        BY DayGrows DEF Init, Today, Day
    <2> QED
        BY <2>1 DEF Init, LedgerOK, NothingCharged
<1>4. /\ ServedAdmitted /\ SignaturesAdmitted /\ SignaturesTimed /\ DayWithinCeiling
      /\ SignedUnderAuthority
    BY <1>1 DEF ServedAdmitted, Admitted, SignaturesAdmitted, SignaturesTimed, DayWithinCeiling,
                SignedUnderAuthority
<1>5. SessionsNarrow
    BY FirstSessionAssumption, NoWiderThanItself DEF Init, SessionsNarrow
<1>6. Covered
    <2> SUFFICES ASSUME NEW a \in Agents, NEW d \in Int, keyring[a].maxDaily > 0
                 PROVE  /\ Signed(a, d) + Due(a, d) <= keyring[a].maxDaily
                        /\ d = ledger[a].day => Signed(a, d) + Due(a, d) <= ledger[a].total
        BY DEF Covered
    <2>1. Pending(a, d) = {} /\ SpentOn(a, boot, d) = {}
        BY <1>1 DEF Pending, Admitted, SpentOn
    <2>2. Signed(a, d) = 0 /\ Due(a, d) = 0
        BY <2>1, SumEmpty DEF Signed, Due
    <2>3. keyring[a].maxDaily \in Int /\ ledger[a].total = 0
        BY <1>5 DEF SessionsNarrow, HasLimits, Init, NothingCharged
    <2> QED
        BY <2>2, <2>3
<1> QED
    BY <1>2, <1>3, <1>4, <1>5, <1>6 DEF BudgetInv

\* The second inductive invariant, on top of the first.
THEOREM BudgetInvariant == Spec => []BudgetInv
<1>1. Init => BudgetInv
    BY InitBudget
<1>2. IInv /\ BudgetInv /\ [Next]_vars => BudgetInv'
    <2> SUFFICES ASSUME IInv, BudgetInv, [Next]_vars PROVE BudgetInv'
        OBVIOUS
    <2>0. now \in Nat
        BY DEF IInv, TypeOK
    <2>9. UNCHANGED <<file, keyring>> => SessionsNarrow'
        BY DEF BudgetInv, SessionsNarrow
    <2>1. CASE \E c \in Calls : SignIntent(c) \/ Receive(c) \/ Fail(c) \/ \E old \in Calls : Retry(c, old)
        <3> PICK c \in Calls : SignIntent(c) \/ Receive(c) \/ Fail(c) \/ \E old \in Calls : Retry(c, old)
            BY <2>1
        <3>1. \A d \in Calls : Sent(d) => request'[d] = request[d]
            BY DEF SignIntent, Receive, Fail, Retry, Sent, IInv, TypeOK
        <3>2. UNCHANGED <<now, file, keeper, job, signatures>>
            BY DEF SignIntent, Receive, Fail, Retry
        <3> QED
            BY <2>0, <2>9, <3>1, <3>2, BudgetElsewhere
    <2>2. CASE \E i \in Arrivals, c \in Calls : Arrive(i, c)
        <3> PICK i \in Arrivals, c \in Calls : Arrive(i, c)
            BY <2>2
        <3>1. PICK notes : Moves(i, notes) /\ notes.stage \notin Admitted
            <4>1. [NoJob EXCEPT !.call = c, !.stage = "known"].stage = "known"
                BY DEF NoJob
            <4> QED
                BY <4>1, EndedIsJob DEF Arrive, Admitted
        <3> QED
            BY <3>1, BudgetJobMoves DEF Arrive
    <2>3. ASSUME NEW i \in Arrivals, CheckReplay(i) PROVE BudgetInv'
        <3>1. PICK notes : Moves(i, notes) /\ notes.stage \notin Admitted
            <4>1. [job[i] EXCEPT !.stage = "fresh", !.claimed = now].stage = "fresh"
                BY DEF IInv, TypeOK, Jobs
            <4> QED
                BY <2>3, <4>1, EndedIsJob DEF CheckReplay, Refuse, Admitted
        <3> QED
            BY <2>3, <3>1, BudgetJobMoves DEF CheckReplay
    <2>4. ASSUME NEW i \in Arrivals, RequestApproval(i) PROVE BudgetInv'
        <3>1. /\ job[i] \in Jobs /\ job[i].stage = "allowed"
            BY <2>4 DEF RequestApproval, At, IInv, TypeOK
        <3>2. PICK notes : /\ Moves(i, notes)
                           /\ notes.stage \in Admitted => notes = [job[i] EXCEPT !.stage = "approved"]
            BY <2>4, EndedIsJob DEF RequestApproval, Enters, Refuse, Admitted
        <3>3. notes.stage \in Admitted =>
                  /\ job[i].stage \in Admitted /\ notes.call = job[i].call
                  /\ notes.checked = job[i].checked /\ notes.before = job[i].before
            BY <3>1, <3>2 DEF Jobs, Admitted
        <3> QED
            BY <2>4, <3>2, <3>3, BudgetJobMoves DEF RequestApproval
    <2>5. CASE \E i \in Arrivals : Serve(i)
        BY <2>3, <2>4, <2>5, BudgetPolicy, BudgetSign DEF Serve
    <2>6. CASE \E a \in Agents, n \in Narrowings : Narrow(a, n)
        BY <2>6, BudgetNarrow
    <2>7. CASE Restart
        BY <2>7, BudgetRestart
    <2>8. CASE Tick \/ UNCHANGED vars
        <3>1. now' \in Nat /\ now' >= now /\ UNCHANGED <<file, keeper, job, signatures, client>>
            BY <2>0, <2>8 DEF Tick
        <3> QED
            BY <2>9, <3>1, BudgetElsewhere
    <2> QED
        BY <2>1, <2>2, <2>5, <2>6, <2>7, <2>8 DEF Next
<1> QED
    BY <1>1, <1>2, Invariant, PTL DEF Spec

\* createSessionPolicyChecker charges a request when it admits it and signs
\* later: what one life signs on one day is within the session's daily limit.
THEOREM DayStaysWithinCeiling == Spec => []DayWithinCeiling
<1>1. BudgetInv => DayWithinCeiling
    BY DEF BudgetInv
<1> QED
    BY <1>1, BudgetInvariant, PTL

\* createSessionPolicyChecker and narrowSession: a signature was admitted by
\* the session the keeper holds and by the one its agent was first given,
\* except for a limit that some narrowing set below 0 (no premise excludes
\* such narrowings).
THEOREM SignsUnderAuthority == Spec => []SignedUnderAuthority
<1>1. BudgetInv => SignedUnderAuthority
    BY DEF BudgetInv
<1> QED
    BY <1>1, BudgetInvariant, PTL
=============================================================================
