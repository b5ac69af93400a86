---------------------------- MODULE ServerProofs ----------------------------
(***************************************************************************)
(* Proofs about the MCP server, for any servers, calls, chains, accounts,  *)
(* policies and clocks.                                                    *)
(*                                                                         *)
(* ServerGate.  While one chain is written, what a process remembers, what *)
(* the store holds and what a setup under way has registered are all       *)
(* enforced by the contracts of that chain, which are only added to; so    *)
(* that two writers never disagree on a session's config.  A simulation in *)
(* any log was made no earlier than the log says.                          *)
(*                                                                         *)
(* ServerSession.  The key that signs is that of the session, a signer is  *)
(* that of the key it was started for unless an identity was replaced      *)
(* meanwhile, and a password that was given up comes back with no signer.  *)
(***************************************************************************)
EXTENDS ServerGate, ServerSession, TLAPS

-----------------------------------------------------------------------------
(* The invariant. *)

Entry(e) ==
    /\ e = [sessions |-> e.sessions, current |-> e.current, url |-> e.url]
    /\ e.url \in Chains \cup {None}
    /\ Sane(e)

Entries(known) == \A a \in DOMAIN known : Entry(known[a])

Stages == {"free", "deploying", "registering", "registered", "preview", "simulated",
           "execute", "relaying"}

Note(j) ==
    /\ j = [stage |-> j.stage, account |-> j.account, session |-> j.session, config |-> j.config,
            intent |-> j.intent, policy |-> j.policy, at |-> j.at]
    /\ j.stage \in Stages

Shape ==
    /\ now \in 0 .. LastTime /\ url \in [Servers -> Chains] /\ up \in [Servers -> BOOLEAN]
    /\ meta \in Chains \cup {None} /\ file \in Policies
    /\ DOMAIN accounts = Servers /\ DOMAIN context = Servers /\ DOMAIN armed = Servers
    /\ DOMAIN job = Slots /\ DOMAIN contracts = Chains
    /\ \A a \in DOMAIN rows : Sane(rows[a])
    /\ \A s \in Servers : Entries(accounts[s])
    /\ \A x \in Slots : Note(job[x])

\* The context of a process is one of these accounts and of its sessions.
Within(ctx, known) ==
    ctx.account # None =>
        /\ ctx.account \in DOMAIN known
        /\ ctx.session \in DOMAIN known[ctx.account].sessions \cup {None}

Placed == \A s \in Servers : Within(context[s], accounts[s])

\* A process that is down remembers nothing and serves nobody.
DownIsBlank ==
    \A s \in Servers : ~up[s] =>
        /\ accounts[s] = <<>> /\ context[s] = NoContext
        /\ \A x \in Slots : Of(x) = s => job[x].stage = "free"

\* These sessions of an account are what the contract at its address enforces.
Enforced(deployed, a, sessions) ==
    /\ a \in DOMAIN deployed
    /\ \A k \in DOMAIN sessions : k \in DOMAIN deployed[a] /\ deployed[a][k] = sessions[k]

Session(k, config) == [x \in {k} |-> config]

AllEnforced(deployed, known) == \A a \in DOMAIN known : Enforced(deployed, a, known[a].sessions)

CacheEnforced == ~mixed => \A s \in Servers : AllEnforced(contracts[url[s]], accounts[s])

\* Rows that one chain speaks for are enforced there.
StoreEnforced ==
    ~mixed /\ DOMAIN rows # {} =>
        meta \in Chains /\ meta # None /\ AllEnforced(contracts[meta], rows)

\* A deployment waits only in a process all of whose accounts are contracts,
\* so that it replaces none; what setup goes on with is there.
Stands(j, known, deployed, clean) ==
    /\ j.stage = "deploying" => DOMAIN known \subseteq DOMAIN deployed
    /\ j.stage \in {"registering", "registered"} => j.account \in DOMAIN known
    /\ j.stage = "registered" /\ clean => Enforced(deployed, j.account, Session(j.session, j.config))

SetupsStand == \A x \in Slots : Stands(job[x], accounts[Of(x)], contracts[url[Of(x)]], ~mixed)

\* What a process or the store holds of a simulation was simulated then or since.
Armed(passed, a, arm) ==
    /\ arm.at \in Nat
    /\ <<a, arm.digest>> \in DOMAIN passed
    /\ passed[<<a, arm.digest>>] >= arm.at

ArmsTrue ==
    /\ \A key \in DOMAIN simulatedAt : simulatedAt[key] \in 0 .. now
    /\ \A s \in Servers : \A a \in DOMAIN armed[s] : Armed(simulatedAt, a, armed[s][a])
    /\ \A a \in DOMAIN arms : Armed(simulatedAt, a, arms[a])

GateTimes == \A x \in Slots : job[x].stage = "relaying" => job[x].at \in Nat

World == Shape /\ Placed /\ DownIsBlank /\ CacheEnforced /\ SetupsStand
Books == StoreEnforced /\ AcknowledgedSurvives
Log == ArmsTrue /\ GateTimes /\ SimulatedInTime

IInv == World /\ Books /\ Log

-----------------------------------------------------------------------------
(* Functions. *)

\* A function put on top of another.
LEMMA OverIs ==
    ASSUME NEW f, NEW g
    PROVE  /\ DOMAIN Over(f, g) = DOMAIN f \cup DOMAIN g
           /\ \A x \in DOMAIN f : Over(f, g)[x] = f[x]
           /\ \A x \in DOMAIN g : x \notin DOMAIN f => Over(f, g)[x] = g[x]
BY DEF Over

\* A pair put on top of a function.
LEMMA WithIs ==
    ASSUME NEW f, NEW k, NEW v
    PROVE  /\ DOMAIN With(f, k, v) = {k} \cup DOMAIN f
           /\ With(f, k, v)[k] = v
           /\ \A x \in DOMAIN f : x # k => With(f, k, v)[x] = f[x]
BY DEF With, Over

\* The contracts of a chain are only added to.
Grown(before, after) ==
    \A a \in DOMAIN before :
        /\ a \in DOMAIN after
        /\ \A k \in DOMAIN before[a] : k \in DOMAIN after[a] /\ after[a][k] = before[a][k]

\* What was enforced still is.
LEMMA EnforcedStays ==
    ASSUME NEW before, NEW after, Grown(before, after), NEW a, NEW sessions, Enforced(before, a, sessions)
    PROVE  Enforced(after, a, sessions)
BY DEF Grown, Enforced

\* So does everything that was enforced of several accounts.
LEMMA AllEnforcedStays ==
    ASSUME NEW before, NEW after, Grown(before, after), NEW known, AllEnforced(before, known)
    PROVE  AllEnforced(after, known)
BY EnforcedStays DEF AllEnforced

\* A chain on which nothing happened has its contracts.
LEMMA GrownIsReflexive == ASSUME NEW f PROVE Grown(f, f)
BY DEF Grown

\* Two functions with what is enforced agree.
LEMMA UnionEnforced ==
    ASSUME NEW deployed, NEW a, NEW old, NEW new, Enforced(deployed, a, old), Enforced(deployed, a, new)
    PROVE  Enforced(deployed, a, UnionBySessionId(old, new))
BY DEF UnionBySessionId, Over, Enforced

\* One more session.
LEMMA WithEnforced ==
    ASSUME NEW deployed, NEW a, NEW old, NEW k, NEW v, Enforced(deployed, a, old),
             Enforced(deployed, a, Session(k, v))
    PROVE  Enforced(deployed, a, With(old, k, v))
BY UnionEnforced DEF With, Session, UnionBySessionId

-----------------------------------------------------------------------------
(* The store. *)

\* What upsertAccountRow leaves of an entry whose account has a row or not.
LEMMA UpsertIs ==
    ASSUME NEW a, NEW entry
    PROVE  /\ a \in DOMAIN rows => UpsertAccountRow(a, entry).sessions =
                                       UnionBySessionId(rows[a].sessions, entry.sessions)
           /\ a \notin DOMAIN rows => UpsertAccountRow(a, entry).sessions = entry.sessions
BY DEF UpsertAccountRow

\* With the old sessions and the new, the new ones in front.
LEMMA UpsertSessions ==
    ASSUME NEW a, NEW entry
    PROVE  LET filled == UpsertAccountRow(a, entry).sessions
           IN  /\ \A k \in DOMAIN entry.sessions : k \in DOMAIN filled /\ filled[k] = entry.sessions[k]
               /\ a \in DOMAIN rows => DOMAIN rows[a].sessions \subseteq DOMAIN filled
<1>1. CASE a \in DOMAIN rows
    <2>1. UpsertAccountRow(a, entry).sessions = Over(entry.sessions, rows[a].sessions)
        BY <1>1, UpsertIs DEF UnionBySessionId
    <2> QED
        BY <2>1 DEF Over
<1>2. CASE a \notin DOMAIN rows
    <2>1. UpsertAccountRow(a, entry).sessions = entry.sessions
        BY <1>2, UpsertIs
    <2> QED
        BY <1>2, <2>1
<1> QED
    BY <1>1, <1>2

\* The new row's current session is one of its own.
LEMMA UpsertIsSane ==
    ASSUME Shape, NEW a, NEW entry, Entry(entry)
    PROVE  Sane(UpsertAccountRow(a, entry))
<1> DEFINE new == UpsertAccountRow(a, entry)
<1>1. DOMAIN entry.sessions \subseteq DOMAIN new.sessions
    BY UpsertSessions
<1>2. a \in DOMAIN rows => DOMAIN rows[a].sessions \subseteq DOMAIN new.sessions
    BY UpsertSessions
<1>3. entry.current # None => new.current = entry.current
    BY DEF UpsertAccountRow
<1>4. entry.current = None /\ a \in DOMAIN rows => new.current = rows[a].current
    BY DEF UpsertAccountRow
<1>5. entry.current = None /\ a \notin DOMAIN rows => new.current = None
    BY DEF UpsertAccountRow
<1>6. a \in DOMAIN rows => Sane(rows[a])
    BY DEF Shape
<1> HIDE DEF new
<1>7. Sane(new)
    <2>1. CASE entry.current # None
        BY <1>1, <1>3, <2>1 DEF Sane, Entry
    <2>2. CASE entry.current = None
        BY <1>2, <1>4, <1>5, <1>6, <2>2 DEF Sane
    <2> QED
        BY <2>1, <2>2
<1> QED
    BY <1>7 DEF new

\* Rows after a write: those of the entries, and the others as they were.
LEMMA WriteIs ==
    ASSUME NEW s, NEW entries, NEW chain, Write(s, entries, chain)
    PROVE  /\ DOMAIN rows' = DOMAIN entries \cup DOMAIN rows
           /\ \A a \in DOMAIN entries : rows'[a] = UpsertAccountRow(a, entries[a])
           /\ \A a \in DOMAIN rows \ DOMAIN entries : rows'[a] = rows[a]
           /\ meta' = chain
           /\ ~mixed' => ~mixed
           /\ ~mixed' /\ DOMAIN entries # {} => {chain, meta} \ {None} = {url[s]}
<1> DEFINE new == [a \in DOMAIN entries |-> UpsertAccountRow(a, entries[a])]
<1>1. rows' = Over(new, rows) /\ meta' = chain
    BY DEF Write
<1>2. mixed' = (mixed \/ (entries # <<>> /\ {chain, meta} \ {None} # {url[s]}))
    BY DEF Write
<1>3. DOMAIN new = DOMAIN entries /\ \A a \in DOMAIN entries : new[a] = UpsertAccountRow(a, entries[a])
    OBVIOUS
<1>4. DOMAIN entries # {} => entries # <<>>
    OBVIOUS
<1> HIDE DEF new
<1>5. DOMAIN rows' = DOMAIN entries \cup DOMAIN rows
    BY <1>1, <1>3, OverIs
<1>a. /\ \A a \in DOMAIN new : Over(new, rows)[a] = new[a]
      /\ \A a \in DOMAIN rows : a \notin DOMAIN new => Over(new, rows)[a] = rows[a]
    BY ONLY OverIs
<1>6. \A a \in DOMAIN entries : rows'[a] = UpsertAccountRow(a, entries[a])
    BY ONLY <1>1, <1>3, <1>a
<1>7. \A a \in DOMAIN rows \ DOMAIN entries : rows'[a] = rows[a]
    BY ONLY <1>1, <1>3, <1>a
<1> QED
    BY <1>1, <1>2, <1>4, <1>5, <1>6, <1>7

\* A write whose chain is that of some of its entries leaves rows that are
\* enforced where the store says, and loses nothing that was answered for.
LEMMA WriteKeeps ==
    ASSUME Shape, StoreEnforced, AcknowledgedSurvives,
           NEW s \in Servers, NEW entries, NEW speaking,
           Entries(entries), Entries(speaking), DOMAIN speaking \subseteq DOMAIN entries,
           ~mixed => AllEnforced(contracts[url[s]], entries),
           Write(s, entries, MetaOf(speaking)), UNCHANGED contracts
    PROVE  /\ meta' \in Chains \cup {None}
           /\ \A a \in DOMAIN rows' : Sane(rows'[a])
           /\ ~mixed' => ~mixed
           /\ StoreEnforced'
           /\ \A e \in acknowledged :
                  /\ e[1] \in DOMAIN rows' /\ e[2] \in DOMAIN rows'[e[1]].sessions
                  /\ ~mixed' => rows'[e[1]].sessions[e[2]] = e[3]
           /\ \A a \in DOMAIN entries :
                  /\ a \in DOMAIN rows'
                  /\ \A k \in DOMAIN entries[a].sessions :
                         /\ k \in DOMAIN rows'[a].sessions
                         /\ rows'[a].sessions[k] = entries[a].sessions[k]
<1> DEFINE chain == MetaOf(speaking)
           spoken == {speaking[a].url : a \in DOMAIN speaking} \ {None}
<1>1. spoken \subseteq Chains
    BY DEF Entries, Entry
<1>2. chain = IF spoken = {} THEN meta ELSE CHOOSE u \in spoken : TRUE
    BY DEF MetaOf
<1>3. spoken # {} => (CHOOSE u \in spoken : TRUE) \in spoken
    OBVIOUS
<1>4. DOMAIN entries = {} => spoken = {}
    OBVIOUS
<1>5. spoken # {} => chain # None
    <2> HIDE DEF chain
    <2> QED
        BY <1>2, <1>3
<1> HIDE DEF spoken
<1>6. chain \in Chains \cup {None}
    <2> HIDE DEF chain
    <2> QED
        BY <1>1, <1>2, <1>3 DEF Shape
<1>7. DOMAIN entries = {} => chain = meta
    <2> HIDE DEF chain
    <2> QED
        BY <1>2, <1>4
<1>8. Write(s, entries, chain)
    OBVIOUS
<1> HIDE DEF chain
<1>9. \A a \in DOMAIN rows : a \in DOMAIN rows' /\ DOMAIN rows[a].sessions \subseteq DOMAIN rows'[a].sessions
    <2> SUFFICES ASSUME NEW a \in DOMAIN rows
                 PROVE  a \in DOMAIN rows' /\ DOMAIN rows[a].sessions \subseteq DOMAIN rows'[a].sessions
        OBVIOUS
    <2>1. CASE a \in DOMAIN entries
        <3>1. a \in DOMAIN rows' /\ rows'[a] = UpsertAccountRow(a, entries[a])
            BY <1>8, <2>1, WriteIs
        <3>2. DOMAIN rows[a].sessions \subseteq DOMAIN UpsertAccountRow(a, entries[a]).sessions
            BY UpsertSessions
        <3> QED
            BY <3>1, <3>2
    <2>2. CASE a \notin DOMAIN entries
        BY <1>8, <2>2, WriteIs
    <2> QED
        BY <2>1, <2>2
<1>10. \A a \in DOMAIN rows' : Sane(rows'[a])
    <2> SUFFICES ASSUME NEW a \in DOMAIN rows' PROVE Sane(rows'[a])
        OBVIOUS
    <2>1. CASE a \in DOMAIN entries
        <3>1. rows'[a] = UpsertAccountRow(a, entries[a])
            BY <1>8, <2>1, WriteIs
        <3>2. Sane(UpsertAccountRow(a, entries[a]))
            BY <2>1, UpsertIsSane DEF Entries
        <3> QED
            BY <3>1, <3>2
    <2>2. CASE a \notin DOMAIN entries
        BY <1>8, <2>2, WriteIs DEF Shape
    <2> QED
        BY <2>1, <2>2
<1>11. \A a \in DOMAIN entries :
          /\ a \in DOMAIN rows'
          /\ \A k \in DOMAIN entries[a].sessions :
                 k \in DOMAIN rows'[a].sessions /\ rows'[a].sessions[k] = entries[a].sessions[k]
    <2> SUFFICES ASSUME NEW a \in DOMAIN entries
                 PROVE  /\ a \in DOMAIN rows'
                        /\ \A k \in DOMAIN entries[a].sessions :
                               k \in DOMAIN rows'[a].sessions /\ rows'[a].sessions[k] = entries[a].sessions[k]
        OBVIOUS
    <2>1. a \in DOMAIN rows' /\ rows'[a] = UpsertAccountRow(a, entries[a])
        BY <1>8, WriteIs
    <2> QED
        BY <2>1, UpsertSessions
<1>12. ASSUME ~mixed', DOMAIN entries # {}
       PROVE  chain = url[s] /\ url[s] # None /\ meta \in {None, url[s]}
    <2>1. {chain, meta} \ {None} = {url[s]}
        BY <1>8, <1>12, WriteIs
    <2>2. url[s] # None /\ (chain = None => meta = url[s]) /\ meta \in {None, url[s]} /\ chain \in {None, url[s]}
        BY <2>1
    <2>3. chain # None
        BY <1>2, <1>5, <2>2
    <2> QED
        BY <2>2, <2>3
<1>13. ASSUME ~mixed', DOMAIN rows # {}
       PROVE  chain = meta /\ meta \in Chains /\ meta # None /\ AllEnforced(contracts[meta], rows)
    <2>1. ~mixed
        BY <1>8, <1>13, WriteIs
    <2>2. meta \in Chains /\ meta # None /\ AllEnforced(contracts[meta], rows)
        BY <1>13, <2>1 DEF StoreEnforced
    <2> QED
        BY <1>7, <1>12, <1>13, <2>2
<1>14. ASSUME ~mixed', NEW a \in DOMAIN rows'
       PROVE  chain \in Chains /\ chain # None /\ Enforced(contracts[chain], a, rows'[a].sessions)
    <2>1. ~mixed
        BY <1>8, <1>14, WriteIs
    <2>2. ASSUME a \in DOMAIN entries
          PROVE  chain = url[s] /\ url[s] # None /\ url[s] \in Chains
                 /\ Enforced(contracts[chain], a, entries[a].sessions)
        <3>1. chain = url[s] /\ url[s] # None
            BY <1>12, <1>14, <2>2
        <3> QED
            BY <2>1, <2>2, <3>1 DEF AllEnforced, Shape
    <2>3. ASSUME a \in DOMAIN rows
          PROVE  chain = meta /\ meta \in Chains /\ meta # None
                 /\ Enforced(contracts[chain], a, rows[a].sessions)
        BY <1>13, <1>14, <2>3 DEF AllEnforced
    <2>4. CASE a \in DOMAIN entries /\ a \in DOMAIN rows
        <3>1. rows'[a].sessions = UnionBySessionId(rows[a].sessions, entries[a].sessions)
            <4>1. rows'[a] = UpsertAccountRow(a, entries[a])
                BY <1>8, <2>4, WriteIs
            <4>2. UpsertAccountRow(a, entries[a]).sessions = UnionBySessionId(rows[a].sessions, entries[a].sessions)
                BY <2>4, UpsertIs
            <4> QED
                BY <4>1, <4>2
        <3> QED
            BY <2>2, <2>3, <2>4, <3>1, UnionEnforced
    <2>5. CASE a \in DOMAIN entries /\ a \notin DOMAIN rows
        <3>1. rows'[a].sessions = entries[a].sessions
            <4>1. rows'[a] = UpsertAccountRow(a, entries[a])
                BY <1>8, <2>5, WriteIs
            <4>2. UpsertAccountRow(a, entries[a]).sessions = entries[a].sessions
                BY <2>5, UpsertIs
            <4> QED
                BY <4>1, <4>2
        <3> QED
            BY <2>2, <2>5, <3>1
    <2>6. CASE a \notin DOMAIN entries
        <3>1. a \in DOMAIN rows /\ rows'[a] = rows[a]
            BY <1>8, <2>6, WriteIs
        <3> QED
            BY <2>3, <3>1
    <2> QED
        BY <2>4, <2>5, <2>6
<1>15. StoreEnforced'
    <2>1. meta' = chain /\ contracts' = contracts
        BY <1>8, WriteIs
    <2> QED
        BY <1>14, <2>1 DEF StoreEnforced, AllEnforced
<1>16. ASSUME NEW e \in acknowledged
       PROVE  /\ e[1] \in DOMAIN rows' /\ e[2] \in DOMAIN rows'[e[1]].sessions
              /\ ~mixed' => rows'[e[1]].sessions[e[2]] = e[3]
    <2>1. e[1] \in DOMAIN rows /\ e[2] \in DOMAIN rows[e[1]].sessions
        BY DEF AcknowledgedSurvives
    <2>2. e[1] \in DOMAIN rows' /\ e[2] \in DOMAIN rows'[e[1]].sessions
        BY <1>9, <2>1
    <2>3. ASSUME ~mixed' PROVE rows'[e[1]].sessions[e[2]] = e[3]
        <3>1. ~mixed
            BY <1>8, <2>3, WriteIs
        <3>2. rows[e[1]].sessions[e[2]] = e[3]
            BY <3>1 DEF AcknowledgedSurvives
        <3>3. chain = meta /\ Enforced(contracts[meta], e[1], rows[e[1]].sessions)
            BY <1>13, <2>1, <2>3 DEF AllEnforced
        <3>4. Enforced(contracts[chain], e[1], rows'[e[1]].sessions)
            BY <1>14, <2>2, <2>3
        <3> QED
            BY <2>1, <2>2, <3>2, <3>3, <3>4 DEF Enforced
    <2> QED
        BY <2>2, <2>3
<1>17. meta' = chain /\ (~mixed' => ~mixed)
    BY <1>8, WriteIs
<1> QED
    BY <1>6, <1>10, <1>11, <1>15, <1>16, <1>17

\* So does every way of persisting the entries of a process, done or failed.
LEMMA PersistKeeps ==
    ASSUME Shape, StoreEnforced, AcknowledgedSurvives,
           NEW s \in Servers, NEW entries, NEW done, Entries(entries),
           ~mixed => AllEnforced(contracts[url[s]], entries),
           Persist(s, entries, done), UNCHANGED contracts
    PROVE  /\ meta' \in Chains \cup {None}
           /\ \A a \in DOMAIN rows' : Sane(rows'[a])
           /\ ~mixed' => ~mixed
           /\ StoreEnforced'
           /\ \A e \in acknowledged :
                  /\ e[1] \in DOMAIN rows' /\ e[2] \in DOMAIN rows'[e[1]].sessions
                  /\ ~mixed' => rows'[e[1]].sessions[e[2]] = e[3]
           /\ done => \A a \in DOMAIN entries :
                  /\ a \in DOMAIN rows'
                  /\ \A k \in DOMAIN entries[a].sessions :
                         /\ k \in DOMAIN rows'[a].sessions
                         /\ rows'[a].sessions[k] = entries[a].sessions[k]
<1>1. CASE done /\ Write(s, entries, MetaOf(entries))
    BY <1>1, WriteKeeps
<1>2. CASE ~done /\ \E written \in SUBSET DOMAIN entries : \E last \in SUBSET written :
                        Write(s, Restrict(entries, written), MetaOf(Restrict(entries, written \ last)))
    <2>0. PICK written \in SUBSET DOMAIN entries : \E last \in SUBSET written :
              Write(s, Restrict(entries, written), MetaOf(Restrict(entries, written \ last)))
        BY <1>2
    <2>1. PICK last \in SUBSET written :
              Write(s, Restrict(entries, written), MetaOf(Restrict(entries, written \ last)))
        BY <2>0
    <2> DEFINE some == Restrict(entries, written)
               speaking == Restrict(entries, written \ last)
    <2>2. DOMAIN some = written /\ DOMAIN speaking \subseteq written
        BY DEF Restrict
    <2>3. Entries(some) /\ Entries(speaking)
        BY DEF Restrict, Entries
    <2>4. ~mixed => AllEnforced(contracts[url[s]], some)
        BY DEF Restrict, AllEnforced
    <2>5. Write(s, some, MetaOf(speaking))
        BY <2>1
    <2> HIDE DEF some, speaking
    <2> QED
        BY <1>2, <2>2, <2>3, <2>4, <2>5, WriteKeeps
<1> QED
    BY <1>1, <1>2 DEF Persist

-----------------------------------------------------------------------------
(* What a step leaves alone. *)

\* One slot's notes change.
LEMMA JobIs ==
    ASSUME Shape, NEW x \in Slots, NEW n, Continues(x, n)
    PROVE  DOMAIN job' = Slots /\ job'[x] = n /\ \A y \in Slots : y # x => job'[y] = job[y]
BY DEF Shape, Continues

\* The notes of a free slot.
LEMMA BlankNote == Note(NoJob) /\ NoJob.stage = "free"
BY DEF Note, NoJob, Stages

\* A slot is one of a server.
LEMMA ServerOf == ASSUME NEW x \in Slots PROVE Of(x) \in Servers
BY DEF Of, Servers

\* A slot that is taken is one of a process that is up.
LEMMA BusyIsUp ==
    ASSUME DownIsBlank, NEW x \in Slots, job[x].stage # "free"
    PROVE  up[Of(x)]
BY ServerOf DEF DownIsBlank

\* A step of one call, which changes its process's memory only.
Acts(x) ==
    /\ UNCHANGED <<url, up, now, file>>
    /\ DOMAIN accounts' = Servers /\ DOMAIN context' = Servers /\ DOMAIN armed' = Servers
    /\ DOMAIN job' = Slots /\ DOMAIN contracts' = Chains
    /\ \A s \in Servers : s # Of(x) => accounts'[s] = accounts[s] /\ context'[s] = context[s]
    /\ \A y \in Slots : y # x => job'[y] = job[y]
    /\ \A c \in Chains : Grown(contracts[c], contracts'[c])
    /\ ~mixed' => ~mixed

\* A step of a call keeps the world if what it leaves to its own process is sound.
LEMMA ActionKeepsWorld ==
    ASSUME World, NEW x \in Slots, Acts(x), up[Of(x)],
           Note(job'[x]), meta' \in Chains \cup {None}, \A a \in DOMAIN rows' : Sane(rows'[a]),
           Entries(accounts'[Of(x)]), Within(context'[Of(x)], accounts'[Of(x)]),
           ~mixed' => AllEnforced(contracts'[url[Of(x)]], accounts'[Of(x)]),
           Stands(job'[x], accounts'[Of(x)], contracts'[url[Of(x)]], ~mixed'),
           DOMAIN accounts[Of(x)] \subseteq DOMAIN accounts'[Of(x)],
           DOMAIN accounts[Of(x)] \subseteq DOMAIN contracts[url[Of(x)]] =>
               DOMAIN accounts'[Of(x)] \subseteq DOMAIN contracts'[url[Of(x)]]
    PROVE  World'
<1> DEFINE s == Of(x)
<1>1. Shape'
    <2>1. \A t \in Servers : Entries(accounts'[t])
        BY DEF World, Shape, Acts
    <2>2. \A y \in Slots : Note(job'[y])
        BY DEF World, Shape, Acts
    <2> QED
        BY <2>1, <2>2 DEF World, Shape, Acts
<1>2. Placed'
    BY DEF World, Placed, Acts
<1>3. DownIsBlank'
    BY DEF World, DownIsBlank, Acts
<1>4. \A t \in Servers : url[t] \in Chains
    BY DEF World, Shape
<1>5. CacheEnforced'
    <2> SUFFICES ASSUME ~mixed', NEW t \in Servers
                 PROVE  AllEnforced(contracts'[url[t]], accounts'[t])
        BY DEF CacheEnforced, Acts
    <2>1. CASE t = s
        BY <2>1
    <2>2. CASE t # s
        <3>1. AllEnforced(contracts[url[t]], accounts[t]) /\ accounts'[t] = accounts[t]
            BY <2>2 DEF World, CacheEnforced, Acts
        <3>2. Grown(contracts[url[t]], contracts'[url[t]])
            BY <1>4 DEF Acts
        <3> QED
            BY <3>1, <3>2, AllEnforcedStays
    <2> QED
        BY <2>1, <2>2
<1>6. SetupsStand'
    <2> SUFFICES ASSUME NEW y \in Slots
                 PROVE  Stands(job'[y], accounts'[Of(y)], contracts'[url[Of(y)]], ~mixed')
        BY DEF SetupsStand, Acts
    <2>1. CASE y = x
        BY <2>1
    <2>2. CASE y # x
        <3>1. Stands(job[y], accounts[Of(y)], contracts[url[Of(y)]], ~mixed) /\ job'[y] = job[y]
            BY <2>2 DEF World, SetupsStand, Acts
        <3>2. Grown(contracts[url[Of(y)]], contracts'[url[Of(y)]])
            BY <1>4, ServerOf DEF Acts
        <3>3. DOMAIN accounts[Of(y)] \subseteq DOMAIN accounts'[Of(y)]
            BY ServerOf DEF Acts
        <3>4. DOMAIN accounts[Of(y)] \subseteq DOMAIN contracts[url[Of(y)]] =>
                  DOMAIN accounts'[Of(y)] \subseteq DOMAIN contracts'[url[Of(y)]]
            <4>1. CASE Of(y) = s
                BY <4>1
            <4>2. CASE Of(y) # s
                <5>1. accounts'[Of(y)] = accounts[Of(y)]
                    BY <4>2, ServerOf DEF Acts
                <5> QED
                    BY <3>2, <5>1 DEF Grown
            <4> QED
                BY <4>1, <4>2
        <3>5. ~mixed' => ~mixed
            BY DEF Acts
        <3> QED
            BY <3>1, <3>2, <3>3, <3>4, <3>5, EnforcedStays DEF Stands
    <2> QED
        BY <2>1, <2>2
<1> QED
    BY <1>1, <1>2, <1>3, <1>5, <1>6 DEF World

\* The store stands while its rows do, whatever contracts are added.
LEMMA BooksStay ==
    ASSUME Shape, Books, UNCHANGED <<rows, meta, mixed, acknowledged>>,
           \A c \in Chains : Grown(contracts[c], contracts'[c])
    PROVE  Books'
<1>1. AcknowledgedSurvives'
    BY DEF Books, AcknowledgedSurvives
<1>2. StoreEnforced'
    <2> SUFFICES ASSUME ~mixed, DOMAIN rows # {}
                 PROVE  meta \in Chains /\ meta # None /\ AllEnforced(contracts'[meta], rows)
        BY DEF StoreEnforced
    <2>1. meta \in Chains /\ meta # None /\ AllEnforced(contracts[meta], rows)
        BY DEF Books, StoreEnforced
    <2> QED
        BY <2>1, AllEnforcedStays
<1> QED
    BY <1>1, <1>2 DEF Books

\* Time passes; logs are restored or lost; no call newly passes the gate.
LEMMA LogStays ==
    ASSUME GateAssumption, Shape, Log, now' \in Nat, now' >= now, UNCHANGED <<simulatedAt, arms>>,
           \A s \in Servers : \A a \in DOMAIN armed'[s] :
               \/ a \in DOMAIN armed[s] /\ armed'[s][a] = armed[s][a]
               \/ a \in DOMAIN arms /\ armed'[s][a] = arms[a],
           \A x \in Slots : job'[x].stage = "relaying" => job'[x] = job[x]
    PROVE  Log'
<1>1. ArmsTrue'
    <2>1. now \in Nat
        BY DEF Shape
    <2>2. \A key \in DOMAIN simulatedAt : simulatedAt[key] \in 0 .. now'
        BY <2>1 DEF Log, ArmsTrue
    <2>3. \A s \in Servers : \A a \in DOMAIN armed'[s] : Armed(simulatedAt, a, armed'[s][a])
        BY DEF Log, ArmsTrue
    <2> QED
        BY <2>2, <2>3 DEF Log, ArmsTrue
<1>2. GateTimes'
    BY DEF Log, GateTimes
<1>3. SimulatedInTime'
    BY DEF Log, SimulatedInTime, At, Digest
<1> QED
    BY <1>1, <1>2, <1>3 DEF Log

-----------------------------------------------------------------------------
(* Boot and restart. *)

\* What boot takes from the store.
LEMMA RestoredIs ==
    ASSUME Shape, Books, NEW s \in Servers
    PROVE  /\ Entries(RestoredAccounts(s))
           /\ DOMAIN RestoredAccounts(s) \subseteq DOMAIN rows
           /\ ~mixed => AllEnforced(contracts[url[s]], RestoredAccounts(s))
<1>1. CASE RowsAreOurs(s)
    <2>1. RestoredAccounts(s) = [a \in DOMAIN rows |-> LoadedRow(a)]
        BY <1>1 DEF RestoredAccounts
    <2>2. Entries(RestoredAccounts(s))
        <3> SUFFICES ASSUME NEW a \in DOMAIN rows PROVE Entry(LoadedRow(a))
            BY <2>1 DEF Entries
        <3>1. LoadedRow(a).sessions = rows[a].sessions /\ LoadedRow(a).current = rows[a].current
              /\ LoadedRow(a).url = meta
            BY DEF LoadedRow
        <3>2. Sane(rows[a]) /\ meta \in Chains \cup {None}
            BY DEF Shape
        <3>3. Sane(LoadedRow(a))
            BY <3>1, <3>2 DEF Sane
        <3>4. LoadedRow(a) = [sessions |-> LoadedRow(a).sessions, current |-> LoadedRow(a).current,
                              url |-> LoadedRow(a).url]
            BY DEF LoadedRow
        <3> QED
            BY <3>1, <3>2, <3>3, <3>4 DEF Entry
    <2>3. ASSUME ~mixed, NEW a \in DOMAIN rows
          PROVE  Enforced(contracts[url[s]], a, RestoredAccounts(s)[a].sessions)
        <3>1. meta # None /\ AllEnforced(contracts[meta], rows)
            BY <2>3 DEF Books, StoreEnforced
        <3>2. meta = url[s]
            BY <1>1, <3>1 DEF RowsAreOurs
        <3>3. RestoredAccounts(s)[a].sessions = rows[a].sessions
            BY <2>1 DEF LoadedRow
        <3> QED
            BY <3>1, <3>2, <3>3 DEF AllEnforced
    <2> QED
        BY <2>1, <2>2, <2>3 DEF AllEnforced
<1>2. CASE ~RowsAreOurs(s)
    <2>1. DOMAIN RestoredAccounts(s) = {}
        BY <1>2 DEF RestoredAccounts
    <2> QED
        BY <2>1 DEF Entries, AllEnforced
<1> QED
    BY <1>1, <1>2

\* bootChainEnv: a process takes what the store has, if that is of its chain.
LEMMA BootKeeps ==
    ASSUME GateAssumption, IInv, NEW s \in Servers, Boot(s)
    PROVE  IInv'
<1> DEFINE restored == RestoredAccounts(s)
<1> USE DEF IInv, World
<1>1. /\ ~up[s] /\ up' = [up EXCEPT ![s] = TRUE]
      /\ armed' = [armed EXCEPT ![s] = arms]
      /\ accounts' = [accounts EXCEPT ![s] = restored]
      /\ UNCHANGED <<now, url, job, store, contracts, file, history, bounds>>
    BY DEF Boot, RestoredLog
<1>2. /\ Entries(restored) /\ DOMAIN restored \subseteq DOMAIN rows
      /\ ~mixed => AllEnforced(contracts[url[s]], restored)
    BY RestoredIs
<1> HIDE DEF restored
<1>3. accounts'[s] = restored /\ \A t \in Servers : t # s => accounts'[t] = accounts[t]
    BY <1>1 DEF Shape
<1>4. Within(context'[s], restored) /\ DOMAIN context' = Servers
      /\ \A t \in Servers : t # s => context'[t] = context[t]
    <2>1. CASE \E a \in DOMAIN restored :
                  context' = [context EXCEPT ![s] = [account |-> a, session |-> restored[a].current]]
        BY <1>2, <2>1 DEF Shape, Within, Entries, Entry, Sane
    <2>2. CASE context' = context
        <3>1. context[s] = NoContext
            BY <1>1 DEF DownIsBlank
        <3> QED
            BY <2>2, <3>1 DEF Shape, Within, NoContext
    <2> QED
        BY <2>1, <2>2 DEF Boot, restored
<1>5. Shape'
    <2>1. up' \in [Servers -> BOOLEAN]
        BY <1>1 DEF Shape
    <2>2. DOMAIN accounts' = Servers /\ DOMAIN armed' = Servers
        BY <1>1 DEF Shape
    <2>3. \A t \in Servers : Entries(accounts'[t])
        BY <1>2, <1>3 DEF Shape
    <2> QED
        BY <1>1, <1>4, <2>1, <2>2, <2>3 DEF Shape, store
<1>6. Placed'
    BY <1>3, <1>4 DEF Placed
<1>7. DownIsBlank'
    BY <1>1, <1>3, <1>4 DEF DownIsBlank, Shape
<1>8. CacheEnforced'
    BY <1>1, <1>2, <1>3 DEF CacheEnforced, history
<1>9. SetupsStand'
    <2> SUFFICES ASSUME NEW x \in Slots
                 PROVE  Stands(job[x], accounts'[Of(x)], contracts[url[Of(x)]], ~mixed)
        BY <1>1 DEF SetupsStand, history
    <2>1. CASE Of(x) = s
        <3>1. job[x].stage = "free"
            BY <1>1, <2>1 DEF DownIsBlank
        <3> QED
            BY <3>1 DEF Stands
    <2>2. CASE Of(x) # s
        <3>1. accounts'[Of(x)] = accounts[Of(x)]
            BY <1>3, <2>2, ServerOf
        <3> QED
            BY <3>1 DEF SetupsStand
    <2> QED
        BY <2>1, <2>2
<1>10. Books'
    BY <1>1, GrownIsReflexive, BooksStay DEF store, history
<1>11. Log'
    <2>1. \A t \in Servers : \A a \in DOMAIN armed'[t] :
              \/ a \in DOMAIN armed[t] /\ armed'[t][a] = armed[t][a]
              \/ a \in DOMAIN arms /\ armed'[t][a] = arms[a]
        BY <1>1 DEF Shape
    <2>2. now' \in Nat /\ now' >= now
        BY <1>1 DEF Shape
    <2>3. job' = job /\ UNCHANGED <<simulatedAt, arms>>
        BY <1>1 DEF store, history
    <2> QED
        BY <2>1, <2>2, <2>3, LogStays
<1> QED
    BY <1>5, <1>6, <1>7, <1>8, <1>9, <1>10, <1>11

\* A process that ends forgets its accounts and serves no call.
LEMMA RestartKeeps ==
    ASSUME GateAssumption, IInv, NEW s \in Servers, NEW u \in Chains, Restart(s, u)
    PROVE  IInv'
<1> USE DEF IInv, World
<1>1. /\ url' = [url EXCEPT ![s] = u] /\ up' = [up EXCEPT ![s] = FALSE]
      /\ accounts' = [accounts EXCEPT ![s] = <<>>] /\ context' = [context EXCEPT ![s] = NoContext]
      /\ armed' = [armed EXCEPT ![s] = <<>>]
      /\ job' = [x \in Slots |-> IF Of(x) = s THEN NoJob ELSE job[x]]
      /\ UNCHANGED <<now, store, contracts, file, history>>
    BY DEF Restart
<1>2. /\ accounts'[s] = <<>> /\ context'[s] = NoContext /\ armed'[s] = <<>>
      /\ \A t \in Servers : t # s => /\ accounts'[t] = accounts[t] /\ context'[t] = context[t]
                                     /\ armed'[t] = armed[t] /\ url'[t] = url[t] /\ up'[t] = up[t]
    BY <1>1 DEF Shape
<1>3. \A x \in Slots : (Of(x) = s => job'[x] = NoJob) /\ (Of(x) # s => job'[x] = job[x])
    BY <1>1
<1>4. Shape'
    <2>1. url' \in [Servers -> Chains] /\ up' \in [Servers -> BOOLEAN]
        BY <1>1 DEF Shape
    <2>2. DOMAIN accounts' = Servers /\ DOMAIN armed' = Servers /\ DOMAIN context' = Servers
          /\ DOMAIN job' = Slots
        BY <1>1 DEF Shape
    <2>3. \A t \in Servers : Entries(accounts'[t])
        BY <1>2 DEF Shape, Entries
    <2>4. \A x \in Slots : Note(job'[x])
        BY <1>3, BlankNote DEF Shape
    <2> QED
        BY <1>1, <2>1, <2>2, <2>3, <2>4 DEF Shape, store
<1>5. Placed'
    BY <1>2 DEF Placed, Within, NoContext
<1>6. DownIsBlank'
    BY <1>2, <1>3, BlankNote DEF DownIsBlank
<1>7. CacheEnforced'
    BY <1>1, <1>2 DEF CacheEnforced, history, AllEnforced
<1>8. SetupsStand'
    <2> SUFFICES ASSUME NEW x \in Slots
                 PROVE  Stands(job'[x], accounts'[Of(x)], contracts[url'[Of(x)]], ~mixed)
        BY <1>1 DEF SetupsStand, history
    <2>1. CASE Of(x) = s
        BY <1>3, <2>1, BlankNote DEF Stands
    <2>2. CASE Of(x) # s
        <3>1. accounts'[Of(x)] = accounts[Of(x)] /\ url'[Of(x)] = url[Of(x)] /\ job'[x] = job[x]
            BY <1>2, <1>3, <2>2, ServerOf
        <3> QED
            BY <3>1 DEF SetupsStand
    <2> QED
        BY <2>1, <2>2
<1>9. Books'
    BY <1>1, GrownIsReflexive, BooksStay DEF store, history
<1>10. Log'
    <2>1. \A t \in Servers : \A a \in DOMAIN armed'[t] : a \in DOMAIN armed[t] /\ armed'[t][a] = armed[t][a]
        BY <1>2
    <2>2. now' \in Nat /\ now' >= now
        BY <1>1 DEF Shape
    <2>3. UNCHANGED <<simulatedAt, arms>>
        BY <1>1 DEF store, history
    <2>4. \A x \in Slots : job'[x].stage = "relaying" => job'[x] = job[x]
        BY <1>3, BlankNote
    <2> QED
        BY <2>1, <2>2, <2>3, <2>4, LogStays
<1> QED
    BY <1>4, <1>5, <1>6, <1>7, <1>8, <1>9, <1>10

-----------------------------------------------------------------------------
(* Steps that change only the notes of a call. *)

\* A call goes on, with notes that hold, or ends.
LEMMA NotesKeep ==
    ASSUME GateAssumption, IInv, NEW x \in Slots, NEW n, up[Of(x)], Continues(x, n), Note(n),
           UNCHANGED <<now, url, memory, store, contracts, file, history>>,
           Stands(n, accounts[Of(x)], contracts[url[Of(x)]], ~mixed),
           n.stage # "relaying"
    PROVE  IInv'
<1> USE DEF IInv, World
<1>1. DOMAIN job' = Slots /\ job'[x] = n /\ \A y \in Slots : y # x => job'[y] = job[y]
    BY JobIs
<1>2. UNCHANGED <<now, url, up, accounts, context, armed, meta, rows, arms, contracts, file,
                  simulatedAt, acknowledged, mixed>>
    BY DEF memory, store, history
<1>3. Of(x) \in Servers
    BY ServerOf
<1>4. World'
    <2>1. Acts(x)
        BY <1>1, <1>2, GrownIsReflexive DEF Acts, Shape
    <2>2. Entries(accounts'[Of(x)]) /\ Within(context'[Of(x)], accounts'[Of(x)])
        BY <1>2, <1>3 DEF Shape, Placed
    <2>3. ~mixed' => AllEnforced(contracts'[url[Of(x)]], accounts'[Of(x)])
        BY <1>2, <1>3 DEF CacheEnforced
    <2>4. Stands(job'[x], accounts'[Of(x)], contracts'[url[Of(x)]], ~mixed')
        BY <1>1, <1>2 DEF Stands
    <2>5. meta' \in Chains \cup {None} /\ \A a \in DOMAIN rows' : Sane(rows'[a])
        BY <1>2 DEF Shape
    <2>6. Note(job'[x]) /\ accounts' = accounts /\ contracts' = contracts
        BY <1>1, <1>2
    <2> HIDE DEF IInv
    <2>7. World
        BY DEF IInv
    <2> QED
        BY <2>1, <2>2, <2>3, <2>4, <2>5, <2>6, <2>7, ActionKeepsWorld
<1>5. Books'
    BY <1>2, GrownIsReflexive, BooksStay
<1>6. Log'
    <2>1. now' \in Nat /\ now' >= now
        BY <1>2 DEF Shape
    <2>2. \A y \in Slots : job'[y].stage = "relaying" => job'[y] = job[y]
        BY <1>1
    <2> QED
        BY <1>2, <2>1, <2>2, LogStays
<1> QED
    BY <1>4, <1>5, <1>6

\* A call that ends changes nothing else.
LEMMA EndsKeep ==
    ASSUME GateAssumption, IInv, NEW x \in Slots, up[Of(x)], Ends(x),
           UNCHANGED <<now, url, memory, store, contracts, file, history>>
    PROVE  IInv'
<1>1. Stands(NoJob, accounts[Of(x)], contracts[url[Of(x)]], ~mixed) /\ NoJob.stage # "relaying"
    BY BlankNote DEF Stands
<1> QED
    BY <1>1, BlankNote, NotesKeep DEF Ends

-----------------------------------------------------------------------------
(* Setup. *)

\* An entry with one more session, now its current one.
LEMMA EntryWith ==
    ASSUME NEW e, Entry(e), NEW k, NEW config
    PROVE  LET filled == [e EXCEPT !.sessions = With(@, k, config), !.current = k]
           IN  Entry(filled) /\ filled.sessions = With(e.sessions, k, config) /\ k \in DOMAIN filled.sessions
<1> DEFINE filled == [e EXCEPT !.sessions = With(@, k, config), !.current = k]
<1>0. e \in [sessions : {e.sessions}, current : {e.current}, url : {e.url}]
    BY DEF Entry
<1>1. filled \in [sessions : {With(e.sessions, k, config)}, current : {k}, url : {e.url}]
    BY ONLY <1>0
<1>2. k \in DOMAIN With(e.sessions, k, config)
    BY DEF With, Over
<1> HIDE DEF filled
<1>3. filled.sessions = With(e.sessions, k, config) /\ filled.current = k /\ filled.url = e.url
      /\ filled = [sessions |-> filled.sessions, current |-> filled.current, url |-> filled.url]
    BY <1>1
<1>4. Entry(filled)
    BY <1>2, <1>3 DEF Entry, Sane
<1> QED
    BY <1>2, <1>3, <1>4 DEF filled

\* What follows the last await of a setup.
LEMMA FinishSetupKeeps ==
    ASSUME GateAssumption, IInv, NEW x \in Slots, NEW a, NEW r, up[Of(x)],
           a \in DOMAIN accounts[Of(x)],
           ~mixed => Enforced(contracts[url[Of(x)]], a, Session(r.session, r.config)),
           FinishSetup(x, a, r)
    PROVE  IInv'
<1> USE DEF IInv, World
<1> DEFINE s == Of(x)
           entry == [accounts[s][a] EXCEPT !.sessions = With(@, r.session, r.config),
                                           !.current = r.session]
           known == With(accounts[s], a, entry)
<1>1. /\ accounts' = [accounts EXCEPT ![s] = known]
      /\ context' = [context EXCEPT ![s] = [account |-> a, session |-> r.session]]
      /\ Ends(x)
      /\ UNCHANGED <<now, url, up, armed, arms, contracts, file, simulatedAt>>
    BY DEF FinishSetup
<1>2. PICK done \in BOOLEAN :
          /\ Persist(s, accounts'[s], done)
          /\ acknowledged' = IF done THEN acknowledged \cup {<<a, r.session, r.config>>}
                             ELSE acknowledged
    BY DEF FinishSetup
<1>3. s \in Servers /\ url[s] \in Chains
    BY ServerOf DEF Shape
<1>4. Entry(accounts[s][a])
    BY <1>3 DEF Shape, Entries
<1>5. Entry(entry) /\ entry.sessions = With(accounts[s][a].sessions, r.session, r.config)
      /\ r.session \in DOMAIN entry.sessions
    BY <1>4, EntryWith
<1> HIDE DEF entry
<1>6. DOMAIN known = {a} \cup DOMAIN accounts[s] /\ known[a] = entry
      /\ \A b \in DOMAIN accounts[s] : b # a => known[b] = accounts[s][b]
    BY ONLY DEF With, Over
<1> HIDE DEF known
<1>7. Entries(known)
    <2>1. Entries(accounts[s])
        BY <1>3 DEF Shape
    <2> QED
        BY <1>5, <1>6, <2>1 DEF Entries
<1>8. ~mixed => AllEnforced(contracts[url[s]], known)
    <2> SUFFICES ASSUME ~mixed, NEW b \in DOMAIN known
                 PROVE  Enforced(contracts[url[s]], b, known[b].sessions)
        BY DEF AllEnforced
    <2>1. AllEnforced(contracts[url[s]], accounts[s])
        BY <1>3 DEF CacheEnforced
    <2>2. CASE b = a
        <3>1. Enforced(contracts[url[s]], a, accounts[s][a].sessions)
            BY <2>1 DEF AllEnforced
        <3>2. Enforced(contracts[url[s]], a, Session(r.session, r.config))
            OBVIOUS
        <3>3. Enforced(contracts[url[s]], a, With(accounts[s][a].sessions, r.session, r.config))
            BY <3>1, <3>2, WithEnforced
        <3> QED
            BY <1>5, <1>6, <2>2, <3>3
    <2>3. CASE b # a
        BY <1>6, <2>1, <2>3 DEF AllEnforced
    <2> QED
        BY <2>2, <2>3
<1>9. accounts'[s] = known /\ DOMAIN accounts' = Servers
      /\ \A t \in Servers : t # s => accounts'[t] = accounts[t]
    BY <1>1, <1>3 DEF Shape
<1>10. context'[s] = [account |-> a, session |-> r.session] /\ DOMAIN context' = Servers
       /\ \A t \in Servers : t # s => context'[t] = context[t]
    BY <1>1, <1>3 DEF Shape
<1>11. DOMAIN job' = Slots /\ job'[x] = NoJob /\ \A y \in Slots : y # x => job'[y] = job[y]
    BY <1>1, JobIs DEF Ends
<1>12. /\ meta' \in Chains \cup {None}
       /\ \A b \in DOMAIN rows' : Sane(rows'[b])
       /\ ~mixed' => ~mixed
       /\ StoreEnforced'
       /\ \A e \in acknowledged :
              /\ e[1] \in DOMAIN rows' /\ e[2] \in DOMAIN rows'[e[1]].sessions
              /\ ~mixed' => rows'[e[1]].sessions[e[2]] = e[3]
       /\ done => \A b \in DOMAIN known :
              /\ b \in DOMAIN rows'
              /\ \A k \in DOMAIN known[b].sessions :
                     /\ k \in DOMAIN rows'[b].sessions
                     /\ rows'[b].sessions[k] = known[b].sessions[k]
    <2>1. Persist(s, known, done) /\ contracts' = contracts
        BY <1>1, <1>2, <1>9
    <2>2. StoreEnforced /\ AcknowledgedSurvives /\ Shape
        BY DEF Books
    <2> HIDE DEF IInv, s
    <2> QED
        BY <1>3, <1>7, <1>8, <2>1, <2>2, PersistKeeps
<1>13. World'
    <2>1. Acts(x)
        BY <1>1, <1>9, <1>10, <1>11, <1>12, GrownIsReflexive DEF Acts, Shape
    <2>2. Entries(accounts'[Of(x)])
        BY <1>7, <1>9
    <2>3. Within(context'[Of(x)], accounts'[Of(x)])
        BY <1>5, <1>6, <1>9, <1>10 DEF Within
    <2>4. ~mixed' => AllEnforced(contracts'[url[Of(x)]], accounts'[Of(x)])
        BY <1>1, <1>8, <1>9, <1>12
    <2>5. Stands(job'[x], accounts'[Of(x)], contracts'[url[Of(x)]], ~mixed')
        BY <1>11, BlankNote DEF Stands
    <2>6. Note(job'[x])
        BY <1>11, BlankNote
    <2>7. DOMAIN accounts'[Of(x)] = DOMAIN accounts[Of(x)] /\ contracts' = contracts
        BY <1>1, <1>6, <1>9
    <2>8. World
        OBVIOUS
    <2> HIDE DEF IInv, World
    <2> QED
        BY <1>12, <2>1, <2>2, <2>3, <2>4, <2>5, <2>6, <2>7, <2>8, ActionKeepsWorld
<1>14. Books'
    <2>1. AcknowledgedSurvives'
        <3> SUFFICES ASSUME NEW e \in acknowledged'
                     PROVE  /\ e[1] \in DOMAIN rows' /\ e[2] \in DOMAIN rows'[e[1]].sessions
                            /\ ~mixed' => rows'[e[1]].sessions[e[2]] = e[3]
            BY DEF AcknowledgedSurvives
        <3>1. CASE e \in acknowledged
            BY <1>12, <3>1
        <3>2. CASE done /\ e = <<a, r.session, r.config>>
            <4>1. e[1] = a /\ e[2] = r.session /\ e[3] = r.config
                BY <3>2
            <4>2. known[a].sessions[r.session] = r.config /\ r.session \in DOMAIN known[a].sessions
                <5>1. known[a].sessions = With(accounts[s][a].sessions, r.session, r.config)
                    BY <1>5, <1>6
                <5> QED
                    BY ONLY <5>1 DEF With, Over
            <4>3. a \in DOMAIN known
                BY <1>6
            <4> QED
                BY <1>12, <3>2, <4>1, <4>2, <4>3
        <3> QED
            BY <1>2, <3>1, <3>2
    <2> QED
        BY <1>12, <2>1 DEF Books
<1>15. Log'
    <2>1. now' \in Nat /\ now' >= now
        BY <1>1 DEF Shape
    <2>2. \A y \in Slots : job'[y].stage = "relaying" => job'[y] = job[y]
        BY <1>11, BlankNote
    <2> QED
        BY <1>1, <2>1, <2>2, LogStays
<1> QED
    BY <1>13, <1>14, <1>15

\* smart_account_setup up to its first await, or to its end if there is nothing to do.
LEMMA StartSetupKeeps ==
    ASSUME GateAssumption, IInv, NEW x \in Slots, NEW r \in Requests, StartSetup(x, r)
    PROVE  IInv'
<1> USE DEF IInv, World
<1> DEFINE s == Of(x)
           begun == [NoJob EXCEPT !.session = r.session, !.config = r.config]
<1>0. begun \in [stage : {"free"}, account : {None}, session : {r.session}, config : {r.config},
                 intent : {None}, policy : {None}, at : {0}]
    <2>1. NoJob \in [stage : {"free"}, account : {None}, session : {None}, config : {None},
                     intent : {None}, policy : {None}, at : {0}]
        BY DEF NoJob
    <2> QED
        BY ONLY <2>1
<1> HIDE DEF begun
<1>1. up[s] /\ s \in Servers
    BY ServerOf DEF StartSetup, Begins
<1>2. CASE /\ accounts[s] = <<>>
           /\ Continues(x, [begun EXCEPT !.stage = "deploying"])
           /\ UNCHANGED <<now, url, memory, store, contracts, file, history, others>>
    <2> DEFINE n == [begun EXCEPT !.stage = "deploying"]
    <2>1. n.stage = "deploying" /\ Note(n)
        <3>1. n \in [stage : {"deploying"}, account : {None}, session : {r.session}, config : {r.config},
                     intent : {None}, policy : {None}, at : {0}]
            BY ONLY <1>0
        <3> HIDE DEF n
        <3> QED
            BY ONLY <3>1 DEF Note, Stages
    <2>2. Continues(x, n) /\ UNCHANGED <<now, url, memory, store, contracts, file, history>>
        BY <1>2
    <2> HIDE DEF n
    <2>3. Stands(n, accounts[s], contracts[url[s]], ~mixed)
        BY <1>2, <2>1 DEF Stands
    <2> QED
        BY <1>1, <2>1, <2>2, <2>3, NotesKeep
<1>3. ASSUME NEW a \in DOMAIN accounts[s],
             Continues(x, [begun EXCEPT !.stage = "registering", !.account = a]),
             UNCHANGED <<now, url, memory, store, contracts, file, history, others>>
      PROVE  IInv'
    <2> DEFINE n == [begun EXCEPT !.stage = "registering", !.account = a]
    <2>1. n.stage = "registering" /\ n.account = a /\ Note(n)
        <3>1. n \in [stage : {"registering"}, account : {a}, session : {r.session}, config : {r.config},
                     intent : {None}, policy : {None}, at : {0}]
            BY ONLY <1>0
        <3> HIDE DEF n
        <3> QED
            BY ONLY <3>1 DEF Note, Stages
    <2>2. Continues(x, n) /\ UNCHANGED <<now, url, memory, store, contracts, file, history>>
        BY <1>3
    <2> HIDE DEF n
    <2>3. Stands(n, accounts[s], contracts[url[s]], ~mixed)
        BY <2>1 DEF Stands
    <2> QED
        BY <1>1, <2>1, <2>2, <2>3, NotesKeep
<1>4. ASSUME NEW a \in DOMAIN accounts[s], r.session \in DOMAIN accounts[s][a].sessions,
             SameSessionConfig(accounts[s][a].sessions[r.session], r.config), FinishSetup(x, a, r)
      PROVE  IInv'
    <2>1. ASSUME ~mixed PROVE Enforced(contracts[url[s]], a, Session(r.session, r.config))
        <3>1. Enforced(contracts[url[s]], a, accounts[s][a].sessions)
            BY <1>1, <2>1 DEF CacheEnforced, AllEnforced
        <3> QED
            BY <1>4, <3>1 DEF Enforced, Session, SameSessionConfig
    <2> QED
        BY <1>1, <1>4, <2>1, FinishSetupKeeps
<1> QED
    BY <1>2, <1>3, <1>4 DEF StartSetup, begun

\* smart_account_setup once the session is registered.
LEMMA EndSetupKeeps ==
    ASSUME GateAssumption, IInv, NEW x \in Slots, EndSetup(x)
    PROVE  IInv'
<1> DEFINE r == [session |-> job[x].session, config |-> job[x].config]
<1>1. job[x].stage = "registered" /\ FinishSetup(x, job[x].account, r)
    BY DEF EndSetup, At
<1>2. up[Of(x)]
    BY <1>1, BusyIsUp DEF IInv, World
<1>3. Stands(job[x], accounts[Of(x)], contracts[url[Of(x)]], ~mixed)
    BY DEF IInv, World, SetupsStand
<1>4. r.session = job[x].session /\ r.config = job[x].config
    OBVIOUS
<1> HIDE DEF r
<1>5. job[x].account \in DOMAIN accounts[Of(x)]
    BY <1>1, <1>3 DEF Stands
<1>6. ~mixed => Enforced(contracts[url[Of(x)]], job[x].account, Session(r.session, r.config))
    BY <1>1, <1>3, <1>4 DEF Stands
<1> QED
    BY <1>1, <1>2, <1>5, <1>6, FinishSetupKeeps

\* A deployment adds a contract that no entry is for.
LEMMA DeployKeeps ==
    ASSUME GateAssumption, IInv, NEW x \in Slots, Deploy(x)
    PROVE  IInv'
<1> USE DEF IInv, World
<1> DEFINE s == Of(x)
           c == url[s]
<1>1. /\ job[x].stage = "deploying"
      /\ UNCHANGED <<now, url, up, context, armed, store, file, history, bounds>>
    BY DEF Deploy, At
<1>2. up[s] /\ s \in Servers /\ c \in Chains
    BY <1>1, BusyIsUp, ServerOf DEF Shape
<1>3. CASE Ends(x) /\ UNCHANGED <<contracts, accounts>>
    BY <1>1, <1>2, <1>3, EndsKeep DEF memory
<1>5. ASSUME NEW a \in Addresses, DeploySmartAccount(c, a), Ends(x), UNCHANGED accounts
      PROVE  IInv'
    <2> DEFINE deployed == With(contracts[c], a, <<>>)
    <2>1. a \notin DOMAIN contracts[c] /\ contracts' = [contracts EXCEPT ![c] = deployed]
        BY <1>5 DEF DeploySmartAccount
    <2>2. DOMAIN deployed = {a} \cup DOMAIN contracts[c]
          /\ \A b \in DOMAIN contracts[c] : b # a => deployed[b] = contracts[c][b]
        BY ONLY DEF With, Over
    <2> HIDE DEF deployed
    <2>3. DOMAIN contracts' = Chains /\ contracts'[c] = deployed
          /\ \A e \in Chains : e # c => contracts'[e] = contracts[e]
        BY <1>2, <2>1 DEF Shape
    <2>4. \A e \in Chains : Grown(contracts[e], contracts'[e])
        BY <2>1, <2>2, <2>3 DEF Grown
    <2>5. DOMAIN job' = Slots /\ job'[x] = NoJob /\ \A y \in Slots : y # x => job'[y] = job[y]
        BY <1>5, JobIs DEF Ends
    <2>6. UNCHANGED <<now, url, up, accounts, context, armed, meta, rows, arms, file,
                      simulatedAt, acknowledged, mixed>>
        BY <1>1, <1>5 DEF store, history
    <2>7. World'
        <3>1. Acts(x)
            BY <2>3, <2>4, <2>5, <2>6 DEF Acts, Shape
        <3>2. Entries(accounts'[Of(x)]) /\ Within(context'[Of(x)], accounts'[Of(x)])
            BY <1>2, <2>6 DEF Shape, Placed
        <3>3. ~mixed' => AllEnforced(contracts'[url[Of(x)]], accounts'[Of(x)])
            <4>1. Grown(contracts[c], contracts'[c]) /\ (~mixed => AllEnforced(contracts[c], accounts[s]))
                BY <1>2, <2>4 DEF CacheEnforced
            <4> QED
                BY <2>6, <4>1, AllEnforcedStays
        <3>4. Stands(job'[x], accounts'[Of(x)], contracts'[url[Of(x)]], ~mixed')
            BY <2>5, BlankNote DEF Stands
        <3>5. meta' \in Chains \cup {None} /\ \A b \in DOMAIN rows' : Sane(rows'[b])
            BY <2>6 DEF Shape
        <3>6. Note(job'[x]) /\ World /\ up[Of(x)]
            BY <1>2, <2>5, BlankNote
        <3>7. DOMAIN contracts[url[Of(x)]] \subseteq DOMAIN contracts'[url[Of(x)]] /\ accounts' = accounts
            BY <2>2, <2>3, <2>6
        <3> HIDE DEF IInv, World, s, c
        <3> QED
            BY <3>1, <3>2, <3>3, <3>4, <3>5, <3>6, <3>7, ActionKeepsWorld
    <2>8. Books'
        BY <2>4, <2>6, BooksStay
    <2>9. Log'
        <3>1. now' \in Nat /\ now' >= now /\ UNCHANGED <<simulatedAt, arms, armed>>
            BY <2>6 DEF Shape
        <3>2. \A y \in Slots : job'[y].stage = "relaying" => job'[y] = job[y]
            BY <2>5, BlankNote
        <3> QED
            BY <3>1, <3>2, LogStays
    <2> QED
        BY <2>7, <2>8, <2>9
<1>4. ASSUME NEW a \in Addresses, DeploySmartAccount(c, a),
             accounts' = [accounts EXCEPT ![s] =
                             With(@, a, [sessions |-> <<>>, current |-> None, url |-> c])],
             Continues(x, [job[x] EXCEPT !.stage = "registering", !.account = a])
      PROVE  IInv'
    <2> DEFINE entry == [sessions |-> <<>>, current |-> None, url |-> c]
               known == With(accounts[s], a, entry)
               deployed == With(contracts[c], a, <<>>)
               n == [job[x] EXCEPT !.stage = "registering", !.account = a]
    <2>1. a \notin DOMAIN contracts[c] /\ contracts' = [contracts EXCEPT ![c] = deployed]
        BY <1>4 DEF DeploySmartAccount
    <2>2. accounts' = [accounts EXCEPT ![s] = known] /\ Continues(x, n)
        BY <1>4
    <2>3. Entry(entry) /\ DOMAIN entry.sessions = {}
        BY <1>2 DEF Entry, Sane
    <2>4. Note(n) /\ n.stage = "registering" /\ n.account = a
        <3>1. job[x] \in [stage : {job[x].stage}, account : {job[x].account}, session : {job[x].session},
                          config : {job[x].config}, intent : {job[x].intent}, policy : {job[x].policy},
                          at : {job[x].at}]
            BY DEF Shape, Note
        <3>2. n \in [stage : {"registering"}, account : {a}, session : {job[x].session},
                     config : {job[x].config}, intent : {job[x].intent}, policy : {job[x].policy},
                     at : {job[x].at}]
            BY ONLY <3>1
        <3> HIDE DEF n
        <3> QED
            BY ONLY <3>2 DEF Note, Stages
    <2> HIDE DEF n, entry
    <2>5. DOMAIN known = {a} \cup DOMAIN accounts[s] /\ known[a] = entry
          /\ \A b \in DOMAIN accounts[s] : b # a => known[b] = accounts[s][b]
        BY ONLY DEF With, Over
    <2>6. DOMAIN deployed = {a} \cup DOMAIN contracts[c]
          /\ \A b \in DOMAIN contracts[c] : b # a => deployed[b] = contracts[c][b]
        BY ONLY DEF With, Over
    <2> HIDE DEF known, deployed
    <2>7. DOMAIN contracts' = Chains /\ contracts'[c] = deployed
          /\ \A d \in Chains : d # c => contracts'[d] = contracts[d]
        BY <1>2, <2>1 DEF Shape
    <2>8. \A d \in Chains : Grown(contracts[d], contracts'[d])
        BY <2>1, <2>6, <2>7 DEF Grown
    <2>9. DOMAIN accounts' = Servers /\ accounts'[s] = known
          /\ \A t \in Servers : t # s => accounts'[t] = accounts[t]
        BY <1>2, <2>2 DEF Shape
    <2>10. DOMAIN job' = Slots /\ job'[x] = n /\ \A y \in Slots : y # x => job'[y] = job[y]
        BY <2>2, JobIs
    <2>11. DOMAIN accounts[s] \subseteq DOMAIN contracts[c]
        <3>1. Stands(job[x], accounts[s], contracts[c], ~mixed)
            BY DEF SetupsStand
        <3> QED
            BY <1>1, <3>1 DEF Stands
    <2>12. World'
        <3>1. Acts(x)
            BY <1>1, <2>7, <2>8, <2>9, <2>10 DEF Acts, Shape, history
        <3>2. Entries(accounts'[Of(x)])
            BY <1>2, <2>3, <2>5, <2>9 DEF Shape, Entries
        <3>3. Within(context'[Of(x)], accounts'[Of(x)])
            BY <1>1, <1>2, <2>1, <2>5, <2>9, <2>11 DEF Placed, Within
        <3>4. ~mixed' => AllEnforced(contracts'[url[Of(x)]], accounts'[Of(x)])
            <4> SUFFICES ASSUME ~mixed', NEW b \in DOMAIN known
                         PROVE  Enforced(contracts'[c], b, known[b].sessions)
                BY <2>9 DEF AllEnforced
            <4>1. AllEnforced(contracts[c], accounts[s]) /\ Grown(contracts[c], contracts'[c])
                BY <1>1, <1>2, <2>8 DEF CacheEnforced, history
            <4>2. CASE b = a
                BY <2>3, <2>5, <2>6, <2>7, <4>2 DEF Enforced
            <4>3. CASE b # a
                <5>1. b \in DOMAIN accounts[s] /\ known[b] = accounts[s][b]
                    BY <2>5, <4>3
                <5>2. Enforced(contracts[c], b, accounts[s][b].sessions)
                    BY <4>1, <5>1 DEF AllEnforced
                <5> QED
                    BY <4>1, <5>1, <5>2, EnforcedStays
            <4> QED
                BY <4>2, <4>3
        <3>5. Stands(job'[x], accounts'[Of(x)], contracts'[url[Of(x)]], ~mixed')
            BY <2>4, <2>5, <2>9, <2>10 DEF Stands
        <3>6. DOMAIN accounts[Of(x)] \subseteq DOMAIN accounts'[Of(x)]
              /\ DOMAIN accounts'[Of(x)] \subseteq DOMAIN contracts'[url[Of(x)]]
            BY <2>5, <2>6, <2>7, <2>9, <2>11
        <3>7. meta' \in Chains \cup {None} /\ \A b \in DOMAIN rows' : Sane(rows'[b])
            BY <1>1 DEF Shape, store
        <3>8. Note(job'[x]) /\ World /\ up[Of(x)]
            BY <1>2, <2>4, <2>10
        <3> HIDE DEF IInv, World, s, c
        <3> QED
            BY <3>1, <3>2, <3>3, <3>4, <3>5, <3>6, <3>7, <3>8, ActionKeepsWorld
    <2>13. Books'
        BY <1>1, <2>8, BooksStay DEF store, history
    <2>14. Log'
        <3>1. now' \in Nat /\ now' >= now /\ UNCHANGED <<simulatedAt, arms, armed>>
            BY <1>1 DEF Shape, store, history
        <3>2. \A y \in Slots : job'[y].stage = "relaying" => job'[y] = job[y]
            BY <2>4, <2>10
        <3> QED
            BY <3>1, <3>2, LogStays
    <2> QED
        BY <2>12, <2>13, <2>14
<1> QED
    BY <1>3, <1>4, <1>5 DEF Deploy

\* A registration adds a session to a contract.
LEMMA RegisterKeeps ==
    ASSUME GateAssumption, IInv, NEW x \in Slots, Register(x)
    PROVE  IInv'
<1> USE DEF IInv, World
<1> DEFINE s == Of(x)
           c == url[s]
           a == job[x].account
           k == job[x].session
           n == [job[x] EXCEPT !.stage = "registered"]
<1>1. /\ job[x].stage = "registering"
      /\ UNCHANGED <<now, url, memory, store, file, history, bounds>>
    BY DEF Register, At
<1>2. up[s] /\ s \in Servers /\ c \in Chains
    BY <1>1, BusyIsUp, ServerOf DEF Shape
<1>3. CASE Ends(x) /\ UNCHANGED contracts
    BY <1>1, <1>2, <1>3, EndsKeep
<1>4. Note(n) /\ n.stage = "registered" /\ n.account = a /\ n.session = k /\ n.config = job[x].config
    <2>1. job[x] \in [stage : {job[x].stage}, account : {a}, session : {k},
                      config : {job[x].config}, intent : {job[x].intent}, policy : {job[x].policy},
                      at : {job[x].at}]
        BY DEF Shape, Note
    <2>2. n \in [stage : {"registered"}, account : {a}, session : {k},
                 config : {job[x].config}, intent : {job[x].intent}, policy : {job[x].policy},
                 at : {job[x].at}]
        BY ONLY <2>1
    <2> HIDE DEF n
    <2> QED
        BY ONLY <2>2 DEF Note, Stages
<1>5. ASSUME RegisterSession(c, a, k, job[x].config), NEW m, Continues(x, m), m \in {n, NoJob}
      PROVE  IInv'
    <2>1. /\ Note(m) /\ m.stage \in {"registered", "free"}
          /\ m.stage = "registered" => m.account = a /\ m.session = k /\ m.config = job[x].config
        BY <1>4, <1>5, BlankNote
    <2> HIDE DEF n
    <2>2. DOMAIN job' = Slots /\ job'[x] = m /\ \A y \in Slots : y # x => job'[y] = job[y]
        BY <1>5, JobIs
    <2>3. a \in DOMAIN accounts[s]
        <3>1. Stands(job[x], accounts[s], contracts[c], ~mixed)
            BY DEF SetupsStand
        <3> QED
            BY <1>1, <3>1 DEF Stands
    <2> HIDE DEF k
    <2>4. /\ DOMAIN contracts' = Chains
          /\ \A d \in Chains : Grown(contracts[d], contracts'[d])
          /\ DOMAIN contracts[c] = DOMAIN contracts'[c]
          /\ a \in DOMAIN contracts[c] => Enforced(contracts'[c], a, Session(k, job[x].config))
        <3>1. CASE a \notin DOMAIN contracts[c]
            BY <1>5, <3>1, GrownIsReflexive DEF RegisterSession, Shape
        <3>2. CASE a \in DOMAIN contracts[c]
            <4> DEFINE enforced == With(contracts[c][a], k, job[x].config)
            <4>1. k \notin DOMAIN contracts[c][a] /\ contracts' = [contracts EXCEPT ![c][a] = enforced]
                BY <1>5, <3>2 DEF RegisterSession, Registered
            <4>2. DOMAIN enforced = {k} \cup DOMAIN contracts[c][a] /\ enforced[k] = job[x].config
                  /\ \A o \in DOMAIN contracts[c][a] : o # k => enforced[o] = contracts[c][a][o]
                BY ONLY DEF With, Over
            <4> HIDE DEF enforced
            <4>3. /\ DOMAIN contracts' = Chains
                  /\ \A d \in Chains : d # c => contracts'[d] = contracts[d]
                  /\ contracts'[c] = [contracts[c] EXCEPT ![a] = enforced]
                BY <1>2, <4>1 DEF Shape
            <4>4. /\ DOMAIN contracts'[c] = DOMAIN contracts[c]
                  /\ \A b \in DOMAIN contracts[c] : b # a => contracts'[c][b] = contracts[c][b]
                  /\ contracts'[c][a] = enforced
                BY <3>2, <4>3
            <4>5. Grown(contracts[c], contracts'[c])
                BY <4>1, <4>2, <4>4 DEF Grown
            <4>6. \A d \in Chains : Grown(contracts[d], contracts'[d])
                BY <4>3, <4>5, GrownIsReflexive
            <4>7. Enforced(contracts'[c], a, Session(k, job[x].config))
                BY <3>2, <4>2, <4>4 DEF Enforced, Session
            <4> QED
                BY <4>3, <4>4, <4>6, <4>7
        <3> QED
            BY <3>1, <3>2
    <2>5. UNCHANGED <<now, url, up, accounts, context, armed, meta, rows, arms, file,
                      simulatedAt, acknowledged, mixed>>
        BY <1>1 DEF memory, store, history
    <2>6. ~mixed => AllEnforced(contracts[c], accounts[s])
        BY <1>2 DEF CacheEnforced
    <2>7. World'
        <3>1. Acts(x)
            BY <2>2, <2>4, <2>5 DEF Acts, Shape
        <3>2. Entries(accounts'[Of(x)]) /\ Within(context'[Of(x)], accounts'[Of(x)])
            BY <1>2, <2>5 DEF Shape, Placed
        <3>3. ~mixed' => AllEnforced(contracts'[url[Of(x)]], accounts'[Of(x)])
            <4>1. Grown(contracts[c], contracts'[c])
                BY <1>2, <2>4
            <4> QED
                BY <2>5, <2>6, <4>1, AllEnforcedStays
        <3>4. Stands(job'[x], accounts'[Of(x)], contracts'[url[Of(x)]], ~mixed')
            <4>1. ~mixed => a \in DOMAIN contracts[c]
                BY <2>3, <2>6 DEF AllEnforced, Enforced
            <4>2. /\ job'[x].stage \in {"registered", "free"}
                  /\ job'[x].stage = "registered" =>
                        job'[x].account = a /\ job'[x].session = k /\ job'[x].config = job[x].config
                BY <2>1, <2>2
            <4>3. mixed' = mixed /\ accounts' = accounts
                BY <2>5
            <4> HIDE DEF a
            <4> QED
                BY <2>3, <2>4, <4>1, <4>2, <4>3 DEF Stands
        <3>5. meta' \in Chains \cup {None} /\ \A b \in DOMAIN rows' : Sane(rows'[b])
            BY <2>5 DEF Shape
        <3>6. Note(job'[x]) /\ World /\ up[Of(x)]
            BY <1>2, <2>1, <2>2
        <3>7. accounts' = accounts /\ DOMAIN contracts[url[Of(x)]] = DOMAIN contracts'[url[Of(x)]]
            BY <2>4, <2>5
        <3> HIDE DEF IInv, World, s, c, a
        <3> QED
            BY <3>1, <3>2, <3>3, <3>4, <3>5, <3>6, <3>7, ActionKeepsWorld
    <2>8. Books'
        BY <2>4, <2>5, BooksStay
    <2>9. Log'
        <3>1. now' \in Nat /\ now' >= now /\ UNCHANGED <<simulatedAt, arms, armed>>
            BY <2>5 DEF Shape
        <3>2. \A y \in Slots : job'[y].stage = "relaying" => job'[y] = job[y]
            BY <2>1, <2>2
        <3> QED
            BY <3>1, <3>2, LogStays
    <2> QED
        BY <2>7, <2>8, <2>9
<1>6. CASE /\ RegisterSession(url[Of(x)], job[x].account, job[x].session, job[x].config)
           /\ \E ok \in BOOLEAN : AfterRegister(x, ok)
    <2>1. Continues(x, n) \/ Continues(x, NoJob)
        BY <1>6 DEF AfterRegister, Ends
    <2> HIDE DEF n
    <2> QED
        BY <1>5, <1>6, <2>1
<1>7. CASE AfterRegister(x, FALSE) /\ UNCHANGED contracts
    BY <1>3, <1>7 DEF AfterRegister
<1> QED
    BY <1>6, <1>7 DEF Register

-----------------------------------------------------------------------------
(* The tools. *)

\* An entry with another of its sessions current.
LEMMA EntrySelects ==
    ASSUME NEW e, Entry(e), NEW k \in DOMAIN e.sessions
    PROVE  Entry([e EXCEPT !.current = k]) /\ [e EXCEPT !.current = k].sessions = e.sessions
<1> DEFINE filled == [e EXCEPT !.current = k]
<1>1. e \in [sessions : {e.sessions}, current : {e.current}, url : {e.url}]
    BY DEF Entry
<1>2. filled \in [sessions : {e.sessions}, current : {k}, url : {e.url}]
    BY ONLY <1>1
<1> HIDE DEF filled
<1>3. Entry(filled) /\ filled.sessions = e.sessions
    BY <1>2 DEF Entry, Sane
<1> QED
    BY <1>3 DEF filled

\* A selection, whatever tool goes on with it.
LEMMA SelectKeeps ==
    ASSUME GateAssumption, IInv, NEW x \in Slots, NEW asked, NEW wanted, Select(x, asked, wanted),
           DOMAIN job' = Slots, \A y \in Slots : y # x => job'[y] = job[y],
           Note(job'[x]), job'[x].stage \in {"free", "preview", "execute"}
    PROVE  IInv'
<1> USE DEF IInv, World
<1> DEFINE s == Of(x)
           a == SelectedAccount(s, asked)
           k == SelectedSession(s, a, wanted)
<1>1. /\ up[s] /\ a \in DOMAIN accounts[s] /\ k \in DOMAIN accounts[s][a].sessions
      /\ accounts' = [accounts EXCEPT ![s][a].current = k]
      /\ context' = [context EXCEPT ![s] = [account |-> a, session |-> k]]
      /\ UNCHANGED <<now, url, up, armed, store, contracts, file, history, others>>
    BY DEF Select, Begins
<1>2. s \in Servers
    BY ServerOf
<1> HIDE DEF a, k
<1> DEFINE entry == [accounts[s][a] EXCEPT !.current = k]
<1>3. Entry(entry) /\ entry.sessions = accounts[s][a].sessions
    <2>1. Entry(accounts[s][a])
        BY <1>1, <1>2 DEF Shape, Entries
    <2> QED
        BY <1>1, <2>1, EntrySelects
<1>4. accounts' = [accounts EXCEPT ![s] = [accounts[s] EXCEPT ![a] = entry]]
    BY <1>1, <1>2 DEF Shape
<1> HIDE DEF entry
<1>5. /\ DOMAIN accounts' = Servers
      /\ \A t \in Servers : t # s => accounts'[t] = accounts[t]
      /\ DOMAIN accounts'[s] = DOMAIN accounts[s] /\ accounts'[s][a] = entry
      /\ \A b \in DOMAIN accounts[s] : b # a => accounts'[s][b] = accounts[s][b]
    BY <1>1, <1>2, <1>4 DEF Shape
<1>6. context'[s] = [account |-> a, session |-> k] /\ DOMAIN context' = Servers
      /\ \A t \in Servers : t # s => context'[t] = context[t]
    BY <1>1, <1>2 DEF Shape
<1>7. UNCHANGED <<now, url, up, armed, meta, rows, arms, contracts, file, simulatedAt, acknowledged, mixed>>
    BY <1>1 DEF store, history
<1>8. World'
    <2>1. Acts(x)
        BY <1>5, <1>6, <1>7, GrownIsReflexive DEF Acts, Shape
    <2>2. Entries(accounts'[Of(x)])
        BY <1>2, <1>3, <1>5 DEF Shape, Entries
    <2>3. Within(context'[Of(x)], accounts'[Of(x)])
        BY <1>1, <1>3, <1>5, <1>6 DEF Within
    <2>4. ~mixed' => AllEnforced(contracts'[url[Of(x)]], accounts'[Of(x)])
        <3> SUFFICES ASSUME ~mixed, NEW b \in DOMAIN accounts[s]
                     PROVE  Enforced(contracts[url[s]], b, accounts'[s][b].sessions)
            BY <1>5, <1>7 DEF AllEnforced
        <3>1. Enforced(contracts[url[s]], b, accounts[s][b].sessions)
            BY <1>2 DEF CacheEnforced, AllEnforced
        <3>2. accounts'[s][b].sessions = accounts[s][b].sessions
            BY <1>3, <1>5
        <3> QED
            BY <3>1, <3>2
    <2>5. Stands(job'[x], accounts'[Of(x)], contracts'[url[Of(x)]], ~mixed')
        BY DEF Stands
    <2>6. meta' \in Chains \cup {None} /\ \A b \in DOMAIN rows' : Sane(rows'[b])
        BY <1>7 DEF Shape
    <2>7. DOMAIN accounts'[Of(x)] = DOMAIN accounts[Of(x)] /\ contracts' = contracts
          /\ World /\ up[Of(x)]
        BY <1>1, <1>5, <1>7
    <2> HIDE DEF IInv, World, s
    <2> QED
        BY <2>1, <2>2, <2>3, <2>4, <2>5, <2>6, <2>7, ActionKeepsWorld
<1>9. Books'
    BY <1>7, GrownIsReflexive, BooksStay
<1>10. Log'
    <2>1. now' \in Nat /\ now' >= now
        BY <1>7 DEF Shape
    <2>2. \A y \in Slots : job'[y].stage = "relaying" => job'[y] = job[y]
        OBVIOUS
    <2> QED
        BY <1>7, <2>1, <2>2, LogStays
<1> QED
    BY <1>8, <1>9, <1>10

\* smart_account_preview and smart_account_execute up to their first await.
LEMMA BeginToolKeeps ==
    ASSUME GateAssumption, IInv, NEW x \in Slots, NEW kind \in {"preview", "execute"},
           NEW asked, NEW wanted, NEW intent, BeginTool(x, kind, asked, wanted, intent)
    PROVE  IInv'
<1> DEFINE ctx == context'[Of(x)]
           n == [NoJob EXCEPT !.stage = kind, !.intent = intent,
                              !.account = ctx.account, !.session = ctx.session]
<1>1. Select(x, asked, wanted) /\ Continues(x, n)
    BY DEF BeginTool
<1>2. Note(n) /\ n.stage = kind
    <2> HIDE DEF ctx
    <2>1. NoJob \in [stage : {"free"}, account : {None}, session : {None}, config : {None},
                     intent : {None}, policy : {None}, at : {0}]
        BY DEF NoJob
    <2>2. n \in [stage : {kind}, account : {ctx.account}, session : {ctx.session}, config : {None},
                 intent : {intent}, policy : {None}, at : {0}]
        BY ONLY <2>1
    <2> HIDE DEF n
    <2> QED
        BY <2>2 DEF Note, Stages
<1> HIDE DEF n
<1>3. DOMAIN job' = Slots /\ job'[x] = n /\ \A y \in Slots : y # x => job'[y] = job[y]
    BY <1>1, JobIs DEF IInv, World
<1>4. Note(job'[x]) /\ job'[x].stage \in {"free", "preview", "execute"}
    BY <1>2, <1>3
<1> QED
    BY <1>1, <1>3, <1>4, SelectKeeps

\* smart_account_estimate_loss.
LEMMA EstimateLossKeeps ==
    ASSUME GateAssumption, IInv, NEW x \in Slots, NEW asked, NEW wanted, EstimateLoss(x, asked, wanted)
    PROVE  IInv'
<1>1. Select(x, asked, wanted) /\ job' = job /\ job[x].stage = "free"
    BY DEF EstimateLoss, Select, Begins, At
<1>2. DOMAIN job' = Slots /\ Note(job'[x])
    BY <1>1 DEF IInv, World, Shape
<1>3. job'[x].stage \in {"free", "preview", "execute"} /\ \A y \in Slots : y # x => job'[y] = job[y]
    BY <1>1
<1> QED
    BY <1>1, <1>2, <1>3, SelectKeeps

\* A call ends or passes its gate; its process goes on believing what it did.
LEMMA WorldStays ==
    ASSUME World, NEW x \in Slots, up[Of(x)],
           DOMAIN job' = Slots, \A y \in Slots : y # x => job'[y] = job[y],
           Note(job'[x]), job'[x].stage \in {"free", "relaying"},
           UNCHANGED <<now, url, up, accounts, context, contracts, file>>,
           DOMAIN armed' = Servers, meta' \in Chains \cup {None},
           \A a \in DOMAIN rows' : Sane(rows'[a]), ~mixed' => ~mixed
    PROVE  World'
<1>1. Of(x) \in Servers
    BY ServerOf
<1>2. Acts(x)
    BY GrownIsReflexive DEF Acts, World, Shape
<1>3. Entries(accounts'[Of(x)]) /\ Within(context'[Of(x)], accounts'[Of(x)])
    BY <1>1 DEF World, Shape, Placed
<1>4. ~mixed' => AllEnforced(contracts'[url[Of(x)]], accounts'[Of(x)])
    BY <1>1 DEF World, CacheEnforced
<1>5. Stands(job'[x], accounts'[Of(x)], contracts'[url[Of(x)]], ~mixed')
    BY DEF Stands
<1> QED
    BY <1>2, <1>3, <1>4, <1>5, ActionKeepsWorld

\* A call whose simulation passes goes on, any other ends; neither arms anything yet.
LEMMA SimulateKeeps ==
    ASSUME GateAssumption, IInv, NEW x \in Slots, Simulate(x)
    PROVE  IInv'
<1> DEFINE n == [job[x] EXCEPT !.stage = "simulated"]
<1>1. /\ job[x].stage = "preview" /\ (Ends(x) \/ Continues(x, n))
      /\ UNCHANGED <<now, url, memory, store, contracts, file, history, bounds>>
    BY DEF Simulate, At
<1>2. up[Of(x)]
    BY <1>1, BusyIsUp DEF IInv, World
<1>3. Note(n) /\ n.stage = "simulated"
    <2>1. job[x] \in [stage : {job[x].stage}, account : {job[x].account}, session : {job[x].session},
                      config : {job[x].config}, intent : {job[x].intent}, policy : {job[x].policy},
                      at : {job[x].at}]
        BY DEF IInv, World, Shape, Note
    <2>2. n \in [stage : {"simulated"}, account : {job[x].account}, session : {job[x].session},
                 config : {job[x].config}, intent : {job[x].intent}, policy : {job[x].policy},
                 at : {job[x].at}]
        BY ONLY <2>1
    <2> HIDE DEF n
    <2> QED
        BY ONLY <2>2 DEF Note, Stages
<1> HIDE DEF n
<1>4. CASE Ends(x)
    BY <1>1, <1>2, <1>4, EndsKeep
<1>5. CASE Continues(x, n)
    <2>1. Stands(n, accounts[Of(x)], contracts[url[Of(x)]], ~mixed) /\ n.stage # "relaying"
        BY <1>3 DEF Stands
    <2> QED
        BY <1>1, <1>2, <1>3, <1>5, <2>1, NotesKeep
<1> QED
    BY <1>1, <1>4, <1>5

\* The answer of a simulation is noted with the time at which it came.
LEMMA EndPreviewKeeps ==
    ASSUME GateAssumption, IInv, NEW x \in Slots, EndPreview(x)
    PROVE  IInv'
<1> USE DEF IInv
<1> DEFINE s == Of(x)
           a == job[x].account
           digest == Digest(job[x].intent, job[x].session)
           arm == [digest |-> digest, at |-> now]
<1>1. /\ job[x].stage = "simulated" /\ Ends(x)
      /\ UNCHANGED <<now, url, up, accounts, context, meta, rows, contracts, file,
                     acknowledged, mixed, calls>>
    BY DEF EndPreview, At
<1>2. \/ UNCHANGED <<armed, arms, simulatedAt>>
      \/ /\ armed' = [armed EXCEPT ![s] = With(@, a, arm)]
         /\ simulatedAt' = With(simulatedAt, <<a, arm.digest>>, now)
         /\ arms' = With(arms, a, arm) \/ UNCHANGED arms
    BY DEF EndPreview, PersistSimArm
<1>3. up[s] /\ s \in Servers
    BY <1>1, BusyIsUp, ServerOf DEF World
<1>4. DOMAIN job' = Slots /\ job'[x] = NoJob /\ \A y \in Slots : y # x => job'[y] = job[y]
    BY <1>1, JobIs DEF Ends, World
<1>5. DOMAIN armed' = Servers
    BY <1>2 DEF World, Shape
<1>6. World'
    <2>1. Note(job'[x]) /\ job'[x].stage \in {"free", "relaying"}
        BY <1>4, BlankNote
    <2>2. meta' \in Chains \cup {None} /\ (\A b \in DOMAIN rows' : Sane(rows'[b])) /\ (~mixed' => ~mixed)
        BY <1>1 DEF World, Shape
    <2> QED
        BY <1>1, <1>3, <1>4, <1>5, <2>1, <2>2, WorldStays
<1>7. Books'
    BY <1>1, GrownIsReflexive, BooksStay DEF World
<1>8. now \in Nat
    BY DEF World, Shape
<1>9. \A y \in Slots : job'[y].stage = "relaying" => job'[y] = job[y]
    BY <1>4, BlankNote
<1>10. CASE UNCHANGED <<armed, arms, simulatedAt>>
    <2>1. Log'
        BY <1>1, <1>8, <1>9, <1>10, LogStays DEF World
    <2> QED
        BY <1>6, <1>7, <2>1
<1>11. CASE /\ armed' = [armed EXCEPT ![s] = With(@, a, arm)]
            /\ simulatedAt' = With(simulatedAt, <<a, arm.digest>>, now)
            /\ arms' = With(arms, a, arm) \/ UNCHANGED arms
    <2> DEFINE key == <<a, digest>>
    <2>1. arm.digest = digest /\ arm.at = now
        OBVIOUS
    <2> HIDE DEF arm, digest
    <2>2. DOMAIN simulatedAt' = {key} \cup DOMAIN simulatedAt /\ simulatedAt'[key] = now
          /\ \A other \in DOMAIN simulatedAt : other # key => simulatedAt'[other] = simulatedAt[other]
        <3>1. simulatedAt' = With(simulatedAt, key, now)
            BY <1>11, <2>1
        <3> HIDE DEF key
        <3> QED
            BY ONLY <3>1 DEF With, Over
    <2>3. \A other \in DOMAIN simulatedAt : simulatedAt[other] \in 0 .. now
        BY DEF Log, ArmsTrue
    <2>4. \A other \in DOMAIN simulatedAt' : simulatedAt'[other] \in 0 .. now
        <3> HIDE DEF key
        <3> QED
            BY <1>8, <2>2, <2>3
    <2>5. \A other \in DOMAIN simulatedAt : other \in DOMAIN simulatedAt' /\ simulatedAt'[other] >= simulatedAt[other]
        <3> HIDE DEF key
        <3> QED
            BY <1>8, <2>2, <2>3
    <2>6. ASSUME NEW b, NEW held, Armed(simulatedAt, b, held)
          PROVE  Armed(simulatedAt', b, held)
        <3> DEFINE theirs == <<b, held.digest>>
        <3>1. held.at \in Nat /\ theirs \in DOMAIN simulatedAt /\ simulatedAt[theirs] >= held.at
            BY <2>6 DEF Armed
        <3> HIDE DEF theirs
        <3>2. theirs \in DOMAIN simulatedAt' /\ simulatedAt'[theirs] >= simulatedAt[theirs]
              /\ simulatedAt[theirs] \in 0 .. now /\ simulatedAt'[theirs] \in 0 .. now
            BY <2>3, <2>4, <2>5, <3>1
        <3>3. simulatedAt'[theirs] >= held.at
            BY <1>8, <3>1, <3>2
        <3> QED
            BY <3>1, <3>2, <3>3 DEF Armed, theirs
    <2>7. Armed(simulatedAt', a, arm)
        BY <1>8, <2>1, <2>2 DEF Armed
    <2>8. \A t \in Servers : \A b \in DOMAIN armed'[t] : Armed(simulatedAt', b, armed'[t][b])
        <3> SUFFICES ASSUME NEW t \in Servers, NEW b \in DOMAIN armed'[t]
                     PROVE  Armed(simulatedAt', b, armed'[t][b])
            OBVIOUS
        <3>1. \A d \in DOMAIN armed[t] : Armed(simulatedAt, d, armed[t][d])
            BY DEF Log, ArmsTrue
        <3>2. CASE t = s
            <4>1. armed'[t] = With(armed[t], a, arm)
                BY <1>3, <1>11, <3>2 DEF World, Shape
            <4>2. (b = a /\ armed'[t][b] = arm) \/ (b \in DOMAIN armed[t] /\ armed'[t][b] = armed[t][b])
                BY ONLY <4>1, b \in DOMAIN armed'[t] DEF With, Over
            <4> QED
                BY <2>6, <2>7, <3>1, <4>2
        <3>3. CASE t # s
            <4>1. armed'[t] = armed[t]
                BY <1>11, <3>3 DEF World, Shape
            <4> QED
                BY <2>6, <3>1, <4>1
        <3> QED
            BY <3>2, <3>3
    <2>9. \A b \in DOMAIN arms' : Armed(simulatedAt', b, arms'[b])
        <3> SUFFICES ASSUME NEW b \in DOMAIN arms' PROVE Armed(simulatedAt', b, arms'[b])
            OBVIOUS
        <3>1. \A d \in DOMAIN arms : Armed(simulatedAt, d, arms[d])
            BY DEF Log, ArmsTrue
        <3>2. CASE arms' = With(arms, a, arm)
            <4>1. (b = a /\ arms'[b] = arm) \/ (b \in DOMAIN arms /\ arms'[b] = arms[b])
                BY ONLY <3>2, b \in DOMAIN arms' DEF With, Over
            <4> QED
                BY <2>6, <2>7, <3>1, <4>1
        <3>3. CASE UNCHANGED arms
            BY <2>6, <3>1, <3>3
        <3> QED
            BY <1>11, <3>2, <3>3
    <2>10. ArmsTrue'
        BY <1>1, <2>4, <2>8, <2>9 DEF ArmsTrue
    <2>11. GateTimes'
        BY <1>9 DEF Log, GateTimes
    <2>12. SimulatedInTime'
        <3> SUFFICES ASSUME NEW y \in Slots, job[y].stage = "relaying", job'[y] = job[y]
                     PROVE  /\ Strict => job[y].policy.ok
                            /\ Demanded(job[y].intent.action, job[y].policy) =>
                                   /\ <<job[y].account, Digest(job[y].intent, job[y].session)>> \in DOMAIN simulatedAt'
                                   /\ simulatedAt'[<<job[y].account, Digest(job[y].intent, job[y].session)>>]
                                          >= job[y].at - Window
            BY <1>9 DEF SimulatedInTime, At, Digest
        <3> DEFINE theirs == <<job[y].account, Digest(job[y].intent, job[y].session)>>
        <3>1. /\ Strict => job[y].policy.ok
              /\ Demanded(job[y].intent.action, job[y].policy) =>
                     theirs \in DOMAIN simulatedAt /\ simulatedAt[theirs] >= job[y].at - Window
            BY DEF Log, SimulatedInTime, At
        <3>2. job[y].at \in Nat /\ Window \in Nat
            BY DEF Log, GateTimes, GateAssumption
        <3> HIDE DEF theirs
        <3>3. Demanded(job[y].intent.action, job[y].policy) =>
                  theirs \in DOMAIN simulatedAt' /\ simulatedAt'[theirs] >= job[y].at - Window
            <4> SUFFICES ASSUME Demanded(job[y].intent.action, job[y].policy)
                         PROVE  theirs \in DOMAIN simulatedAt' /\ simulatedAt'[theirs] >= job[y].at - Window
                OBVIOUS
            <4>1. theirs \in DOMAIN simulatedAt' /\ simulatedAt'[theirs] >= simulatedAt[theirs]
                  /\ simulatedAt[theirs] \in 0 .. now /\ simulatedAt'[theirs] \in 0 .. now
                BY <2>3, <2>4, <2>5, <3>1
            <4>2. simulatedAt[theirs] >= job[y].at - Window
                BY <3>1
            <4> QED
                BY ONLY <1>8, <3>2, <4>1, <4>2
        <3> QED
            BY <3>1, <3>3 DEF theirs
    <2> QED
        BY <1>6, <1>7, <2>10, <2>11, <2>12 DEF Log
<1> QED
    BY <1>2, <1>10, <1>11

\* What the gate passes under a policy was simulated within the window.
LEMMA GatePasses ==
    ASSUME GateAssumption, Shape, ArmsTrue, NEW s \in Servers, NEW a, NEW intent, NEW wanted,
           Demanded(intent.action, file), NEW clock, clock = now,
           ResolveSimulationRequirement(intent.action, file) => Fresh(s, a, Digest(intent, wanted))
    PROVE  /\ <<a, Digest(intent, wanted)>> \in DOMAIN simulatedAt
           /\ simulatedAt[<<a, Digest(intent, wanted)>>] >= clock - Window
<1> DEFINE digest == Digest(intent, wanted)
           key == <<a, digest>>
<1>1. ResolveSimulationRequirement(intent.action, file)
    BY DEF Demanded, ResolveSimulationRequirement, ClassifySimulationRisk, Rules
<1>2. a \in DOMAIN armed[s] /\ armed[s][a].digest = digest /\ now - armed[s][a].at <= Window
    BY <1>1 DEF Fresh
<1> HIDE DEF digest
<1>3. armed[s][a].at \in Nat /\ key \in DOMAIN simulatedAt /\ simulatedAt[key] >= armed[s][a].at
    BY <1>2 DEF ArmsTrue, Armed
<1> HIDE DEF key
<1>4. simulatedAt[key] \in 0 .. now /\ now \in Nat /\ Window \in Nat
    BY <1>3 DEF ArmsTrue, Shape, GateAssumption
<1>5. simulatedAt[key] >= clock - Window
    BY ONLY <1>2, <1>3, <1>4, clock = now
<1> QED
    BY <1>3, <1>5 DEF key, digest

\* The gate of smart_account_execute: what passes was simulated in time.
LEMMA GateKeeps ==
    ASSUME GateAssumption, IInv, NEW x \in Slots, Gate(x)
    PROVE  IInv'
<1> USE DEF IInv
<1> DEFINE i == job[x].intent
           n == [job[x] EXCEPT !.stage = "relaying", !.policy = file, !.at = now]
           passes == /\ Strict => file.ok
                     /\ ResolveSimulationRequirement(i.action, file) =>
                            Fresh(Of(x), job[x].account, Digest(i, job[x].session))
                     /\ EvaluatePolicy(i, file)
<1>1. /\ job[x].stage = "execute"
      /\ (passes /\ Continues(x, n)) \/ Ends(x)
      /\ UNCHANGED <<now, url, memory, store, contracts, file, history, bounds>>
    BY DEF Gate, At
<1>2. up[Of(x)] /\ Of(x) \in Servers
    BY <1>1, BusyIsUp, ServerOf DEF World
<1>3. CASE Ends(x)
    BY <1>1, <1>2, <1>3, EndsKeep
<1>4. CASE passes /\ Continues(x, n)
    <2>1. Note(n) /\ n.stage = "relaying" /\ n.account = job[x].account /\ n.session = job[x].session
          /\ n.intent = i /\ n.policy = file /\ n.at = now
        <3>1. job[x] \in [stage : {job[x].stage}, account : {job[x].account}, session : {job[x].session},
                          config : {job[x].config}, intent : {i}, policy : {job[x].policy},
                          at : {job[x].at}]
            BY DEF World, Shape, Note
        <3>2. n \in [stage : {"relaying"}, account : {job[x].account}, session : {job[x].session},
                     config : {job[x].config}, intent : {i}, policy : {file}, at : {now}]
            BY ONLY <3>1
        <3> HIDE DEF n
        <3> QED
            BY ONLY <3>2 DEF Note, Stages
    <2>2. Strict => file.ok
        BY <1>4
    <2>3. ResolveSimulationRequirement(i.action, file) =>
              Fresh(Of(x), job[x].account, Digest(i, job[x].session))
        BY <1>4
    <2>4. Continues(x, n)
        BY <1>4
    <2> HIDE DEF n, passes
    <2>5. DOMAIN job' = Slots /\ job'[x] = n /\ \A y \in Slots : y # x => job'[y] = job[y]
        BY <2>4, JobIs DEF World
    <2>6. UNCHANGED <<now, url, up, accounts, context, armed, meta, rows, arms, contracts, file,
                      simulatedAt, acknowledged, mixed>>
        BY <1>1 DEF memory, store, history
    <2>7. World'
        <3>1. meta' \in Chains \cup {None} /\ (\A b \in DOMAIN rows' : Sane(rows'[b])) /\ DOMAIN armed' = Servers
              /\ (~mixed' => ~mixed)
            BY <2>6 DEF World, Shape
        <3>2. Note(job'[x]) /\ job'[x].stage \in {"free", "relaying"}
            BY <2>1, <2>5
        <3> QED
            BY <1>2, <2>5, <2>6, <3>1, <3>2, WorldStays
    <2>8. Books'
        BY <2>6, GrownIsReflexive, BooksStay DEF World
    <2>9. now \in Nat
        BY DEF World, Shape
    <2>10. ArmsTrue'
        BY <2>6 DEF Log, ArmsTrue
    <2>11. GateTimes'
        BY <2>1, <2>5, <2>9 DEF Log, GateTimes
    <2>12. SimulatedInTime'
        <3> SUFFICES ASSUME NEW y \in Slots, job'[y].stage = "relaying"
                     PROVE  /\ Strict => job'[y].policy.ok
                            /\ Demanded(job'[y].intent.action, job'[y].policy) =>
                                   /\ <<job'[y].account, Digest(job'[y].intent, job'[y].session)>> \in DOMAIN simulatedAt
                                   /\ simulatedAt[<<job'[y].account, Digest(job'[y].intent, job'[y].session)>>]
                                          >= job'[y].at - Window
            BY <2>6 DEF SimulatedInTime, At, Digest
        <3>1. CASE y = x
            <4>1. job'[y].policy = file /\ job'[y].intent = i /\ job'[y].account = job[x].account
                  /\ job'[y].session = job[x].session /\ job'[y].at = now
                BY <2>1, <2>5, <3>1
            <4>2. ASSUME Demanded(i.action, file)
                  PROVE  /\ <<job[x].account, Digest(i, job[x].session)>> \in DOMAIN simulatedAt
                         /\ simulatedAt[<<job[x].account, Digest(i, job[x].session)>>] >= now - Window
                BY <1>2, <2>3, <4>2, GatePasses DEF World, Log
            <4> QED
                BY <2>2, <4>1, <4>2
        <3>2. CASE y # x
            <4>1. job'[y] = job[y]
                BY <2>5, <3>2
            <4> QED
                BY <4>1 DEF Log, SimulatedInTime, At
        <3> QED
            BY <3>1, <3>2
    <2> QED
        BY <2>7, <2>8, <2>10, <2>11, <2>12 DEF Log
<1> QED
    BY <1>1, <1>3, <1>4

\* What follows the relayer's answer writes what the process remembers.
LEMMA EndExecuteKeeps ==
    ASSUME GateAssumption, IInv, NEW x \in Slots, EndExecute(x)
    PROVE  IInv'
<1> USE DEF IInv
<1> DEFINE s == Of(x)
<1>1. /\ job[x].stage = "relaying" /\ Ends(x)
      /\ UNCHANGED <<now, url, memory, arms, contracts, file, simulatedAt, acknowledged, calls>>
      /\ UNCHANGED <<rows, meta, mixed>> \/ \E done \in BOOLEAN : Persist(s, accounts[s], done)
    BY DEF EndExecute, At
<1>2. up[s] /\ s \in Servers
    BY <1>1, BusyIsUp, ServerOf DEF World
<1>3. CASE UNCHANGED <<rows, meta, mixed>>
    BY <1>1, <1>2, <1>3, EndsKeep DEF store, history
<1>4. ASSUME NEW done \in BOOLEAN, Persist(s, accounts[s], done)
      PROVE  IInv'
    <2>1. Shape /\ StoreEnforced /\ AcknowledgedSurvives
        BY DEF World, Books
    <2>2. Entries(accounts[s])
        BY <1>2 DEF World, Shape
    <2>3. ~mixed => AllEnforced(contracts[url[s]], accounts[s])
        BY <1>2 DEF World, CacheEnforced
    <2>4. UNCHANGED <<now, url, up, accounts, context, armed, arms, contracts, file,
                      simulatedAt, acknowledged>>
        BY <1>1 DEF memory
    <2>5. /\ meta' \in Chains \cup {None}
          /\ \A b \in DOMAIN rows' : Sane(rows'[b])
          /\ ~mixed' => ~mixed
          /\ StoreEnforced'
          /\ \A e \in acknowledged :
                 /\ e[1] \in DOMAIN rows' /\ e[2] \in DOMAIN rows'[e[1]].sessions
                 /\ ~mixed' => rows'[e[1]].sessions[e[2]] = e[3]
        <3>1. contracts' = contracts
            BY <2>4
        <3> HIDE DEF s, IInv
        <3> QED
            BY <1>2, <1>4, <2>1, <2>2, <2>3, <3>1, PersistKeeps
    <2>6. DOMAIN job' = Slots /\ job'[x] = NoJob /\ \A y \in Slots : y # x => job'[y] = job[y]
        BY <1>1, JobIs DEF Ends, World
    <2>7. World'
        <3>1. Note(job'[x]) /\ job'[x].stage \in {"free", "relaying"}
            BY <2>6, BlankNote
        <3>2. DOMAIN armed' = Servers
            BY <2>4 DEF World, Shape
        <3> QED
            BY <1>2, <2>4, <2>5, <2>6, <3>1, <3>2, WorldStays
    <2>8. Books'
        BY <2>4, <2>5 DEF Books, AcknowledgedSurvives
    <2>9. Log'
        <3>1. now' \in Nat /\ now' >= now
            BY <2>4 DEF World, Shape
        <3>2. \A y \in Slots : job'[y].stage = "relaying" => job'[y] = job[y]
            BY <2>6, BlankNote
        <3> QED
            BY <2>1, <2>4, <3>1, <3>2, LogStays
    <2> QED
        BY <2>7, <2>8, <2>9
<1> QED
    BY <1>1, <1>3, <1>4

-----------------------------------------------------------------------------
(* All steps. *)

\* The policy file changes, time passes, or nothing happens.
LEMMA QuietKeeps ==
    ASSUME GateAssumption, IInv,
           UNCHANGED <<url, memory, job, store, contracts, history>>,
           file' \in Policies, now' \in 0 .. LastTime, now' >= now
    PROVE  IInv'
<1> USE DEF IInv
<1>1. UNCHANGED <<url, up, accounts, context, armed, job, meta, rows, arms, contracts,
                  simulatedAt, acknowledged, mixed>>
    BY DEF memory, store, history
<1>2. World'
    BY <1>1 DEF World, Shape, Placed, DownIsBlank, CacheEnforced, SetupsStand
<1>3. Books'
    BY <1>1, GrownIsReflexive, BooksStay DEF World
<1>4. Log'
    <2>1. Shape /\ now' \in Nat
        BY DEF World
    <2> QED
        BY <1>1, <2>1, LogStays
<1> QED
    BY <1>2, <1>3, <1>4

\* A server starts without memory over an empty store.
LEMMA InitIInv == GateAssumption /\ Init => IInv
<1> SUFFICES ASSUME GateAssumption, Init PROVE IInv
    OBVIOUS
<1>1. Shape
    <2>1. now \in 0 .. LastTime
        BY DEF Init, GateAssumption
    <2>2. \A s \in Servers : Entries(accounts[s])
        BY DEF Init, Entries
    <2>3. \A x \in Slots : Note(job[x])
        BY BlankNote DEF Init
    <2> QED
        BY <2>1, <2>2, <2>3 DEF Init, Shape, GateAssumption
<1>2. Placed
    BY DEF Init, Placed, Within, NoContext
<1>3. DownIsBlank
    BY BlankNote DEF Init, DownIsBlank
<1>4. CacheEnforced
    BY DEF Init, CacheEnforced, AllEnforced
<1>5. SetupsStand
    BY BlankNote DEF Init, SetupsStand, Stands
<1>6. Books
    BY DEF Init, Books, StoreEnforced, AcknowledgedSurvives
<1>7. Log
    BY BlankNote DEF Init, Log, ArmsTrue, GateTimes, SimulatedInTime, At
<1> QED
    BY <1>1, <1>2, <1>3, <1>4, <1>5, <1>6, <1>7 DEF IInv, World

\* Every step keeps the invariant.
LEMMA NextKeeps == GateAssumption /\ IInv /\ [Next]_vars => IInv'
<1> SUFFICES ASSUME GateAssumption, IInv, [Next]_vars PROVE IInv'
    OBVIOUS
<1>1. ASSUME NEW s \in Servers, Boot(s) PROVE IInv'
    BY <1>1, BootKeeps
<1>2. ASSUME NEW s \in Servers, NEW u \in Chains, Restart(s, u) PROVE IInv'
    BY <1>2, RestartKeeps
<1>3. ASSUME NEW x \in Slots, Deploy(x) PROVE IInv'
    BY <1>3, DeployKeeps
<1>4. ASSUME NEW x \in Slots, Register(x) PROVE IInv'
    BY <1>4, RegisterKeeps
<1>5. ASSUME NEW x \in Slots, EndSetup(x) PROVE IInv'
    BY <1>5, EndSetupKeeps
<1>6. ASSUME NEW x \in Slots, Simulate(x) \/ EndPreview(x) PROVE IInv'
    BY <1>6, SimulateKeeps, EndPreviewKeeps
<1>7. ASSUME NEW x \in Slots, Gate(x) PROVE IInv'
    BY <1>7, GateKeeps
<1>8. ASSUME NEW x \in Slots, EndExecute(x) PROVE IInv'
    BY <1>8, EndExecuteKeeps
<1>9. ASSUME NEW x \in Slots, NEW r \in Requests, StartSetup(x, r) PROVE IInv'
    BY <1>9, StartSetupKeeps
<1>10. ASSUME NEW x \in Slots, NEW a, NEW k, NEW i, NEW kind \in {"preview", "execute"},
              BeginTool(x, kind, a, k, i)
       PROVE  IInv'
    BY <1>10, BeginToolKeeps
<1>11. ASSUME NEW x \in Slots, NEW a, NEW k, EstimateLoss(x, a, k) PROVE IInv'
    BY <1>11, EstimateLossKeeps
<1>12. ASSUME NEW p \in Policies, EditPolicy(p) PROVE IInv'
    <2>1. UNCHANGED <<url, memory, job, store, contracts, history>> /\ file' = p /\ now' = now
        BY <1>12 DEF EditPolicy
    <2>2. now' \in 0 .. LastTime /\ now' >= now
        BY <2>1 DEF IInv, World, Shape
    <2> QED
        BY <2>1, <2>2, QuietKeeps
<1>13. ASSUME Tick PROVE IInv'
    <2>1. UNCHANGED <<url, memory, job, store, contracts, history>> /\ file' = file
          /\ now' = now + 1 /\ now < LastTime
        BY <1>13 DEF Tick
    <2>2. now' \in 0 .. LastTime /\ now' >= now /\ file' \in Policies
        BY <2>1 DEF IInv, World, Shape, GateAssumption
    <2> QED
        BY <2>1, <2>2, QuietKeeps
<1>14. ASSUME UNCHANGED vars PROVE IInv'
    <2>1. UNCHANGED <<url, memory, job, store, contracts, history>> /\ file' = file /\ now' = now
        BY <1>14 DEF vars
    <2>2. now' \in 0 .. LastTime /\ now' >= now /\ file' \in Policies
        BY <2>1 DEF IInv, World, Shape
    <2> QED
        BY <2>1, <2>2, QuietKeeps
<1> QED
    BY <1>1, <1>2, <1>3, <1>4, <1>5, <1>6, <1>7, <1>8, <1>9, <1>10, <1>11, <1>12, <1>13, <1>14
    DEF Next

\* The inductive invariant: processes, store and contracts agree while one
\* chain is written, and the logs of simulations are true.
THEOREM GateInvariant == Spec => []IInv
<1>1. Init => IInv
    BY GateAssumption, InitIInv
<1>2. IInv /\ [Next]_vars => IInv'
    BY GateAssumption, NextKeeps
<1> QED
    BY <1>1, <1>2, PTL DEF Spec

\* An execution that had to be simulated was, in time, whichever process took
\* the call and however often it restarted (the gate of smart_account_execute).
THEOREM SimulatedBeforeExecuted == Spec => []SimulatedInTime
<1>1. IInv => SimulatedInTime
    BY DEF IInv, Log
<1> QED
    BY <1>1, GateInvariant, PTL

\* No process's write loses a session another one's setup answered for, whatever
\* the chains.  That its config is the one answered for needs the premise of
\* AcknowledgedSurvives: one chain was written so far (~mixed), as a setup on
\* another chain may give the same session id another config
\* (persistSmartAccountState, unionBySessionId).
THEOREM AnswersSurvive == Spec => []AcknowledgedSurvives
<1>1. IInv => AcknowledgedSurvives
    BY DEF IInv, Books
<1> QED
    BY <1>1, GateInvariant, PTL

\* What a process believes of its accounts and sessions is so on its chain,
\* while the store speaks for one (restoreSmartAccounts, smart_account_setup).
THEOREM BeliefsAreReal == Spec => []BelievedIsReal
<1>1. IInv => TypeOK
    <2> SUFFICES ASSUME IInv PROVE TypeOK
        OBVIOUS
    <2>1. \A x \in Slots : job[x].stage \in Stages
        BY DEF IInv, World, Shape, Note
    <2>2. \A s \in Servers : \A a \in DOMAIN accounts[s] : Sane(accounts[s][a])
        BY DEF IInv, World, Shape, Entries, Entry
    <2> QED
        BY <2>1, <2>2 DEF IInv, World, Shape, Placed, Within, Stages, TypeOK
<1>2. IInv => CachedIsRegistered
    BY DEF IInv, World, CacheEnforced, AllEnforced, Enforced, CachedIsRegistered, Registered
<1>3. IInv => BelievedIsReal
    BY <1>1, <1>2 DEF BelievedIsReal
<1> QED
    BY <1>3, GateInvariant, PTL

-----------------------------------------------------------------------------
(* The identity of the server. *)

ToolStages == {"idle", "failed", "done", "creating", "pinging", "spawning", "ensured"}

Jobs == [stage : ToolStages, kind : {"generate", "register", "sign"}, agent : Nat, starting : Nat,
         signer : Nat, by : Nat, overlapped : BOOLEAN]

\* A call in service of the kind that signs.
Signing(s) == s \in UnderWay /\ tool[s].kind = "sign"

\* The signer that a call has found, or is asking, was started.
IdentityShape ==
    /\ tool \in [Tools -> Jobs]
    /\ \A s \in Tools : tool[s].signer <= Len(spawned)
    /\ \A s \in Tools : tool[s].by # Nil => tool[s].stage = "done"
    /\ \A s \in Tools : tool[s].stage = "creating" => tool[s].kind # "sign"
    /\ \A s \in Tools : tool[s].stage = "spawning" => tool[s].signer = Nil

\* Nothing is started, kept or forgotten before there is an identity; a
\* password that was given up is not there.
KeysKnown ==
    /\ session.key = Nil => made = 0 /\ ~session.password /\ session.signer = Nil
    /\ \A s \in Tools : tool[s].stage = "spawning" => tool[s].starting # Nil
    /\ session.password => session.key \notin forgotten

\* The session's name differs from its key only while a registration is under way
\* that has made the identity and not yet named it.
NameFollows ==
    session.agent # session.key =>
        \E s \in UnderWay : tool[s].kind = "register" /\ tool[s].stage # "creating"

\* A call that overlaps no replacement sees the key of the agent it signs for.
KeyHolds ==
    \A s \in Tools : Signing(s) /\ ~tool[s].overlapped =>
        /\ \A t \in Tools : ~Replacing(t)
        /\ session.key = tool[s].agent

\* Keys that a signer may hold: the session's, and those of identities that were
\* replaced while a signer of theirs was starting.
Held == crossed \cup {session.key}

\* Signers that start and the one of the session hold such a key.
SignersFollow ==
    /\ session.signer # Nil => spawned[session.signer] \in Held
    /\ \A s \in Tools : tool[s].stage = "spawning" => tool[s].starting \in Held
    /\ \A s \in Tools : tool[s].stage = "ensured" /\ Signing(s) /\ ~tool[s].overlapped /\
         tool[s].signer # Nil =>
            spawned[tool[s].signer] \in Held

IdentityIInv ==
    /\ SignsAsItself /\ IdentityShape /\ KeysKnown /\ NameFollows /\
         KeyHolds /\ SignersFollow

-----------------------------------------------------------------------------
\* What a step that makes no identity and begins no replacement does to the
\* session, the signers and what was forgotten ...
SameKey ==
    /\ env' = env /\ made' = made /\ crossed' = crossed
    /\ session' \in [key : {session.key}, agent : {session.agent, session.key}, password : BOOLEAN,
                     wallet : BOOLEAN, signer : 0 .. Len(spawned'), open : BOOLEAN]
    /\ spawned' \in Seq(1 .. made) /\ Len(spawned) <= Len(spawned')
    /\ \A h \in Handles : spawned'[h] = spawned[h]
    /\ live' \subseteq 1 .. Len(spawned')
    /\ forgotten' \subseteq 1 .. made
    /\ session'.password => session.password /\ session.key \notin forgotten'
    /\ session'.signer # Nil =>
         session.key # Nil /\ spawned'[session'.signer] \in Held

\* ... and what becomes of the call that takes the step.
Becomes(s, next) ==
    /\ next \in Jobs
    /\ {next.agent, next.starting, next.by} \subseteq 0 .. made
    /\ next.signer <= Len(spawned')
    /\ next.by # Nil => next.stage = "done" /\ (~next.overlapped => next.by \in crossed \cup {next.agent})
    /\ next.stage \notin Ended /\ next.kind # "sign" => Replacing(s)
    /\ next.stage = "creating" => next.kind # "sign"
    /\ next.stage = "spawning" =>
         next.signer = Nil /\ next.starting # Nil /\ next.starting \in Held
    /\ next.stage \notin Ended /\ next.kind = "sign" /\ ~next.overlapped =>
            /\ \A t \in Tools : ~Replacing(t)
            /\ session.key = next.agent
            /\ next.stage = "ensured" /\ next.signer # Nil =>
                 spawned'[next.signer] \in Held
    /\ \/ session'.agent = session.key
       \/ s \in UnderWay /\ tool[s].kind = "register" /\ tool[s].stage # "creating" =>
            next.stage \notin Ended \cup {"creating"} /\ next.kind = "register"

\* A step of one call that leaves the identity alone and keeps what its notes carry.
LEMMA StepKeeps ==
    ASSUME IdentityIInv, SameKey, NEW s \in Tools, NEW next, Becomes(s, next),
           tool' = [tool EXCEPT ![s] = next]
    PROVE  IdentityIInv'
<1> USE DEF IdentityIInv
<1>1. /\ tool' \in [Tools -> Jobs]
      /\ tool'[s] = next
      /\ \A t \in Tools \ {s} : tool'[t] = tool[t]
    BY DEF IdentityShape, Becomes
<1>2. \A t \in Tools : tool[t] \in Jobs /\ tool'[t] \in Jobs
    BY <1>1 DEF IdentityShape
<1>3. Len(spawned) \in Nat /\ Len(spawned') \in Nat
    BY DEF SignsAsItself, SessionTypeOK, SameKey
<1>4. SessionTypeOK'
    BY <1>1 DEF SignsAsItself, SessionTypeOK, SameKey, Becomes, Handles
<1>5. SignedUnderOwnName'
    BY <1>1 DEF SignsAsItself, SignedUnderOwnName, SameKey, Becomes
<1>6. IdentityShape'
    <2>1. ASSUME NEW t \in Tools
          PROVE  /\ tool'[t].signer <= Len(spawned')
                 /\ tool'[t].by # Nil => tool'[t].stage = "done"
                 /\ tool'[t].stage = "creating" => tool'[t].kind # "sign"
                 /\ tool'[t].stage = "spawning" => tool'[t].signer = Nil
        <3>1. CASE t = s
            BY <1>1, <3>1 DEF Becomes
        <3>2. CASE t # s
            <4>1. tool'[t] = tool[t] /\ tool[t].signer \in Int
                BY <1>1, <1>2, <3>2 DEF Jobs
            <4> QED
                BY <1>3, <4>1 DEF IdentityShape, SameKey
        <3> QED
            BY <3>1, <3>2
    <2> QED
        BY <1>1, <2>1 DEF IdentityShape
<1>7. KeysKnown'
    BY <1>1 DEF KeysKnown, SameKey, Becomes
<1>8. \A t \in Tools : Replacing(t)' => Replacing(t)
    BY <1>1 DEF Replacing, UnderWay, Becomes
<1>9. NameFollows'
    <2> SUFFICES ASSUME session'.agent # session'.key
                 PROVE  \E t \in UnderWay' : tool'[t].kind = "register" /\ tool'[t].stage # "creating"
        BY DEF NameFollows
    <2>1. session.agent # session.key /\ session'.agent = session.agent
        BY DEF SameKey
    <2>2. PICK t \in UnderWay : tool[t].kind = "register" /\ tool[t].stage # "creating"
        BY <2>1 DEF NameFollows
    <2>3. t \in Tools
        BY DEF UnderWay
    <2>4. CASE t = s
        BY <1>1, <2>1, <2>2, <2>3, <2>4 DEF Becomes, UnderWay, Ended
    <2>5. CASE t # s
        BY <1>1, <2>2, <2>3, <2>5 DEF UnderWay
    <2> QED
        BY <2>4, <2>5
<1>10. KeyHolds'
    <2> SUFFICES ASSUME NEW t \in Tools, Signing(t)', ~tool'[t].overlapped
                 PROVE  (\A u \in Tools : ~Replacing(u)') /\ session'.key = tool'[t].agent
        BY DEF KeyHolds
    <2>1. (\A u \in Tools : ~Replacing(u)) /\ session.key = tool'[t].agent
        BY <1>1 DEF KeyHolds, Signing, UnderWay, Becomes
    <2> QED
        BY <1>8, <2>1 DEF SameKey
<1>11. SignersFollow'
    <2>1. Held' = Held
        BY DEF Held, SameKey
    <2>2. ASSUME NEW t \in Tools, tool'[t].stage = "spawning" PROVE tool'[t].starting \in Held
        BY <1>1, <2>2 DEF SignersFollow, Becomes
    <2>3. ASSUME NEW t \in Tools, tool'[t].stage = "ensured", Signing(t)', ~tool'[t].overlapped,
                 tool'[t].signer # Nil
          PROVE  spawned'[tool'[t].signer] \in Held
        <3>1. CASE t = s
            BY <1>1, <2>3, <3>1 DEF Becomes, Signing, UnderWay
        <3>2. CASE t # s
            <4>1. tool'[t] = tool[t] /\ Signing(t)
                BY <1>1, <2>3, <3>2 DEF Signing, UnderWay
            <4>2. spawned[tool[t].signer] \in Held
                BY <2>3, <4>1 DEF SignersFollow
            <4>3. tool[t].signer \in Handles
                BY <1>2, <1>3, <2>3, <4>1 DEF IdentityShape, Handles, Jobs, Nil
            <4> QED
                BY <4>1, <4>2, <4>3 DEF SameKey
        <3> QED
            BY <3>1, <3>2
    <2> QED
        BY <2>1, <2>2, <2>3 DEF SignersFollow, SameKey
<1> QED
    BY <1>4, <1>5, <1>6, <1>7, <1>9, <1>10, <1>11 DEF SignsAsItself

-----------------------------------------------------------------------------
\* What the actions start from: the call is a record and so is the session.
LEMMA Typed ==
    ASSUME IdentityIInv, NEW s \in Tools
    PROVE  /\ tool[s] \in Jobs
           /\ tool[s].signer <= Len(spawned)
           /\ {tool[s].agent, tool[s].starting, tool[s].by} \subseteq 0 .. made
           /\ session \in [key : 0 .. made, agent : 0 .. made, password : BOOLEAN,
                           wallet : BOOLEAN, signer : 0 .. Len(spawned), open : BOOLEAN]
           /\ made \in Nat /\ Len(spawned) \in Nat /\ spawned \in Seq(1 .. made)
           /\ live \subseteq 1 .. Len(spawned) /\ forgotten \subseteq 1 .. made
BY DEF IdentityIInv, IdentityShape, SignsAsItself, SessionTypeOK, Handles

\* Nothing of the session changes but, at most, that its signer is let go or
\* that the wallet replaces it.
LEMMA SessionKept ==
    ASSUME IdentityIInv, NEW wallet \in BOOLEAN, NEW open \in BOOLEAN, NEW signer \in {session.signer, Nil},
           session' = [session EXCEPT !.wallet = wallet, !.signer = signer, !.open = open],
           UNCHANGED <<env, made, spawned, forgotten, crossed>>, live' \subseteq live
    PROVE  SameKey /\ session'.key = session.key /\ session'.agent = session.agent
                   /\ session'.password = session.password /\ session'.signer = signer
<1>1. /\ session \in [key : 0 .. made, agent : 0 .. made, password : BOOLEAN,
                      wallet : BOOLEAN, signer : 0 .. Len(spawned), open : BOOLEAN]
      /\ made \in Nat /\ Len(spawned) \in Nat /\ spawned \in Seq(1 .. made)
      /\ live \subseteq 1 .. Len(spawned) /\ forgotten \subseteq 1 .. made
    BY DEF IdentityIInv, SignsAsItself, SessionTypeOK, Handles
<1>2. /\ session'.key = session.key /\ session'.agent = session.agent
      /\ session'.password = session.password /\ session'.signer = signer
      /\ session' \in [key : {session.key}, agent : {session.agent, session.key}, password : BOOLEAN,
                       wallet : BOOLEAN, signer : 0 .. Len(spawned), open : BOOLEAN]
    <2>1. wallet \in BOOLEAN /\ open \in BOOLEAN /\ signer \in 0 .. Len(spawned)
        BY <1>1 DEF Nil
    <2>2. session' = [key |-> session.key, agent |-> session.agent, password |-> session.password,
                      wallet |-> wallet, signer |-> signer, open |-> open]
        BY <1>1
    <2> QED
        BY <1>1, <2>1, <2>2
<1>3. session'.password => session.key \notin forgotten
    BY <1>2 DEF IdentityIInv, KeysKnown
<1>4. session'.signer # Nil =>
        session.key # Nil /\ spawned[session'.signer] \in Held
    BY <1>2 DEF IdentityIInv, KeysKnown, SignersFollow
<1> QED
    BY <1>1, <1>2, <1>3, <1>4 DEF SameKey, Handles

\* A call that goes on in service: what it was when it began still holds.
Carries(s, call) ==
    /\ call \in Jobs
    /\ {call.agent, call.starting} \subseteq 0 .. made
    /\ call.by = Nil
    /\ call.kind # "sign" => Replacing(s)
    /\ call.kind = "sign" /\ ~call.overlapped => (\A t \in Tools : ~Replacing(t)) /\ session.key = call.agent
    /\ s \in UnderWay /\ tool[s].kind = "register" /\ tool[s].stage # "creating" => call.kind = "register"

\* A call in service is one of a slot that is taken.
LEMMA InService ==
    ASSUME IdentityIInv, NEW s \in UnderWay
    PROVE  Carries(s, tool[s])
<1>1. s \in Tools /\ tool[s].stage \notin Ended
    BY DEF UnderWay
<1>2. tool[s] \in Jobs /\ {tool[s].agent, tool[s].starting} \subseteq 0 .. made /\ tool[s].by = Nil
    BY <1>1, Typed DEF IdentityIInv, IdentityShape, Ended
<1> QED
    BY <1>1, <1>2 DEF Carries, Replacing, IdentityIInv, KeyHolds, Signing

\* A signing call begins with the agent the session names.
LEMMA SigningBegins ==
    ASSUME IdentityIInv, NEW s \in Tools \ UnderWay
    PROVE  Carries(s, ToolCall("sign", "spawning"))
<1> DEFINE call == ToolCall("sign", "spawning")
<1>1. session.agent \in 0 .. made /\ made \in Nat
    BY Typed
<1> DEFINE busy == \E t \in UnderWay : "sign" # "sign" \/ Replacing(t)
<1>2. call = [stage |-> "spawning", kind |-> "sign", agent |-> session.agent, starting |-> Nil,
              signer |-> Nil, by |-> Nil, overlapped |-> busy]
    <2>1. call = [Idle EXCEPT !.kind = "sign", !.stage = "spawning", !.agent = session.agent, !.overlapped = busy]
        BY Zenon DEF ToolCall
    <2> HIDE DEF call, busy
    <2> QED
        BY ONLY <2>1 DEF Idle
<1>3. call \in Jobs /\ call.kind = "sign" /\ call.agent = session.agent /\ call.starting = Nil /\
        call.by = Nil
      /\ call.overlapped = busy
    <2>1. busy \in BOOLEAN
        OBVIOUS
    <2> HIDE DEF call, busy
    <2> QED
        BY ONLY <1>1, <1>2, <2>1 DEF Jobs, ToolStages, Nil
<1>4. ~call.overlapped => \A t \in Tools : ~Replacing(t)
    <2>1. ~busy => \A t \in Tools : ~Replacing(t)
        BY Zenon DEF Replacing
    <2> HIDE DEF call, busy
    <2> QED
        BY <1>3, <2>1
<1>5. (\A t \in Tools : ~Replacing(t)) => session.agent = session.key
    BY DEF IdentityIInv, NameFollows, Replacing, UnderWay
<1>6. {call.agent, call.starting} \subseteq 0 .. made
    BY <1>1, <1>3 DEF Nil
<1> HIDE DEF call, busy
<1>7. Carries(s, call)
    BY <1>3, <1>4, <1>5, <1>6 DEF Carries
<1> QED
    BY <1>7 DEF call

\* Respawn of a call in service.
LEMMA RespawnFits ==
    ASSUME IdentityIInv, SameKey, session'.agent = session.agent, session'.key = session.key,
           session'.password = session.password, NEW s \in Tools, NEW call, Carries(s, call)
    PROVE  Becomes(s, Respawn(call, session'))
<1>1. /\ call \in Jobs /\ call.by = Nil /\ call.starting \in Nat
      /\ {call.agent, call.starting, call.by} \subseteq 0 .. made
    BY Typed DEF Carries, Nil
<1>2. session'.key \in Nat /\ session'.key \in 0 .. made /\ Len(spawned') \in Nat
    BY Typed DEF SameKey
<1>3. CASE session'.password /\ ~env.disabled
    <2> DEFINE next == [call EXCEPT !.stage = "spawning", !.starting = session'.key, !.signer = Nil]
    <2>1. /\ next \in Jobs
          /\ next.stage = "spawning" /\ next.starting = session'.key /\ next.signer = Nil
          /\ next.kind = call.kind /\ next.agent = call.agent /\ next.by = Nil
          /\ next.overlapped = call.overlapped
        BY ONLY <1>1, <1>2 DEF Jobs, ToolStages, Nil
    <2>2. session.key # Nil
        BY <1>3 DEF IdentityIInv, KeysKnown
    <2> HIDE DEF next
    <2>3. Becomes(s, next)
        BY <1>1, <1>2, <2>1, <2>2 DEF Becomes, Carries, Ended, Nil, Held
    <2> QED
        BY <1>3, <2>3 DEF Respawn, next
<1>4. CASE ~(session'.password /\ ~env.disabled)
    <2> DEFINE next == [call EXCEPT !.stage = "ensured", !.signer = Nil]
    <2>1. /\ next \in Jobs
          /\ next.stage = "ensured" /\ next.starting = call.starting /\ next.signer = Nil
          /\ next.kind = call.kind /\ next.agent = call.agent /\ next.by = Nil
          /\ next.overlapped = call.overlapped
        BY ONLY <1>1, <1>2 DEF Jobs, ToolStages, Nil
    <2> HIDE DEF next
    <2>2. Becomes(s, next)
        BY <1>1, <1>2, <2>1 DEF Becomes, Carries, Ended, Nil
    <2> QED
        BY <1>4, <2>2 DEF Respawn, next
<1> QED
    BY <1>3, <1>4

\* The session stays as it is.
LEMMA SessionSame ==
    ASSUME IdentityIInv, UNCHANGED <<env, session, made, spawned, live, forgotten, crossed>>
    PROVE  SameKey
<1>1. /\ session = [session EXCEPT !.wallet = session.wallet, !.signer = session.signer, !.open = session.open]
      /\ session.wallet \in BOOLEAN /\ session.open \in BOOLEAN
    BY DEF IdentityIInv, SignsAsItself, SessionTypeOK
<1> QED
    BY <1>1, SessionKept

\* A call that begins to sign.
LEMMA BeginSignKeeps ==
    ASSUME IdentityIInv, NEW s \in Tools, BeginSign(s)
    PROVE  IdentityIInv'
<1> DEFINE call == ToolCall("sign", "spawning")
           next == [call EXCEPT !.stage = "pinging", !.signer = session.signer]
<1>1. /\ UNCHANGED <<env, session, made, spawned, live, forgotten, crossed>>
      /\ tool' = [tool EXCEPT ![s] = EnsureSessionSigner(call, session)]
      /\ s \in Tools \ UnderWay
    BY DEF BeginSign
<1>2. SameKey
    BY <1>1, SessionSame
<1>3. Carries(s, call)
    BY <1>1, SigningBegins
<1>4. CASE session.signer # Nil
    <2>1. /\ call \in Jobs /\ call.by = Nil /\ session.signer \in Nat /\ session.signer <= Len(spawned)
          /\ {call.agent, call.starting, call.by} \subseteq 0 .. made
        BY <1>3, Typed DEF Carries, Nil
    <2> HIDE DEF call
    <2>2. /\ next \in Jobs
          /\ next.stage = "pinging" /\ next.starting = call.starting /\ next.signer = session.signer
          /\ next.kind = call.kind /\ next.agent = call.agent /\ next.by = Nil
          /\ next.overlapped = call.overlapped
        BY ONLY <2>1 DEF Jobs, ToolStages, Nil
    <2> HIDE DEF next
    <2>3. Becomes(s, next)
        BY <1>1, <1>3, <2>1, <2>2 DEF Becomes, Carries, Ended, Nil
    <2>4. EnsureSessionSigner(call, session) = next
        BY <1>4 DEF EnsureSessionSigner, next
    <2> QED
        BY <1>1, <1>2, <2>3, <2>4, StepKeeps
<1>5. CASE session.signer = Nil
    <2> HIDE DEF call
    <2>1. Becomes(s, Respawn(call, session))
        BY <1>1, <1>2, <1>3, RespawnFits
    <2>2. EnsureSessionSigner(call, session) = Respawn(call, session)
        BY <1>5 DEF EnsureSessionSigner
    <2> QED
        BY <1>1, <1>2, <2>1, <2>2, StepKeeps
<1> QED
    BY <1>4, <1>5

\* The signer answers its ping and serves the call.
LEMMA PingOkKeeps ==
    ASSUME IdentityIInv, NEW s \in Tools, PingOk(s)
    PROVE  IdentityIInv'
<1> DEFINE next == [tool[s] EXCEPT !.stage = "ensured", !.signer = session.signer]
<1>1. /\ UNCHANGED <<env, session, made, spawned, live, forgotten, crossed>>
      /\ tool' = [tool EXCEPT ![s] = next]
      /\ tool[s].stage = "pinging" /\ s \in UnderWay
    BY Typed DEF PingOk, UnderWay, Ended, IdentityIInv, IdentityShape, Jobs
<1>2. SameKey /\ Carries(s, tool[s])
    BY <1>1, SessionSame, InService
<1>3. /\ tool[s] \in Jobs /\ tool[s].by = Nil /\ session.signer \in Nat /\ session.signer <= Len(spawned)
      /\ {tool[s].agent, tool[s].starting, tool[s].by} \subseteq 0 .. made
    BY <1>2, Typed DEF Carries, Nil
<1>4. /\ next \in Jobs
      /\ next.stage = "ensured" /\ next.starting = tool[s].starting /\ next.signer = session.signer
      /\ next.kind = tool[s].kind /\ next.agent = tool[s].agent /\ next.by = Nil
      /\ next.overlapped = tool[s].overlapped
    BY ONLY <1>3 DEF Jobs, ToolStages, Nil
<1> HIDE DEF next
<1>5. Becomes(s, next)
    BY <1>1, <1>2, <1>3, <1>4 DEF Becomes, Carries, Ended, Nil, IdentityIInv, SignersFollow
<1> QED
    BY <1>1, <1>2, <1>5, StepKeeps

\* The signer misses its ping: it is let go, and another one is started if the password is there.
LEMMA PingFailsKeeps ==
    ASSUME IdentityIInv, NEW s \in Tools, PingFails(s)
    PROVE  IdentityIInv'
<1>1. /\ UNCHANGED <<env, made, spawned, live, forgotten, crossed>>
      /\ session' = [session EXCEPT !.signer = Nil]
      /\ tool' = [tool EXCEPT ![s] = Respawn(tool[s], session')]
      /\ s \in UnderWay
    BY DEF PingFails, UnderWay, Ended
<1>2. /\ session' = [session EXCEPT !.wallet = session.wallet, !.signer = Nil, !.open = session.open]
      /\ session.wallet \in BOOLEAN /\ session.open \in BOOLEAN
    BY <1>1 DEF IdentityIInv, SignsAsItself, SessionTypeOK
<1>3. /\ SameKey /\ session'.key = session.key /\ session'.agent = session.agent
      /\ session'.password = session.password
    BY <1>1, <1>2, SessionKept
<1>4. Becomes(s, Respawn(tool[s], session'))
    BY <1>1, <1>3, InService, RespawnFits
<1> QED
    BY <1>1, <1>3, <1>4, StepKeeps

\* The one step that starts a signer, of the identity that the call captured.
LEMMA SpawnKeeps ==
    ASSUME IdentityIInv, NEW s \in Tools, SpawnAgentSigner(s)
    PROVE  IdentityIInv'
<1> DEFINE n == Len(spawned) + 1
           next == [tool[s] EXCEPT !.stage = "ensured", !.starting = Nil, !.signer = n]
<1>1. /\ UNCHANGED <<env, made, forgotten, crossed>>
      /\ spawned' = Append(spawned, tool[s].starting)
      /\ live' = live \cup {n}
      /\ session' = [session EXCEPT !.signer = n]
      /\ tool[s].stage = "spawning"
    BY DEF SpawnAgentSigner
<1>2. tool' = [tool EXCEPT ![s] = next]
    BY DEF SpawnAgentSigner, IdentityIInv, IdentityShape, Jobs
<1>3. s \in UnderWay /\ Carries(s, tool[s])
    BY <1>1, InService DEF UnderWay, Ended
<1>4. /\ tool[s] \in Jobs /\ tool[s].by = Nil
      /\ {tool[s].agent, tool[s].starting, tool[s].by} \subseteq 0 .. made
      /\ session \in [key : 0 .. made, agent : 0 .. made, password : BOOLEAN,
                      wallet : BOOLEAN, signer : 0 .. Len(spawned), open : BOOLEAN]
      /\ made \in Nat /\ Len(spawned) \in Nat /\ spawned \in Seq(1 .. made)
      /\ live \subseteq 1 .. Len(spawned) /\ forgotten \subseteq 1 .. made
    BY <1>3, Typed DEF Carries, Nil
<1>5. /\ tool[s].starting \in 1 .. made
      /\ tool[s].starting \in Held
    <2>1. tool[s].starting # Nil /\ tool[s].starting \in Held
        BY <1>1 DEF IdentityIInv, KeysKnown, SignersFollow
    <2> QED
        BY <1>4, <2>1 DEF Nil
<1>6. /\ spawned' \in Seq(1 .. made) /\ Len(spawned') = n /\ spawned'[n] = tool[s].starting
      /\ \A h \in Handles : spawned'[h] = spawned[h]
    BY <1>1, <1>4, <1>5 DEF Handles
<1>7. SameKey
    <2>1. session' = [key |-> session.key, agent |-> session.agent, password |-> session.password,
                      wallet |-> session.wallet, signer |-> n, open |-> session.open]
        BY <1>1, <1>4
    <2>2. session' \in [key : {session.key}, agent : {session.agent, session.key}, password : BOOLEAN,
                        wallet : BOOLEAN, signer : 0 .. n, open : BOOLEAN]
        BY <1>4, <2>1
    <2>3. session.password => session.key \notin forgotten
        BY DEF IdentityIInv, KeysKnown
    <2>4. session.key # Nil
        BY <1>4, <1>5 DEF IdentityIInv, KeysKnown
    <2>5. live' \subseteq 1 .. n /\ Len(spawned) <= n
        BY <1>1, <1>4
    <2> QED
        BY <1>1, <1>4, <1>5, <1>6, <2>1, <2>2, <2>3, <2>4, <2>5 DEF SameKey
<1>8. /\ next \in Jobs
      /\ next.stage = "ensured" /\ next.starting = Nil /\ next.signer = n
      /\ next.kind = tool[s].kind /\ next.agent = tool[s].agent /\ next.by = Nil
      /\ next.overlapped = tool[s].overlapped
    <2>1. tool[s] \in Jobs /\ tool[s].by = Nil /\ n \in Nat
        BY <1>4
    <2> HIDE DEF n
    <2> QED
        BY ONLY <2>1 DEF Jobs, ToolStages, Nil
<1> HIDE DEF next
<1>9. Becomes(s, next)
    BY <1>1, <1>3, <1>4, <1>5, <1>6, <1>8 DEF Becomes, Carries, Ended, Nil
<1> QED
    BY <1>2, <1>7, <1>9, StepKeeps

\* A signer does not start.
LEMMA SpawnFailsKeeps ==
    ASSUME IdentityIInv, NEW s \in Tools, SpawnFails(s)
    PROVE  IdentityIInv'
<1> DEFINE next == [tool[s] EXCEPT !.stage = "ensured", !.starting = Nil]
<1>1. /\ UNCHANGED <<env, made, spawned, live, forgotten, crossed>>
      /\ session' = [session EXCEPT !.signer = Nil]
      /\ s \in UnderWay
    BY DEF SpawnFails, UnderWay, Ended
<1>2. tool' = [tool EXCEPT ![s] = next]
    BY DEF SpawnFails, IdentityIInv, IdentityShape, Jobs
<1>3. /\ session' = [session EXCEPT !.wallet = session.wallet, !.signer = Nil, !.open = session.open]
      /\ session.wallet \in BOOLEAN /\ session.open \in BOOLEAN
    BY <1>1 DEF IdentityIInv, SignsAsItself, SessionTypeOK
<1>4. SameKey /\ session'.agent = session.agent
    BY <1>1, <1>3, SessionKept
<1>5. Carries(s, tool[s])
    BY <1>1, InService
<1>6. /\ tool[s] \in Jobs /\ tool[s].by = Nil /\ {tool[s].agent, 0, tool[s].by} \subseteq 0 .. made
      /\ tool[s].signer = tool[s].signer /\ tool[s].signer <= Len(spawned)
    BY <1>5, Typed DEF Carries, Nil
<1>7. /\ next \in Jobs
      /\ next.stage = "ensured" /\ next.starting = Nil /\ next.signer = tool[s].signer
      /\ next.kind = tool[s].kind /\ next.agent = tool[s].agent /\ next.by = Nil
      /\ next.overlapped = tool[s].overlapped
    BY ONLY <1>6 DEF Jobs, ToolStages, Nil
<1>8. tool[s].signer = Nil
    BY DEF SpawnFails, IdentityIInv, IdentityShape
<1> HIDE DEF next
<1>9. Becomes(s, next)
    BY <1>1, <1>4, <1>5, <1>6, <1>7, <1>8 DEF Becomes, Carries, Ended, Nil
<1> QED
    BY <1>2, <1>4, <1>9, StepKeeps

\* A call that is refused or fails.
LEMMA FailureKeeps ==
    ASSUME IdentityIInv, NEW s \in UnderWay, tool[s].kind = "sign" \/ tool[s].stage = "creating",
           tool' = [tool EXCEPT ![s] = Failed],
           UNCHANGED <<env, session, made, spawned, live, forgotten, crossed>>
    PROVE  IdentityIInv'
<1>1. s \in Tools
    BY DEF UnderWay
<1>2. SameKey
    BY SessionSame
<1>3. /\ Failed \in Jobs /\ Failed.stage = "failed" /\ Failed.by = Nil /\
           Failed.agent = Nil
      /\ Failed.starting = Nil /\ Failed.signer = Nil
    BY DEF Failed, Idle, Jobs, ToolStages, Nil
<1>4. made \in Nat /\ Len(spawned) \in Nat
    BY <1>1, Typed
<1>5. Becomes(s, Failed)
    BY <1>1, <1>2, <1>3, <1>4 DEF Becomes, Ended, Nil, SameKey
<1> QED
    BY <1>1, <1>2, <1>5, StepKeeps

\* A call that ends, whoever it signed as.
LEMMA EndKeeps ==
    ASSUME IdentityIInv, SameKey, NEW s \in UnderWay, NEW by \in 0 .. made,
           tool' = [tool EXCEPT ![s] = Done(tool[s], by)],
           by # Nil /\ ~tool[s].overlapped => by \in crossed \cup {tool[s].agent},
           tool[s].kind = "register" /\ tool[s].stage # "creating" => session'.agent = session.key
    PROVE  IdentityIInv'
<1> DEFINE next == Done(tool[s], by)
<1>1. s \in Tools /\ Carries(s, tool[s]) /\ tool[s] \in Jobs /\ made \in Nat /\ Len(spawned') \in Nat
    BY InService, Typed DEF UnderWay, Carries, SameKey
<1>2. by \in Nat
    BY <1>1
<1>3. /\ next \in Jobs
      /\ next.stage = "done" /\ next.starting = Nil /\ next.signer = Nil
      /\ next.agent = tool[s].agent /\ next.by = by
      /\ next.overlapped = tool[s].overlapped
    BY ONLY <1>1, <1>2 DEF Jobs, ToolStages, Nil, Done
<1> HIDE DEF next
<1>4. Becomes(s, next)
    BY <1>1, <1>3 DEF Becomes, Carries, Ended, Nil
<1> QED
    BY <1>1, <1>4, StepKeeps DEF next

\* register_agent names the identity it has made, generate_agent_keys is done.
LEMMA SettleKeeps ==
    ASSUME IdentityIInv, NEW s \in Tools, Settle(s)
    PROVE  IdentityIInv'
<1> DEFINE named == IF tool[s].kind = "register" THEN session.key ELSE session.agent
           password == session.password /\ session.signer = Nil
<1>1. /\ UNCHANGED <<env, made, spawned, live, crossed>>
      /\ tool[s].stage = "ensured" /\ tool[s].kind # "sign" /\ s \in UnderWay
      /\ session' = [session EXCEPT !.password = password, !.agent = named]
      /\ forgotten' = IF session.signer # Nil THEN forgotten \cup {session.key} ELSE forgotten
      /\ tool' = [tool EXCEPT ![s] = Done(tool[s], Nil)]
    BY DEF Settle, PasswordAfter, UnderWay, Ended
<1>2. /\ session \in [key : 0 .. made, agent : 0 .. made, password : BOOLEAN,
                      wallet : BOOLEAN, signer : 0 .. Len(spawned), open : BOOLEAN]
      /\ made \in Nat /\ Len(spawned) \in Nat /\ spawned \in Seq(1 .. made)
      /\ live \subseteq 1 .. Len(spawned) /\ forgotten \subseteq 1 .. made
    BY <1>1, Typed
<1>3. named \in {session.agent, session.key} /\ password \in BOOLEAN
    OBVIOUS
<1>4. session' = [key |-> session.key, agent |-> named, password |-> password,
                  wallet |-> session.wallet, signer |-> session.signer, open |-> session.open]
    <2> HIDE DEF named, password
    <2> QED
        BY <1>1, <1>2
<1>5. session' \in [key : {session.key}, agent : {session.agent, session.key}, password : BOOLEAN,
                    wallet : BOOLEAN, signer : 0 .. Len(spawned), open : BOOLEAN]
    <2> HIDE DEF named, password
    <2> QED
        BY <1>2, <1>3, <1>4
<1>6. forgotten' \subseteq 1 .. made
    BY <1>1, <1>2 DEF IdentityIInv, KeysKnown, Nil
<1>7. password => session.key \notin forgotten'
    BY <1>1 DEF IdentityIInv, KeysKnown
<1>8. SameKey
    <2>1. session'.password => session.password /\ session.key \notin forgotten'
        BY <1>4, <1>7
    <2>2. session'.signer = session.signer
        BY <1>4
    <2>3. session.signer # Nil =>
            session.key # Nil /\ spawned[session.signer] \in Held
        BY DEF IdentityIInv, KeysKnown, SignersFollow
    <2> QED
        BY <1>1, <1>2, <1>5, <1>6, <2>1, <2>2, <2>3 DEF SameKey
<1>9. tool[s].kind = "register" => session'.agent = session.key
    BY <1>4
<1>10. Nil \in 0 .. made
    BY <1>2 DEF Nil
<1> HIDE DEF named, password
<1> QED
    BY <1>1, <1>8, <1>9, <1>10, EndKeeps

\* What a call signs is signed by the signer it has, or by the wallet.
LEMMA SigningKeeps ==
    ASSUME IdentityIInv, NEW s \in Tools, SignMessage(s) \/ FallbackWallet(s)
    PROVE  IdentityIInv'
<1>1. /\ tool[s].stage = "ensured" /\ tool[s].kind = "sign" /\ s \in UnderWay
      /\ UNCHANGED <<env, made, spawned, live, forgotten, crossed>>
    BY DEF SignMessage, FallbackWallet, UnderWay, Ended
<1>2. /\ made \in Nat /\ spawned \in Seq(1 .. made) /\ Len(spawned) \in Nat
      /\ session.key \in 0 .. made /\ live \subseteq 1 .. Len(spawned)
    BY Typed
<1>3. ~tool[s].overlapped => session.key = tool[s].agent
    BY <1>1 DEF IdentityIInv, KeyHolds, Signing
<1>4. CASE SignMessage(s)
    <2>1. /\ tool[s].signer \in live /\ session' = session
          /\ tool' = [tool EXCEPT ![s] = Done(tool[s], spawned[tool[s].signer])]
        BY <1>4 DEF SignMessage
    <2>2. spawned[tool[s].signer] \in 0 .. made /\ tool[s].signer # Nil
        <3>1. tool[s].signer \in 1 .. Len(spawned)
            BY <1>2, <2>1
        <3>2. spawned[tool[s].signer] \in 1 .. made
            BY ONLY <1>2, <3>1
        <3> QED
            BY ONLY <1>2, <3>1, <3>2 DEF Nil
    <2>3. ~tool[s].overlapped => spawned[tool[s].signer] \in Held
        BY <1>1, <2>2 DEF IdentityIInv, SignersFollow, Signing
    <2>4. SameKey
        BY <1>1, <2>1, SessionSame
    <2> QED
        BY <1>1, <1>3, <2>1, <2>2, <2>3, <2>4, EndKeeps DEF Held
<1>5. CASE FallbackWallet(s)
    <2>1. /\ session' = [session EXCEPT !.wallet = TRUE]
          /\ tool' = [tool EXCEPT ![s] = Done(tool[s], session.key)]
        BY <1>5 DEF FallbackWallet
    <2>2. /\ session' = [session EXCEPT !.wallet = TRUE, !.signer = session.signer, !.open = session.open]
          /\ session.open \in BOOLEAN
        BY <2>1 DEF IdentityIInv, SignsAsItself, SessionTypeOK
    <2>3. SameKey
        BY <1>1, <2>2, SessionKept
    <2> QED
        BY <1>1, <1>2, <1>3, <2>1, <2>3, EndKeeps
<1> QED
    BY <1>4, <1>5

\* A registration under the identity there is names the session's key.
LEMMA RegisterKnownKeeps ==
    ASSUME IdentityIInv, NEW s \in Tools, RegisterKnown(s)
    PROVE  IdentityIInv'
<1> DEFINE next == ToolCall("register", "done")
           busy == \E t \in UnderWay : "register" # "sign" \/ Replacing(t)
<1>1. /\ UNCHANGED <<env, made, spawned, live, forgotten, crossed>>
      /\ session' = [session EXCEPT !.agent = session.key]
      /\ s \notin UnderWay
    BY DEF RegisterKnown
<1>2. tool' = [tool EXCEPT ![s] = next]
    BY DEF RegisterKnown
<1>3. /\ session \in [key : 0 .. made, agent : 0 .. made, password : BOOLEAN,
                      wallet : BOOLEAN, signer : 0 .. Len(spawned), open : BOOLEAN]
      /\ made \in Nat /\ Len(spawned) \in Nat /\ spawned \in Seq(1 .. made)
      /\ live \subseteq 1 .. Len(spawned) /\ forgotten \subseteq 1 .. made
    BY Typed
<1>4. session' = [key |-> session.key, agent |-> session.key, password |-> session.password,
                  wallet |-> session.wallet, signer |-> session.signer, open |-> session.open]
    BY <1>1, <1>3
<1>5. SameKey
    <2>1. session.signer # Nil =>
            session.key # Nil /\ spawned[session.signer] \in Held
        BY DEF IdentityIInv, KeysKnown, SignersFollow
    <2>2. session.password => session.key \notin forgotten
        BY DEF IdentityIInv, KeysKnown
    <2>3. session' \in [key : {session.key}, agent : {session.agent, session.key}, password : BOOLEAN,
                        wallet : BOOLEAN, signer : 0 .. Len(spawned), open : BOOLEAN]
        BY ONLY <1>3, <1>4
    <2>4. session'.password = session.password /\ session'.signer = session.signer
        BY ONLY <1>4
    <2> QED
        BY <1>1, <1>3, <2>1, <2>2, <2>3, <2>4 DEF SameKey, Handles
<1>6. next = [Idle EXCEPT !.kind = "register", !.stage = "done", !.agent = session.agent, !.overlapped = busy]
    BY Zenon DEF ToolCall
<1>7. busy \in BOOLEAN /\ session.agent \in Nat
    BY <1>3
<1> HIDE DEF busy, next
<1>8. /\ next \in Jobs
      /\ next.stage = "done" /\ next.starting = Nil /\ next.signer = Nil
      /\ next.agent = session.agent /\ next.by = Nil
    BY ONLY <1>6, <1>7 DEF Idle, Jobs, ToolStages, Nil
<1>9. Becomes(s, next)
    BY <1>1, <1>3, <1>4, <1>8 DEF Becomes, Ended, Nil
<1> QED
    BY <1>2, <1>5, <1>9, StepKeeps

-----------------------------------------------------------------------------
\* A replacement begins: whoever is under way is told that it was overlapped.
LEMMA BeginKeeps ==
    ASSUME IdentityIInv, NEW s \in Tools, NEW kind \in {"generate", "register"}, Begin(s, kind)
    PROVE  IdentityIInv'
<1> DEFINE next == ToolCall(kind, "creating")
           busy == \E t \in UnderWay : kind # "sign" \/ Replacing(t)
           marked == Overlapped(s)
<1>1. /\ UNCHANGED <<env, session, made, spawned, live, forgotten, crossed>>
      /\ tool' = [marked EXCEPT ![s] = next]
      /\ s \notin UnderWay
    BY DEF Begin
<1>2. /\ session.agent \in 0 .. made /\ made \in Nat /\ Len(spawned) \in Nat
    BY Typed
<1>3. /\ next \in Jobs
      /\ next.stage = "creating" /\ next.kind = kind /\ next.starting = Nil /\ next.signer = Nil
      /\ next.agent = session.agent /\ next.by = Nil
    <2>1. next = [Idle EXCEPT !.kind = kind, !.stage = "creating", !.agent = session.agent, !.overlapped = busy]
        BY Zenon DEF ToolCall
    <2>2. busy \in BOOLEAN /\ session.agent \in Nat
        BY <1>2
    <2> HIDE DEF busy, next
    <2> QED
        BY ONLY <2>1, <2>2 DEF Idle, Jobs, ToolStages, Nil
<1>4. ASSUME NEW t \in Tools
      PROVE  /\ marked[t] \in Jobs
             /\ marked[t].stage = tool[t].stage /\ marked[t].kind = tool[t].kind
             /\ marked[t].agent = tool[t].agent /\ marked[t].starting = tool[t].starting
             /\ marked[t].signer = tool[t].signer /\ marked[t].by = tool[t].by
             /\ tool[t].overlapped => marked[t].overlapped
             /\ t \in UnderWay /\ t # s => marked[t].overlapped
    <2> DEFINE marks == tool[t].overlapped \/ (t \in UnderWay /\ t # s)
    <2>1. tool[t] \in Jobs
        BY Typed
    <2>2. marked[t] = [tool[t] EXCEPT !.overlapped = marks]
        BY DEF Overlapped
    <2>3. marks \in {TRUE, FALSE}
        BY <2>1 DEF Jobs
    <2>4. CASE marks
        <3>1. marked[t] = [tool[t] EXCEPT !.overlapped = TRUE]
            <4> HIDE DEF marked
            <4> QED
                BY Zenon, <2>2, <2>3, <2>4
        <3> HIDE DEF marked, marks
        <3> QED
            BY ONLY <2>1, <3>1 DEF Jobs
    <2>5. CASE ~marks
        <3>1. marked[t] = [tool[t] EXCEPT !.overlapped = FALSE]
            <4> HIDE DEF marked
            <4> QED
                BY Zenon, <2>2, <2>3, <2>5
        <3>2. ~tool[t].overlapped /\ ~(t \in UnderWay /\ t # s)
            BY <2>5
        <3> HIDE DEF marked, marks
        <3> QED
            BY ONLY <2>1, <3>1, <3>2 DEF Jobs
    <2> QED
        BY <2>4, <2>5
<1>5. marked = [t \in Tools |-> marked[t]]
    BY DEF Overlapped
<1> HIDE DEF next, busy, marked
<1>6. /\ tool'[s] = next
      /\ \A t \in Tools \ {s} : tool'[t] = marked[t]
      /\ tool' \in [Tools -> Jobs]
    BY <1>1, <1>3, <1>4, <1>5
<1>7. \A t \in UnderWay : t \in Tools /\ t # s
    BY <1>1 DEF UnderWay
<1>8. \A t \in Tools : t \in UnderWay' <=> t = s \/ t \in UnderWay
    BY <1>3, <1>4, <1>6 DEF UnderWay, Ended
<1>9. SessionTypeOK' /\ SignedUnderOwnName'
    <2>1. \A t \in Tools : {tool'[t].agent, tool'[t].starting, tool'[t].by} \subseteq 0 .. made
        BY <1>2, <1>3, <1>4, <1>6, Typed DEF Nil
    <2>2. SessionTypeOK'
        BY <1>1, <2>1 DEF IdentityIInv, SignsAsItself, SessionTypeOK, Handles
    <2>3. SignedUnderOwnName'
        BY <1>1, <1>3, <1>4, <1>6 DEF IdentityIInv, SignsAsItself, SignedUnderOwnName
    <2> QED
        BY <2>2, <2>3
<1>10. IdentityShape'
    BY <1>1, <1>2, <1>3, <1>4, <1>6 DEF IdentityIInv, IdentityShape, Nil
<1>11. KeysKnown'
    BY <1>1, <1>3, <1>4, <1>6 DEF IdentityIInv, KeysKnown
<1>12. NameFollows'
    BY <1>1, <1>4, <1>6, <1>7, <1>8 DEF IdentityIInv, NameFollows
<1>13. KeyHolds'
    <2>1. \A t \in Tools : ~(Signing(t)' /\ ~tool'[t].overlapped)
        BY <1>3, <1>4, <1>6, <1>8 DEF Signing
    <2> QED
        BY <2>1 DEF KeyHolds
<1>14. SignersFollow'
    <2>1. \A t \in Tools : Signing(t)' => tool'[t].overlapped
        BY <1>3, <1>4, <1>6, <1>8 DEF Signing
    <2> QED
        BY <1>1, <1>3, <1>4, <1>6, <2>1 DEF IdentityIInv, SignersFollow, Held
<1> QED
    BY <1>9, <1>10, <1>11, <1>12, <1>13, <1>14 DEF IdentityIInv, SignsAsItself

\* An identity is made and replaces the one there is.
LEMMA CreateKeeps ==
    ASSUME IdentityIInv, NEW s \in Tools, CreateAgentIdentity(s)
    PROVE  IdentityIInv'
<1> DEFINE key == made + 1
           new == NewIdentity(key, tool[s].kind)
           next == Respawn(tool[s], session')
           named == IF tool[s].kind = "generate" THEN key ELSE session.agent
<1>1. /\ UNCHANGED <<env, spawned, live>>
      /\ tool[s].stage = "creating" /\ made < MaxIdentities /\ made' = key
      /\ session' = new
      /\ forgotten' = forgotten \cup ({session.key} \ {Nil})
      /\ tool' = [tool EXCEPT ![s] = EnsureSessionSigner(tool[s], session')]
      /\ crossed' = crossed \cup {tool[t].starting : t \in {u \in Tools : tool[u].stage = "spawning"}}
    BY DEF CreateAgentIdentity
<1>2. /\ tool[s] \in Jobs /\ tool[s].kind # "sign" /\ tool[s].by = Nil
      /\ {tool[s].agent, tool[s].starting, tool[s].by} \subseteq 0 .. made
      /\ session \in [key : 0 .. made, agent : 0 .. made, password : BOOLEAN,
                      wallet : BOOLEAN, signer : 0 .. Len(spawned), open : BOOLEAN]
      /\ made \in Nat /\ Len(spawned) \in Nat /\ spawned \in Seq(1 .. made)
      /\ live \subseteq 1 .. Len(spawned) /\ forgotten \subseteq 1 .. made
      /\ MaxIdentities \in Nat
    BY <1>1, Typed, SessionAssumption DEF IdentityIInv, IdentityShape
<1>3. new = [key |-> key, agent |-> named, password |-> TRUE, wallet |-> FALSE,
             signer |-> Nil, open |-> session.open]
    <2>1. new = [session EXCEPT !.key = key, !.agent = named, !.password = TRUE, !.wallet = FALSE,
                                !.signer = Nil]
        BY <1>2 DEF NewIdentity, NoSigner
    <2> HIDE DEF new, named, key
    <2> QED
        BY ONLY <1>2, <2>1
<1>4. /\ session' \in [key : 0 .. key, agent : 0 .. key, password : BOOLEAN,
                       wallet : BOOLEAN, signer : 0 .. Len(spawned), open : BOOLEAN]
      /\ session'.key = key /\ session'.agent = named /\ session'.password /\ session'.signer = Nil
    <2>1. named \in 0 .. key /\ key \in Nat /\ session.open \in BOOLEAN
        BY <1>2
    <2> HIDE DEF named, new
    <2> QED
        BY <1>1, <1>2, <1>3, <2>1 DEF Nil
<1>5. tool' = [tool EXCEPT ![s] = next]
    BY <1>1, <1>4 DEF EnsureSessionSigner
<1>6. /\ next \in Jobs
      /\ next.stage \in {"spawning", "ensured"} /\ next.signer = Nil
      /\ next.kind = tool[s].kind /\ next.agent = tool[s].agent /\ next.by = Nil
      /\ next.stage = "spawning" => next.starting = key
      /\ next.starting \in {key, tool[s].starting}
    <2>1. key \in Nat /\ session'.key = key
        BY <1>2, <1>4
    <2> HIDE DEF key
    <2>2. CASE session'.password /\ ~env.disabled
        <3> DEFINE call == [tool[s] EXCEPT !.stage = "spawning", !.starting = key, !.signer = Nil]
        <3>1. next = call
            BY <2>1, <2>2 DEF Respawn
        <3>2. /\ call \in Jobs /\ call.stage = "spawning" /\ call.signer = Nil
              /\ call.kind = tool[s].kind /\ call.agent = tool[s].agent /\ call.by = tool[s].by
              /\ call.starting = key
            BY ONLY <1>2, <2>1 DEF Jobs, ToolStages, Nil
        <3> QED
            BY <1>2, <3>1, <3>2
    <2>3. CASE ~(session'.password /\ ~env.disabled)
        <3> DEFINE call == [tool[s] EXCEPT !.stage = "ensured", !.signer = Nil]
        <3>1. next = call
            BY <2>3 DEF Respawn
        <3>2. /\ call \in Jobs /\ call.stage = "ensured" /\ call.signer = Nil
              /\ call.kind = tool[s].kind /\ call.agent = tool[s].agent /\ call.by = tool[s].by
              /\ call.starting = tool[s].starting
            BY ONLY <1>2 DEF Jobs, ToolStages, Nil
        <3> QED
            BY <1>2, <3>1, <3>2
    <2> QED
        BY <2>2, <2>3
<1> HIDE DEF next, new
<1>7. /\ tool'[s] = next
      /\ \A t \in Tools \ {s} : tool'[t] = tool[t]
      /\ tool' \in [Tools -> Jobs]
    BY <1>5, <1>6 DEF IdentityIInv, IdentityShape
<1>8. s \in UnderWay /\ \A t \in Tools : t \in UnderWay' <=> t \in UnderWay
    BY <1>1, <1>6, <1>7 DEF UnderWay, Ended
<1>9. SessionTypeOK'
    <2>1. spawned \in Seq(1 .. key) /\ 0 .. made \subseteq 0 .. key /\ 1 .. made \subseteq 1 .. key
        BY <1>2
    <2>2. \A t \in Tools : {tool'[t].agent, tool'[t].starting, tool'[t].by} \subseteq 0 .. key
        <3>1. \A t \in Tools : {tool[t].agent, tool[t].starting, tool[t].by} \subseteq 0 .. made
            BY Typed
        <3> QED
            <4>1. ASSUME NEW t \in Tools \ {s}
                  PROVE {tool'[t].agent, tool'[t].starting, tool'[t].by} \subseteq 0 .. key
                BY <1>7, <2>1, <3>1
            <4>2. {next.agent, next.starting, next.by} \subseteq 0 .. key
                <5>1. {tool[s].agent, tool[s].starting} \subseteq 0 .. made /\ Nil \in 0 .. key /\
                        key \in 0 .. key
                    BY <1>2 DEF Nil
                <5>2. /\ next.agent = tool[s].agent /\ next.by = Nil
                      /\ next.starting = key \/ next.starting = tool[s].starting
                    BY <1>6
                <5> QED
                    BY ONLY <2>1, <5>1, <5>2
            <4> QED
                BY <1>7, <4>1, <4>2
    <2>3. forgotten' \subseteq 1 .. key
        <3>1. {session.key} \ {Nil} \subseteq 1 .. made
            BY <1>2 DEF Nil
        <3> QED
            BY <1>1, <1>2, <2>1, <3>1
    <2>4. crossed' \subseteq 1 .. key
        <3>1. ASSUME NEW t \in {u \in Tools : tool[u].stage = "spawning"}
              PROVE  tool[t].starting \in 1 .. key
            BY <1>2, Typed DEF IdentityIInv, KeysKnown, Nil
        <3>2. crossed \subseteq 1 .. made
            BY DEF IdentityIInv, SignsAsItself, SessionTypeOK
        <3> QED
            BY <1>1, <2>1, <3>1, <3>2
    <2>5. key \in 0 .. MaxIdentities
        BY <1>1, <1>2
    <2> QED
        BY <1>1, <1>2, <1>4, <2>1, <2>2, <2>3, <2>4, <2>5
        DEF IdentityIInv, SignsAsItself, SessionTypeOK, Handles
<1>10. SignedUnderOwnName'
    BY <1>1, <1>6, <1>7 DEF IdentityIInv, SignsAsItself, SignedUnderOwnName
<1>11. IdentityShape'
    BY <1>1, <1>2, <1>6, <1>7 DEF IdentityIInv, IdentityShape, Nil
<1>12. KeysKnown'
    <2>1. key # Nil /\ key \notin forgotten'
        BY <1>1, <1>2 DEF Nil
    <2> QED
        BY <1>4, <1>6, <1>7, <2>1 DEF IdentityIInv, KeysKnown
<1>13. NameFollows'
    <2>1. tool[s].kind # "generate" => next.kind = "register"
        BY <1>2, <1>6 DEF Jobs
    <2>2. s \in UnderWay' /\ tool'[s].stage # "creating"
        BY <1>6, <1>7, <1>8
    <2> QED
        BY <1>4, <1>6, <1>7, <2>1, <2>2 DEF NameFollows
<1>14. KeyHolds'
    <2>1. Replacing(s)'
        BY <1>2, <1>6, <1>7, <1>8 DEF Replacing
    <2>2. \A t \in Tools : Signing(t)' => Signing(t) /\ tool'[t] = tool[t]
        BY <1>2, <1>6, <1>7, <1>8 DEF Signing
    <2>3. Replacing(s)
        BY <1>2, <1>8 DEF Replacing
    <2> QED
        BY <2>2, <2>3 DEF KeyHolds, IdentityIInv
<1>15. SignersFollow'
    <2>1. crossed \subseteq crossed' /\ session'.key = key
        BY <1>1, <1>4
    <2>2. ASSUME NEW t \in Tools, tool'[t].stage = "spawning"
          PROVE  tool'[t].starting \in Held'
        <3>1. CASE t = s
            BY <1>6, <1>7, <2>1, <2>2, <3>1 DEF Held
        <3>2. CASE t # s
            BY <1>1, <1>7, <2>2, <3>2 DEF Held
        <3> QED
            BY <3>1, <3>2
    <2>3. \A t \in Tools : Signing(t)' => Signing(t) /\ tool'[t] = tool[t]
        BY <1>2, <1>6, <1>7, <1>8 DEF Signing
    <2>4. Replacing(s)
        BY <1>2, <1>8 DEF Replacing
    <2> QED
        BY <1>4, <2>2, <2>3, <2>4 DEF KeyHolds, IdentityIInv, SignersFollow
<1> QED
    BY <1>9, <1>10, <1>11, <1>12, <1>13, <1>14, <1>15 DEF IdentityIInv, SignsAsItself

\* A signer dies, or the server closes the one it knows.
LEMMA QuietToolKeeps ==
    ASSUME IdentityIInv, SameKey, tool' = tool, session'.agent = session.agent
    PROVE  IdentityIInv'
<1>1. CASE Tools = {}
    BY <1>1 DEF IdentityIInv, SignsAsItself, SessionTypeOK, SignedUnderOwnName,
         IdentityShape, Held, KeysKnown, NameFollows, KeyHolds,
               SignersFollow, SameKey, UnderWay, Handles
<1>2. ASSUME NEW s \in Tools PROVE IdentityIInv'
    <2>1. \A t \in Tools : tool[t].signer <= Len(spawned) /\ tool[t].signer \in Nat
        BY Typed DEF Jobs
    <2>2. Len(spawned) \in Nat /\ Len(spawned') \in Nat
        BY <1>2, Typed DEF SameKey
    <2>3. SessionTypeOK' /\ SignedUnderOwnName'
        BY DEF IdentityIInv, SignsAsItself, SessionTypeOK, SignedUnderOwnName, SameKey,
             Handles
    <2>4. IdentityShape' /\ KeysKnown'
        BY <2>1, <2>2 DEF IdentityIInv, IdentityShape, KeysKnown, SameKey
    <2>5. NameFollows' /\ KeyHolds'
        BY DEF IdentityIInv, NameFollows, KeyHolds, Replacing, Signing, UnderWay, SameKey
    <2>6. SignersFollow'
        BY <2>1, <2>2 DEF IdentityIInv, SignersFollow, Signing, UnderWay, SameKey, Handles, Held,
             Nil
    <2> QED
        BY <2>3, <2>4, <2>5, <2>6 DEF IdentityIInv, SignsAsItself
<1> QED
    BY <1>1, <1>2

\* The session closes or a signer ends: the invariant holds.
LEMMA QuietStepKeeps ==
    ASSUME IdentityIInv, Close \/ \E h \in live : Die(h)
    PROVE  IdentityIInv'
<1>1. session \in [key : 0 .. made, agent : 0 .. made, password : BOOLEAN,
                   wallet : BOOLEAN, signer : 0 .. Len(spawned), open : BOOLEAN]
    BY DEF IdentityIInv, SignsAsItself, SessionTypeOK
<1>2. CASE Close
    <2>1. /\ UNCHANGED <<env, made, spawned, tool, forgotten, crossed>>
          /\ session' = [session EXCEPT !.open = FALSE, !.signer = Nil]
          /\ live' \subseteq live
        BY <1>2 DEF Close
    <2>2. /\ session' = [session EXCEPT !.wallet = session.wallet, !.signer = Nil, !.open = FALSE]
          /\ session.wallet \in BOOLEAN
        BY <1>1, <2>1
    <2> QED
        BY <2>1, <2>2, SessionKept, QuietToolKeeps
<1>3. CASE \E h \in live : Die(h)
    <2>1. /\ UNCHANGED <<env, session, made, spawned, tool, forgotten, crossed>>
          /\ live' \subseteq live
        BY <1>3 DEF Die
    <2>2. /\ session' = [session EXCEPT !.wallet = session.wallet, !.signer = session.signer, !.open = session.open]
          /\ session.wallet \in BOOLEAN /\ session.open \in BOOLEAN
        BY <1>1, <2>1
    <2> QED
        BY <2>1, <2>2, SessionKept, QuietToolKeeps
<1> QED
    BY <1>2, <1>3

\* One lemma per action, or per group of actions that end a call alike.
THEOREM SessionInvariant == SessionSpec => []IdentityIInv
<1>1. SessionInit => IdentityIInv
    <2> SUFFICES ASSUME SessionInit PROVE IdentityIInv
        OBVIOUS
    <2>1. /\ Idle \in Jobs /\ Idle.stage = "idle" /\ Idle.by = Nil /\
               Idle.agent = Nil
          /\ Idle.starting = Nil /\ Idle.signer = Nil
        BY DEF Idle, Jobs, ToolStages, Nil
    <2>2. \A s \in Tools : tool[s] = Idle
        BY DEF SessionInit
    <2>3. UnderWay = {}
        BY <2>1, <2>2 DEF UnderWay, Ended
    <2>4. /\ session = [key |-> Nil, agent |-> Nil, password |-> FALSE, wallet |-> FALSE,
                        signer |-> Nil, open |-> TRUE]
          /\ made = 0 /\ spawned = <<>> /\ live = {} /\ forgotten = {} /\ crossed = {}
          /\ env \in [allow : BOOLEAN, disabled : BOOLEAN]
        BY DEF SessionInit
    <2>5. SessionTypeOK
        <3>1. 0 \in 0 .. MaxIdentities
            BY SessionAssumption
        <3> QED
            BY <2>1, <2>2, <2>4, <3>1 DEF SessionTypeOK, Handles, Nil
    <2>6. SignedUnderOwnName /\ IdentityShape /\ KeysKnown
        BY <2>1, <2>2, <2>4 DEF SessionInit, SignedUnderOwnName, IdentityShape, KeysKnown, Nil
    <2>7. NameFollows /\ KeyHolds /\ SignersFollow
        BY <2>1, <2>2, <2>3, <2>4 DEF NameFollows, KeyHolds, SignersFollow, Signing, Nil
    <2> QED
        BY <2>5, <2>6, <2>7 DEF IdentityIInv, SignsAsItself
<1>2. IdentityIInv /\ [SessionNext]_sessionVars => IdentityIInv'
    <2> SUFFICES ASSUME IdentityIInv, [SessionNext]_sessionVars PROVE IdentityIInv'
        OBVIOUS
    <2>1. ASSUME NEW s \in Tools, GenerateAgentKeys(s) \/ RegisterAgent(s) PROVE IdentityIInv'
        BY <2>1, BeginKeeps DEF GenerateAgentKeys, RegisterAgent
    <2>2. ASSUME NEW s \in Tools, RegisterKnown(s) PROVE IdentityIInv'
        BY <2>2, RegisterKnownKeeps
    <2>3. ASSUME NEW s \in Tools, SignTaskAction(s) \/ SignForumAction(s) PROVE IdentityIInv'
        BY <2>3, BeginSignKeeps DEF SignTaskAction, SignForumAction
    <2>4. ASSUME NEW s \in Tools, CreateFails(s) \/ SignFails(s) \/ NoFallback(s)
          PROVE IdentityIInv'
        BY <2>4, FailureKeeps
        DEF CreateFails, SignFails, NoFallback, UnderWay, Ended
    <2>5. ASSUME NEW s \in Tools, Step(s) PROVE IdentityIInv'
        BY <2>4, <2>5, PingOkKeeps, PingFailsKeeps, SpawnKeeps, SpawnFailsKeeps, CreateKeeps, SettleKeeps,
           SigningKeeps DEF Step
    <2>6. CASE UNCHANGED sessionVars
        <3>1. session'.agent = session.agent /\ tool' = tool /\ SameKey
            BY <2>6, SessionSame DEF sessionVars
        <3> QED
            BY <3>1, QuietToolKeeps
    <2> QED
        BY <2>1, <2>2, <2>3, <2>5, <2>6, QuietStepKeeps DEF SessionNext
<1> QED
    BY <1>1, <1>2, PTL DEF SessionSpec

\* For any number of calls that overlap and of identities that replace each
\* other: what a call signs for an agent, if no replacement overlapped the call,
\* is signed with that agent's key, or with the key of an identity that was
\* replaced, at any time before, while a signer of its own was starting
\* (server.js, ensureSessionSigner, signViaSigner and fallbackWallet).
THEOREM SignsUnderItsName == SessionSpec => []SignsAsItself
<1>1. IdentityIInv => SignsAsItself
    BY DEF IdentityIInv
<1> QED
    BY <1>1, SessionInvariant, PTL

\* A signer is started from the password there is.
LEMMA RespawnStarts ==
    ASSUME NEW call \in Jobs, NEW sess
    PROVE  /\ Respawn(call, sess).stage \in {"spawning", "ensured"}
           /\ Respawn(call, sess).stage = "spawning" =>
                    sess.password /\ Respawn(call, sess).starting = sess.key
<1>1. CASE sess.password /\ ~env.disabled
    BY <1>1 DEF Respawn, Jobs
<1>2. CASE ~(sess.password /\ ~env.disabled)
    BY <1>2 DEF Respawn, Jobs
<1> QED
    BY <1>1, <1>2

\* A call asks the signer there is, or starts one if there is a password.
LEMMA EnsureStarts ==
    ASSUME NEW call \in Jobs, NEW sess
    PROVE  /\ EnsureSessionSigner(call, sess).stage \in {"pinging", "spawning", "ensured"}
           /\ EnsureSessionSigner(call, sess).stage = "spawning" =>
                    sess.password /\ EnsureSessionSigner(call, sess).starting = sess.key
<1>1. CASE sess.signer # Nil
    BY <1>1 DEF EnsureSessionSigner, Jobs
<1>2. CASE sess.signer = Nil
    BY <1>2, RespawnStarts DEF EnsureSessionSigner
<1> QED
    BY <1>1, <1>2

\* What a step that ends no identity needs to leave alone, for the end of one
\* to last.
StaysFinal(key) ==
    /\ forgotten \subseteq forgotten'
    /\ \A h \in live' : spawned'[h] # key
    /\ \A s \in Tools : tool'[s].stage = "spawning" => tool'[s].starting # key
    /\ ~(session'.wallet /\ session'.key = key)
    /\ \A s \in UnderWay : tool'[s].stage = "done" => tool'[s].by # key

\* One call goes on and the signers are the same.
LEMMA OneCallFinal ==
    ASSUME IdentityIInv, NEW key \in forgotten, Final(key), NEW s \in Tools, NEW next,
           tool' = [tool EXCEPT ![s] = next],
           next.stage = "spawning" => next.starting # key,
           s \in UnderWay /\ next.stage = "done" => next.by # key,
           forgotten \subseteq forgotten', live' \subseteq live, spawned' = spawned,
           ~(session'.wallet /\ session'.key = key)
    PROVE  StaysFinal(key)
<1>1. /\ tool'[s] = next
      /\ \A t \in Tools \ {s} : tool'[t] = tool[t]
    BY DEF IdentityIInv, IdentityShape
<1>2. \A t \in UnderWay : t \in Tools /\ tool[t].stage # "done"
    BY DEF UnderWay, Ended
<1> QED
    BY <1>1, <1>2 DEF StaysFinal, Final

\* What brings an identity back would need its password, its signer or its
\* wallet, and none of them is left.
LEMMA FinalStep ==
    ASSUME IdentityIInv, SessionNext, NEW key \in forgotten, Final(key)
    PROVE  Final(key)' /\ \A s \in UnderWay : tool'[s].stage = "done" => tool'[s].by # key
<1>1. session.password => session.key # key
    BY DEF IdentityIInv, KeysKnown
<1>2. ~(session.wallet /\ session.key = key)
    BY DEF Final
<1>3. key \in 1 .. made /\ key # Nil
    BY DEF IdentityIInv, SignsAsItself, SessionTypeOK, Nil
<1>4. \A s \in Tools : tool[s] \in Jobs
    BY Typed
<1>5. session \in [key : 0 .. made, agent : 0 .. made, password : BOOLEAN,
                   wallet : BOOLEAN, signer : 0 .. Len(spawned), open : BOOLEAN]
    BY DEF IdentityIInv, SignsAsItself, SessionTypeOK
<1>6. ASSUME NEW s \in Tools, NEW kind \in {"generate", "register"}, Begin(s, kind) PROVE StaysFinal(key)
    <2>1. ASSUME NEW t \in Tools
          PROVE  tool'[t].stage \in {"creating", tool[t].stage} /\
            tool'[t].starting \in {Nil, tool[t].starting}
        <3>1. CASE t = s
            <4>1. tool'[t] = ToolCall(kind, "creating")
                BY <1>6, <3>1 DEF Begin, Overlapped
            <4> QED
                BY <4>1 DEF ToolCall, Idle
        <3>2. CASE t # s
            <4>1. tool'[t] = [tool[t] EXCEPT !.overlapped = tool[t].overlapped \/ (t \in UnderWay /\ t # s)]
                BY <1>6, <3>2 DEF Begin, Overlapped
            <4> QED
                BY <1>4, <4>1 DEF Jobs
        <3> QED
            BY <3>1, <3>2
    <2>2. \A t \in UnderWay : t \in Tools /\ tool[t].stage # "done"
        BY DEF UnderWay, Ended
    <2> QED
        BY <1>3, <1>6, <2>1, <2>2 DEF Begin, StaysFinal, Final
<1>7. ASSUME NEW s \in Tools, RegisterKnown(s) PROVE StaysFinal(key)
    <2>1. ToolCall("register", "done").stage = "done"
        BY DEF ToolCall, Idle
    <2>2. session'.wallet = session.wallet /\ session'.key = session.key
        BY <1>5, <1>7 DEF RegisterKnown
    <2> QED
        BY <1>2, <1>7, <2>1, <2>2, OneCallFinal DEF RegisterKnown
<1>8. ASSUME NEW s \in Tools, BeginSign(s) PROVE StaysFinal(key)
    <2>1. ToolCall("sign", "spawning") \in Jobs
        BY <1>8, SigningBegins DEF BeginSign, Carries
    <2>2. EnsureSessionSigner(ToolCall("sign", "spawning"), session).stage \in {"pinging", "spawning", "ensured"}
        BY <2>1, EnsureStarts
    <2>3. EnsureSessionSigner(ToolCall("sign", "spawning"), session).stage = "spawning" =>
            EnsureSessionSigner(ToolCall("sign", "spawning"), session).starting # key
        BY <1>1, <2>1, EnsureStarts
    <2> QED
        BY <1>2, <1>8, <2>2, <2>3, OneCallFinal DEF BeginSign
<1>9. ASSUME NEW s \in Tools, PingOk(s) PROVE StaysFinal(key)
    <2> DEFINE next == [[tool[s] EXCEPT !.stage = "ensured"] EXCEPT !.signer = session.signer]
    <2>1. tool' = [tool EXCEPT ![s] = next]
        BY <1>4, <1>9 DEF PingOk, IdentityIInv, IdentityShape, Jobs
    <2>2. next.stage = "ensured"
        BY <1>4 DEF Jobs
    <2> QED
        BY <1>2, <1>9, <2>1, <2>2, OneCallFinal DEF PingOk
<1>10. ASSUME NEW s \in Tools, PingFails(s) PROVE StaysFinal(key)
    <2>1. session'.password = session.password /\ session'.key = session.key /\ session'.wallet = session.wallet
        BY <1>5, <1>10 DEF PingFails
    <2>2. /\ Respawn(tool[s], session').stage \in {"spawning", "ensured"}
          /\ Respawn(tool[s], session').stage = "spawning" =>
                    session'.password /\ Respawn(tool[s], session').starting = session'.key
        BY <1>4, RespawnStarts
    <2> QED
        BY <1>1, <1>2, <1>10, <2>1, <2>2, OneCallFinal DEF PingFails
<1>11. ASSUME NEW s \in Tools, SpawnAgentSigner(s) PROVE StaysFinal(key)
    <2>1. /\ spawned' = Append(spawned, tool[s].starting)
          /\ live' = live \cup {Len(spawned) + 1}
          /\ tool[s].starting # key
          /\ session'.wallet = session.wallet /\ session'.key = session.key
          /\ forgotten' = forgotten
        BY <1>5, <1>11 DEF SpawnAgentSigner, Final
    <2>2. \A h \in live' : spawned'[h] # key
        BY <2>1 DEF Final, IdentityIInv, SignsAsItself, SessionTypeOK, Handles
    <2>3. /\ \A t \in Tools \ {s} : tool'[t] = tool[t]
          /\ tool'[s].stage = "ensured"
        BY <1>4, <1>11 DEF SpawnAgentSigner, IdentityIInv, IdentityShape, Jobs
    <2>4. \A t \in UnderWay : t \in Tools /\ tool[t].stage # "done"
        BY DEF UnderWay, Ended
    <2> QED
        BY <1>2, <2>1, <2>2, <2>3, <2>4 DEF StaysFinal, Final
<1>12. ASSUME NEW s \in Tools, SpawnFails(s) PROVE StaysFinal(key)
    <2> DEFINE next == [[tool[s] EXCEPT !.stage = "ensured"] EXCEPT !.starting = Nil]
    <2>1. tool' = [tool EXCEPT ![s] = next]
        BY <1>4, <1>12 DEF SpawnFails, IdentityIInv, IdentityShape, Jobs
    <2>2. next.stage = "ensured"
        BY <1>4 DEF Jobs
    <2>3. session'.key = session.key /\ session'.wallet = session.wallet
        BY <1>5, <1>12 DEF SpawnFails
    <2> QED
        BY <1>2, <1>12, <2>1, <2>2, <2>3, OneCallFinal DEF SpawnFails
<1>13. ASSUME NEW s \in Tools, CreateFails(s) \/ SignFails(s) \/ NoFallback(s)
       PROVE StaysFinal(key)
    <2>1. Failed.stage = "failed"
        BY DEF Failed, Idle
    <2> QED
        BY <1>2, <1>13, <2>1, OneCallFinal DEF CreateFails, SignFails, NoFallback
<1>14. ASSUME NEW s \in Tools, CreateAgentIdentity(s) PROVE StaysFinal(key)
    <2>1. session'.key = made + 1
        BY <1>5, <1>14 DEF CreateAgentIdentity, NewIdentity
    <2>2. session'.key # key
        <3>1. made \in Nat
            BY <1>14, Typed
        <3> QED
            BY <1>3, <2>1, <3>1
    <2>3. /\ EnsureSessionSigner(tool[s], session').stage \in {"pinging", "spawning", "ensured"}
          /\ EnsureSessionSigner(tool[s], session').stage = "spawning" =>
                    session'.password /\ EnsureSessionSigner(tool[s], session').starting = session'.key
        BY <1>4, EnsureStarts
    <2> QED
        BY <1>14, <2>2, <2>3, OneCallFinal DEF CreateAgentIdentity
<1>15. ASSUME NEW s \in Tools, NEW by, Done(tool[s], by).stage = "done", Done(tool[s], by).by = by,
              tool' = [tool EXCEPT ![s] = Done(tool[s], by)], by # key,
              forgotten \subseteq forgotten', UNCHANGED <<live, spawned>>,
              ~(session'.wallet /\ session'.key = key)
       PROVE  StaysFinal(key)
    BY <1>15, OneCallFinal
<1>16. ASSUME NEW s \in Tools, NEW by
       PROVE Done(tool[s], by).stage = "done" /\ Done(tool[s], by).by = by
    BY <1>4 DEF Done, Jobs
<1>17. ASSUME NEW s \in Tools, Settle(s) PROVE StaysFinal(key)
    <2>1. session'.key = session.key /\ session'.wallet = session.wallet
        BY <1>5, <1>17 DEF Settle
    <2> QED
        BY <1>2, <1>3, <1>15, <1>16, <1>17, <2>1 DEF Settle
<1>18. ASSUME NEW s \in Tools, SignMessage(s) PROVE StaysFinal(key)
    <2>1. spawned[tool[s].signer] # key
        BY <1>18 DEF SignMessage, Final
    <2> QED
        BY <1>2, <1>15, <1>16, <1>18, <2>1 DEF SignMessage
<1>19. ASSUME NEW s \in Tools, FallbackWallet(s) PROVE StaysFinal(key)
    <2>1. session.key # key
        BY <1>1, <1>2, <1>19 DEF FallbackWallet, MayFallBack
    <2>2. session'.key = session.key
        BY <1>5, <1>19 DEF FallbackWallet
    <2> QED
        BY <1>15, <1>16, <1>19, <2>1, <2>2 DEF FallbackWallet
<1>20. ASSUME Close \/ \E h \in live : Die(h) PROVE StaysFinal(key)
    <2>1. /\ tool' = tool /\ spawned' = spawned /\ forgotten' = forgotten /\ live' \subseteq live
          /\ session'.key = session.key /\ session'.wallet = session.wallet
        BY <1>5, <1>20 DEF Close, Die
    <2>2. \A t \in UnderWay : t \in Tools /\ tool[t].stage # "done"
        BY DEF UnderWay, Ended
    <2> QED
        BY <1>2, <2>1, <2>2 DEF StaysFinal, Final
<1>21. StaysFinal(key)
    BY <1>6, <1>7, <1>8, <1>9, <1>10, <1>11, <1>12, <1>13, <1>14, <1>17, <1>18, <1>19, <1>20
    DEF SessionNext, Step, GenerateAgentKeys, RegisterAgent,
      SignTaskAction, SignForumAction
<1> QED
    BY <1>21 DEF StaysFinal, Final

\* "A dead signer is FINAL for this session".
THEOREM DeadStaysDead == SessionSpec => DeadIsFinal
<1>1. IdentityIInv /\ [SessionNext]_sessionVars => [\A key \in forgotten : Final(key) =>
         /\ Final(key)'
         /\ \A s \in UnderWay : tool'[s].stage = "done" => tool'[s].by # key]_sessionVars
    BY FinalStep
<1> QED
    BY <1>1, SessionInvariant, PTL DEF SessionSpec, DeadIsFinal
==============================================================================
