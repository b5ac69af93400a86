----------------------------- MODULE ServerGate ------------------------------
(***************************************************************************)
(* The smart account tools of the MCP server (mcp-server/src/server.js)    *)
(* with the state they keep (chain-state-store.js): processes that share   *)
(* one store, each with calls that interleave at their awaits, boot        *)
(* lazily, restart, and may be given the RPC URL of another chain.         *)
(*                                                                         *)
(* Abstractions.  One pair of owner and emergency keys, so that every      *)
(* account is a candidate for reuse.  A contract is its address and the    *)
(* sessions registered with it.  A digest is the intent with its session.  *)
(* The daily soft limit and the retries of the relayer are in Relay, the   *)
(* audit trail in AuditTrail; metrics and the wording of answers are left  *)
(* out, and so is the in-process chain, which restores nothing.            *)
(***************************************************************************)
EXTENDS Integers, FiniteSets, Functions

CONSTANTS
    Slots,        \* calls that may be under way: <<server, number>>
    Chains,       \* RPC URLs
    Addresses,    \* of contracts: the same one may be deployed on two chains
    Requests,     \* what setup may be asked for: session id and config
    Intents,      \* action and amount
    Policies,     \* contents of the policy file: ok, and rules by action
    FirstPolicy,  \* what it holds at first
    Harmless,     \* SIMULATION_SKIPPABLE_ACTIONS
    Strict,       \* POLICY_FAIL_MODE
    Window,       \* SIMULATION_WINDOW_MS
    StoreFails,   \* may a write of the store fail?
    LastTime,
    MaxCalls,     \* bound: calls that begin
    MaxOther      \* bound: restarts, edits of the policy, failed writes and ticks

ASSUME GateAssumption ==
    /\ {Window, LastTime, MaxCalls, MaxOther} \subseteq Nat
    /\ FirstPolicy \in Policies
    /\ {Strict, StoreFails} \subseteq BOOLEAN

None == "none"
Never == -1
Servers == {x[1] : x \in Slots}
SessionIds == {r.session : r \in Requests}

VARIABLES
    now,
    url,          \* server -> the RPC URL of its environment
    up,           \* server -> has its chain environment booted?
    accounts,     \* server -> address -> sessions, the current one, chainUrl
    context,      \* server -> smartAccountContext
    armed,        \* server -> simulationLog: address -> digest and time
    job,          \* slot -> the call under way
    meta,         \* KEY_META: the chain the store was last written for
    rows,         \* address -> sessions and the current one
    arms,         \* address -> digest and time
    contracts,    \* chain -> address -> session id -> config
    file,         \* the policy file
    simulatedAt,  \* history: when a digest was last told to have passed its simulation
    acknowledged, \* history: sessions that setup answered for
    mixed,        \* history: rows were written that meta does not speak for
    calls,        \* begun so far
    others        \* the others so far

memory == <<up, accounts, context, armed>>
store == <<meta, rows, arms>>
history == <<simulatedAt, acknowledged, mixed>>
bounds == <<calls, others>>
vars == <<now, url, memory, job, store, contracts, file, history, bounds>>

Of(x) == x[1]
NoContext == [account |-> None, session |-> None]
NoJob == [stage |-> "free", account |-> None, session |-> None, config |-> None,
          intent |-> None, policy |-> None, at |-> 0]

Call == calls < MaxCalls /\ calls' = calls + 1
Other == others < MaxOther /\ others' = others + 1

\* The pairs of f, and those of g that f has no other for.
Over(f, g) == [k \in DOMAIN f \cup DOMAIN g |-> IF k \in DOMAIN f THEN f[k] ELSE g[k]]

With(f, key, value) == Over([k \in {key} |-> value], f)

Digest(intent, session) == <<intent, session>>

Init ==
    /\ now = 0
    /\ url \in [Servers -> Chains]
    /\ up = [s \in Servers |-> FALSE]
    /\ accounts = [s \in Servers |-> <<>>]
    /\ context = [s \in Servers |-> NoContext]
    /\ armed = [s \in Servers |-> <<>>]
    /\ job = [x \in Slots |-> NoJob]
    /\ meta = None
    /\ rows = <<>>
    /\ arms = <<>>
    /\ contracts = [c \in Chains |-> <<>>]
    /\ file = FirstPolicy
    /\ simulatedAt = <<>>
    /\ acknowledged = {}
    /\ mixed = FALSE
    /\ calls = 0
    /\ others = 0

-----------------------------------------------------------------------------
(* The store. *)

\* Mutant: the row takes the sessions of the process that writes.
IncomingSessions(existing, incoming) == incoming

UnionBySessionId(existing, incoming) == Over(incoming, existing)

\* What is written is merged with what is there; no process can empty a row.
UpsertAccountRow(a, entry) ==
    LET row == IF a \in DOMAIN rows THEN rows[a] ELSE [sessions |-> <<>>, current |-> None] IN
    [sessions |-> IF a \in DOMAIN rows THEN UnionBySessionId(row.sessions, entry.sessions)
                  ELSE entry.sessions,
     current |-> IF entry.current = None THEN row.current ELSE entry.current]

\* Only what a process itself deployed or found under a known chain speaks
\* for a chain.
MetaOf(entries) ==
    LET spoken == {entries[a].url : a \in DOMAIN entries} \ {None} IN
    IF spoken = {} THEN meta ELSE CHOOSE u \in spoken : TRUE

Write(s, entries, spokenFor) ==
    /\ rows' = Over([a \in DOMAIN entries |-> UpsertAccountRow(a, entries[a])], rows)
    /\ meta' = spokenFor
    /\ mixed' = (mixed \/ (entries # <<>> /\ {spokenFor, meta} \ {None} # {url[s]}))

\* persistSmartAccountState, done or not: every entry of the process is
\* written, its row before the chain; a failure leaves what was written, the
\* last row perhaps without its chain.
Persist(s, entries, done) ==
    \/ done /\ Write(s, entries, MetaOf(entries)) /\ UNCHANGED others
    \/ /\ ~done /\ StoreFails /\ Other
       /\ \E written \in SUBSET DOMAIN entries : \E last \in SUBSET written :
            /\ Cardinality(last) <= 1
            /\ Write(s, Restrict(entries, written), MetaOf(Restrict(entries, written \ last)))

\* One arm of the simulation log.
PersistSimArm(a, arm) ==
    \/ arms' = With(arms, a, arm) /\ UNCHANGED others
    \/ StoreFails /\ UNCHANGED arms /\ Other

-----------------------------------------------------------------------------
(* Boot and restart. *)

RowsAreOurs(s) == meta \in {None, url[s]}

\* The rows carry no chain of their own: the store's one is put to each.
LoadedRow(a) == [sessions |-> rows[a].sessions, current |-> rows[a].current, url |-> meta]

RestoredAccounts(s) == IF RowsAreOurs(s) THEN [a \in DOMAIN rows |-> LoadedRow(a)] ELSE <<>>

\* The simulations come back whatever the chain.
RestoredLog == arms

\* bootChainEnv.  A boot that fails changes nothing and is tried again.
Boot(s) ==
    /\ ~up[s]
    /\ up' = [up EXCEPT ![s] = TRUE]
    /\ armed' = [armed EXCEPT ![s] = RestoredLog]
    /\ LET restored == RestoredAccounts(s)
       IN  /\ accounts' = [accounts EXCEPT ![s] = restored]
           /\ \/ /\ Cardinality(DOMAIN restored) = 1
                 /\ \E a \in DOMAIN restored :
                        context' = [context EXCEPT ![s] =
                                       [account |-> a, session |-> restored[a].current]]
              \/ Cardinality(DOMAIN restored) # 1 /\ context' = context
    /\ UNCHANGED <<now, url, job, store, contracts, file, history, bounds>>

\* The process ends, with the calls it serves, and starts again.
Restart(s, u) ==
    /\ up[s]
    /\ Other /\ UNCHANGED calls
    /\ url' = [url EXCEPT ![s] = u]
    /\ up' = [up EXCEPT ![s] = FALSE]
    /\ accounts' = [accounts EXCEPT ![s] = <<>>]
    /\ context' = [context EXCEPT ![s] = NoContext]
    /\ armed' = [armed EXCEPT ![s] = <<>>]
    /\ job' = [x \in Slots |-> IF Of(x) = s THEN NoJob ELSE job[x]]
    /\ UNCHANGED <<now, store, contracts, file, history>>

-----------------------------------------------------------------------------
(* Calls. *)

At(x, stage) == job[x].stage = stage
Continues(x, notes) == job' = [job EXCEPT ![x] = notes]
Ends(x) == Continues(x, NoJob)

\* A slot of a server takes a call once those before it are taken.
Begins(x) ==
    /\ up[Of(x)] /\ At(x, "free")
    /\ Call
    /\ \A y \in Slots : Of(y) = Of(x) /\ y[2] < x[2] => ~At(y, "free")

\* The config a session was registered with says the same.
SameSessionConfig(existing, next) == existing = next

Registered(c, a) == IF a \in DOMAIN contracts[c] THEN DOMAIN contracts[c][a] ELSE {}

\* smart_account_setup, its last part: what follows the last await.
FinishSetup(x, a, r) ==
    LET s == Of(x)
        entry == [accounts[s][a] EXCEPT !.sessions = With(@, r.session, r.config),
                                        !.current = r.session]
    IN  /\ accounts' = [accounts EXCEPT ![s] = With(@, a, entry)]
        /\ context' = [context EXCEPT ![s] = [account |-> a, session |-> r.session]]
        /\ \E done \in BOOLEAN :
               /\ Persist(s, accounts'[s], done)
               /\ acknowledged' = IF done THEN acknowledged \cup {<<a, r.session, r.config>>}
                                  ELSE acknowledged
        /\ Ends(x)
        /\ UNCHANGED <<now, url, up, armed, arms, contracts, file, simulatedAt>>

\* An entry of the owner is taken if there is one, of several the first of
\* the map, whichever that is; a session it has under another config is
\* refused, the same one is answered for at once.
StartSetup(x, r) ==
    /\ Begins(x)
    /\ LET s == Of(x)
           begun == [NoJob EXCEPT !.session = r.session, !.config = r.config]
       IN  \/ /\ accounts[s] = <<>>
              /\ Continues(x, [begun EXCEPT !.stage = "deploying"])
              /\ UNCHANGED <<now, url, memory, store, contracts, file, history, others>>
           \/ \E a \in DOMAIN accounts[s] :
                 LET held == accounts[s][a].sessions IN
                 \/ /\ r.session \notin DOMAIN held
                    /\ Continues(x, [begun EXCEPT !.stage = "registering", !.account = a])
                    /\ UNCHANGED <<now, url, memory, store, contracts, file, history, others>>
                 \/ /\ r.session \in DOMAIN held /\ SameSessionConfig(held[r.session], r.config)
                    /\ FinishSetup(x, a, r)

DeploySmartAccount(c, a) ==
    /\ a \notin DOMAIN contracts[c]
    /\ contracts' = [contracts EXCEPT ![c] = With(@, a, <<>>)]

\* The contract is deployed and the entry stored, without a session.  The call
\* fails when nothing is deployed, and when it is but the answer is lost.
Deploy(x) ==
    /\ At(x, "deploying")
    /\ LET s == Of(x) IN
       \/ \E a \in Addresses :
              /\ DeploySmartAccount(url[s], a)
              /\ accounts' = [accounts EXCEPT ![s] =
                     With(@, a, [sessions |-> <<>>, current |-> None, url |-> url[s]])]
              /\ Continues(x, [job[x] EXCEPT !.stage = "registering", !.account = a])
       \/ /\ UNCHANGED contracts \/ \E a \in Addresses : DeploySmartAccount(url[s], a)
          /\ Ends(x) /\ UNCHANGED accounts
    /\ UNCHANGED <<now, url, up, context, armed, store, file, history, bounds>>

\* Mutant: the call goes on after a registration that failed.
RegisterGoesOn(x, ok) == Continues(x, [job[x] EXCEPT !.stage = "registered"])

AfterRegister(x, ok) ==
    IF ok THEN Continues(x, [job[x] EXCEPT !.stage = "registered"]) ELSE Ends(x)

\* A session is registered once; a transaction to an address without code
\* succeeds and does nothing.
RegisterSession(c, a, k, config) ==
    /\ k \notin Registered(c, a)
    /\ contracts' = IF a \in DOMAIN contracts[c]
                    THEN [contracts EXCEPT ![c][a] = With(@, k, config)]
                    ELSE contracts

\* A registration may be mined and its answer still be an error.
Register(x) ==
    /\ At(x, "registering")
    /\ \/ /\ RegisterSession(url[Of(x)], job[x].account, job[x].session, job[x].config)
          /\ \E ok \in BOOLEAN : AfterRegister(x, ok)
       \/ AfterRegister(x, FALSE) /\ UNCHANGED contracts
    /\ UNCHANGED <<now, url, memory, store, file, history, bounds>>

EndSetup(x) ==
    /\ At(x, "registered")
    /\ FinishSetup(x, job[x].account, [session |-> job[x].session, config |-> job[x].config])
    /\ UNCHANGED calls

-----------------------------------------------------------------------------
(* selectSmartAccount. *)

\* The account asked for, else the context's, else the only one.
SelectedAccount(s, a) ==
    CASE a # None -> a
      [] a = None /\ context[s].account \in DOMAIN accounts[s] -> context[s].account
      [] OTHER -> IF Cardinality(DOMAIN accounts[s]) = 1
                  THEN CHOOSE b \in DOMAIN accounts[s] : TRUE ELSE None

SelectedSession(s, a, k) ==
    CASE k # None -> k
      [] k = None /\ context[s].account = a /\ context[s].session # None -> context[s].session
      [] OTHER -> accounts[s][a].current

\* The tools that work on one account begin so; a selection that fails
\* changes nothing, one that succeeds is remembered.
Select(x, asked, session) ==
    /\ Begins(x)
    /\ LET s == Of(x)
           a == SelectedAccount(s, asked)
           k == SelectedSession(s, a, session)
       IN  /\ a \in DOMAIN accounts[s]
           /\ k \in DOMAIN accounts[s][a].sessions
           /\ accounts' = [accounts EXCEPT ![s][a].current = k]
           /\ context' = [context EXCEPT ![s] = [account |-> a, session |-> k]]
    /\ UNCHANGED <<now, url, up, armed, store, contracts, file, history, others>>

BeginTool(x, tool, asked, session, intent) ==
    /\ Select(x, asked, session)
    /\ Continues(x, [NoJob EXCEPT !.stage = tool, !.intent = intent,
                                  !.account = context'[Of(x)].account,
                                  !.session = context'[Of(x)].session])

\* smart_account_estimate_loss only reads once it has selected.
EstimateLoss(x, asked, session) == Select(x, asked, session) /\ job' = job

-----------------------------------------------------------------------------
(* smart_account_preview. *)

\* The node runs the contract's tests on the chain as it is; it has nothing to
\* run at an address without code, and the contract admits nobody unregistered.
SimulateExecuteFromAgent(x) == job[x].session \in Registered(url[Of(x)], job[x].account)

\* The call ends when nothing is signed, or when the node refuses or fails.
Simulate(x) ==
    /\ At(x, "preview")
    /\ \/ Ends(x)
       \/ SimulateExecuteFromAgent(x) /\ Continues(x, [job[x] EXCEPT !.stage = "simulated"])
    /\ UNCHANGED <<now, url, memory, store, contracts, file, history, bounds>>

\* The answer of a simulation that succeeded arms the gate from then on, in
\* memory and then in the store; when the store fails the caller gets an
\* error and the memory is armed.  Without a digest it arms nothing.
EndPreview(x) ==
    /\ At(x, "simulated")
    /\ LET s == Of(x)
           a == job[x].account
           arm == [digest |-> Digest(job[x].intent, job[x].session), at |-> now]
       IN  \/ UNCHANGED <<armed, arms, simulatedAt, others>>
           \/ /\ armed' = [armed EXCEPT ![s] = With(@, a, arm)]
              /\ simulatedAt' = With(simulatedAt, <<a, arm.digest>>, now)
              /\ PersistSimArm(a, arm)
    /\ Ends(x)
    /\ UNCHANGED <<now, url, up, accounts, context, meta, rows, contracts, file,
                   acknowledged, mixed, calls>>

-----------------------------------------------------------------------------
(* smart_account_execute. *)

\* A file that cannot be read has no rules.
Rules(policy) == IF policy.ok THEN policy.rules ELSE <<>>

ClassifySimulationRisk(action) == action \notin Harmless

\* A policy tightens and never relaxes.
ResolveSimulationRequirement(action, policy) ==
    \/ ClassifySimulationRisk(action)
    \/ Strict /\ ~policy.ok
    \/ action \in DOMAIN Rules(policy) /\ Rules(policy)[action].requiresSimulation

EvaluatePolicy(intent, policy) ==
    /\ Strict => policy.ok
    /\ intent.action \in DOMAIN Rules(policy) =>
            /\ Rules(policy)[intent.action].enabled
            /\ intent.amount <= Rules(policy)[intent.action].maxPerTx

\* Mutant: any simulation of the account will do.
FreshForAccount(s, a, digest) ==
    a \in DOMAIN armed[s] /\ now - armed[s][a].at <= Window

Fresh(s, a, digest) ==
    /\ a \in DOMAIN armed[s]
    /\ armed[s][a].digest = digest
    /\ now - armed[s][a].at <= Window

\* One reading of the policy serves every test of the call.
Gate(x) ==
    /\ At(x, "execute")
    /\ LET i == job[x].intent
           passes == /\ Strict => file.ok
                     /\ ResolveSimulationRequirement(i.action, file) =>
                            Fresh(Of(x), job[x].account, Digest(i, job[x].session))
                     /\ EvaluatePolicy(i, file)
       IN  IF passes
           THEN Continues(x, [job[x] EXCEPT !.stage = "relaying", !.policy = file, !.at = now])
           ELSE Ends(x)
    /\ UNCHANGED <<now, url, memory, store, contracts, file, history, bounds>>

\* The relayer answers: what was broadcast, if only to an address without
\* code, is recorded with the account, and the process writes its entries.
EndExecute(x) ==
    /\ At(x, "relaying")
    /\ \/ UNCHANGED <<rows, meta, mixed, others>>
       \/ /\ \/ job[x].session \in Registered(url[Of(x)], job[x].account)
             \/ job[x].account \notin DOMAIN contracts[url[Of(x)]]
          /\ \E done \in BOOLEAN : Persist(Of(x), accounts[Of(x)], done)
    /\ Ends(x)
    /\ UNCHANGED <<now, url, memory, arms, contracts, file,
                   simulatedAt, acknowledged, calls>>

-----------------------------------------------------------------------------
EditPolicy(policy) ==
    /\ Other /\ UNCHANGED calls
    /\ file' = policy
    /\ UNCHANGED <<now, url, memory, job, store, contracts, history>>

Tick ==
    /\ now < LastTime /\ Other /\ UNCHANGED calls
    /\ now' = now + 1
    /\ UNCHANGED <<url, memory, job, store, contracts, file, history>>

Next ==
    \/ \E s \in Servers : Boot(s) \/ \E u \in Chains : Restart(s, u)
    \/ \E x \in Slots : Deploy(x) \/ Register(x) \/ EndSetup(x)
                        \/ Simulate(x) \/ EndPreview(x) \/ Gate(x) \/ EndExecute(x)
    \/ \E x \in Slots, r \in Requests : StartSetup(x, r)
    \/ \E x \in Slots, a \in Addresses \cup {None}, k \in SessionIds \cup {None}, i \in Intents :
           BeginTool(x, "preview", a, k, i) \/ BeginTool(x, "execute", a, k, i)
    \/ \E x \in Slots, a \in Addresses \cup {None}, k \in SessionIds \cup {None} :
           EstimateLoss(x, a, k)
    \/ \E p \in Policies : EditPolicy(p)
    \/ Tick

Spec == Init /\ [][Next]_vars
-----------------------------------------------------------------------------
(* Properties. *)

Sane(entry) == entry.current \in DOMAIN entry.sessions \cup {None}

\* Every account known to a process or kept by the store has a current
\* session that is one of its own, and so has the context of a process: a
\* call that names nothing acts on something that exists (selectSmartAccount
\* of server.js, upsertAccountRow of chain-state-store.js).
TypeOK ==
    /\ now \in 0..LastTime /\ url \in [Servers -> Chains] /\ up \in [Servers -> BOOLEAN]
    /\ meta \in Chains \cup {None} /\ file \in Policies
    /\ \A x \in Slots : job[x].stage \in
            {"free", "deploying", "registering", "registered", "preview", "simulated",
             "execute", "relaying"}
    /\ \A a \in DOMAIN rows : Sane(rows[a])
    /\ \A s \in Servers :
            /\ \A a \in DOMAIN accounts[s] : Sane(accounts[s][a])
            /\ context[s].account # None =>
                    /\ context[s].account \in DOMAIN accounts[s]
                    /\ context[s].session \in
                            DOMAIN accounts[s][context[s].account].sessions \cup {None}

\* What must be simulated, put without the code's helper: all but the harmless
\* actions, whatever the policy says, these too when it asks for it or, in
\* strict mode, cannot be read.
Demanded(action, policy) ==
    \/ action \notin Harmless
    \/ ~policy.ok /\ Strict
    \/ policy.ok /\ action \in DOMAIN policy.rules /\ policy.rules[action].requiresSimulation

\* An execution that reaches the relayer and had to be simulated was: the same
\* intent and session, on that account, with an answer no longer before the
\* gate than the window allows, in whichever process and however often that one restarted
\* (the simulation gate of smart_account_execute and its restored log).  The
\* log does not keep the chain: a simulation on another one counts too.
SimulatedInTime ==
    \A x \in Slots :
        LET j == job[x]
            key == <<j.account, Digest(j.intent, j.session)>>
        IN  At(x, "relaying") =>
                /\ Strict => j.policy.ok
                /\ Demanded(j.intent.action, j.policy) =>
                        key \in DOMAIN simulatedAt /\ simulatedAt[key] >= j.at - Window

\* A session that setup answered for stays with its account in the store,
\* whatever other processes write of what they remember, and with the config
\* it was answered for as long as one chain is written
\* (persistSmartAccountState, unionBySessionId).
AcknowledgedSurvives ==
    \A e \in acknowledged :
        /\ e[1] \in DOMAIN rows /\ e[2] \in DOMAIN rows[e[1]].sessions
        /\ ~mixed => rows[e[1]].sessions[e[2]] = e[3]

\* What a process believes of a session is what the contract enforces: while
\* the store speaks for one chain, every session a process holds is registered
\* on its chain, under the very config (restoreSmartAccounts,
\* smart_account_setup).
CachedIsRegistered ==
    \A s \in Servers : ~mixed =>
        \A a \in DOMAIN accounts[s] : \A k \in DOMAIN accounts[s][a].sessions :
            /\ k \in Registered(url[s], a)
            /\ contracts[url[s]][a][k] = accounts[s][a].sessions[k]

\* What a process goes by is real: its accounts, their current sessions and
\* the sessions registered on chain.
BelievedIsReal == TypeOK /\ CachedIsRegistered

\* "Chain-environment guard: never reuse accounts recorded on another chain"
\* (restoreSmartAccounts): every account a process holds is a contract of its
\* chain.  TLC refutes it: the store has one chain for all its rows, the last
\* writer's.
NeverAnotherChain ==
    \A s \in Servers : DOMAIN accounts[s] \subseteq DOMAIN contracts[url[s]]
=============================================================================
