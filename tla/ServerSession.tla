---------------------------- MODULE ServerSession ----------------------------
(***************************************************************************)
(* The one agent identity of an MCP server process: the fields of          *)
(* `session` in mcp-server/src/server.js, the isolated signer that holds   *)
(* its key, the password kept to start another one, and the wallet that    *)
(* may replace it.  generate_agent_keys and register_agent replace the     *)
(* identity; tasks and forum posts are signed with it.  Tool calls overlap *)
(* at their awaits, signers die, a ping may fail though its signer lives.  *)
(*                                                                         *)
(* Abstractions.  Identities are numbered as they are made.  The envelope  *)
(* and the public key are set together with the key, so that they are its  *)
(* number.  An agent's name stands for the identity it was given to or     *)
(* registered with.  The answer of the backend decides nothing here.       *)
(***************************************************************************)
EXTENDS Integers, FiniteSets, Sequences

CONSTANTS
    Tools,         \* tool calls that may be under way
    MaxIdentities, \* bound: identities made
    MaxSpawns      \* bound: signers started

ASSUME SessionAssumption == {MaxIdentities, MaxSpawns} \subseteq Nat

Nil == 0

VARIABLES
    env,       \* MCP_ALLOW_INPROCESS_WALLET and NEXUSGENESIS_SIGNER_DISABLE
    session,
    made,      \* identities made so far
    spawned,   \* the identity of each signer, in the order of their start
    live,      \* the signers that run
    tool,      \* slot -> the tool call under way, or the last one
    forgotten, \* history: identities whose password the session gave up
    crossed    \* history: identities replaced while a signer of theirs was starting

sessionVars == <<env, session, made, spawned, live, tool, forgotten, crossed>>

Handles == 1 .. Len(spawned)

\* Stages of a call between its awaits.
Ended == {"idle", "failed", "done"}
UnderWay == {s \in Tools : tool[s].stage \notin Ended}
Replacing(s) == s \in UnderWay /\ tool[s].kind # "sign"

\* `starting` is the identity whose signer the call is starting, `signer`
\* what ensureSessionSigner gave it, `by` the identity that signed.
Idle == [stage |-> "idle", kind |-> "sign", agent |-> Nil, starting |-> Nil,
         signer |-> Nil, by |-> Nil, overlapped |-> FALSE]

Failed == [Idle EXCEPT !.stage = "failed"]
Done(call, by) == [call EXCEPT !.stage = "done", !.starting = Nil, !.signer = Nil, !.by = by]

\* `agent` is read when the call begins.
ToolCall(kind, stage) ==
    [Idle EXCEPT !.kind = kind, !.stage = stage, !.agent = session.agent,
                 !.overlapped = \E t \in UnderWay : kind # "sign" \/ Replacing(t)]

Overlapped(s) == [t \in Tools |->
    [tool[t] EXCEPT !.overlapped = @ \/ (t \in UnderWay /\ t # s)]]

SessionInit ==
    /\ env \in [allow : BOOLEAN, disabled : BOOLEAN]
    /\ session = [key |-> Nil, agent |-> Nil, password |-> FALSE, wallet |-> FALSE,
                  signer |-> Nil, open |-> TRUE]
    /\ made = 0
    /\ spawned = <<>>
    /\ live = {}
    /\ tool = [s \in Tools |-> Idle]
    /\ forgotten = {}
    /\ crossed = {}

\* The envelope is there with the password.
HasSessionIdentity == session.wallet \/ session.signer # Nil \/ session.password

----------------------------------------------------------------------------
(* ensureSessionSigner: a ping of the signer there is, then a new one.     *)

\* The second half: it captures envelope and password and awaits the signer.
Respawn(call, sess) ==
    IF sess.password /\ ~env.disabled
      THEN [call EXCEPT !.stage = "spawning", !.starting = sess.key, !.signer = Nil]
      ELSE [call EXCEPT !.stage = "ensured", !.signer = Nil]

EnsureSessionSigner(call, sess) ==
    IF sess.signer # Nil
      THEN [call EXCEPT !.stage = "pinging", !.signer = sess.signer]
      ELSE Respawn(call, sess)

\* The call goes on with the signer of the session as it is by now.
PingOk(s) ==
    /\ tool[s].stage = "pinging"
    /\ tool[s].signer \in live
    /\ tool' = [tool EXCEPT ![s].stage = "ensured", ![s].signer = session.signer]
    /\ UNCHANGED <<env, session, made, spawned, live, forgotten, crossed>>

\* Dead, or busy for 1.5 seconds: whatever signer there is now is let go.
PingFails(s) ==
    /\ tool[s].stage = "pinging"
    /\ session' = [session EXCEPT !.signer = Nil]
    /\ tool' = [tool EXCEPT ![s] = Respawn(tool[s], session')]
    /\ UNCHANGED <<env, made, spawned, live, forgotten, crossed>>

SpawnAgentSigner(s) ==
    /\ tool[s].stage = "spawning"
    /\ Len(spawned) < MaxSpawns
    /\ LET n == Len(spawned) + 1
       IN  /\ spawned' = Append(spawned, tool[s].starting)
           /\ live' = live \cup {n}
           /\ session' = [session EXCEPT !.signer = n]
           /\ tool' = [tool EXCEPT ![s].stage = "ensured", ![s].starting = Nil, ![s].signer = n]
    /\ UNCHANGED <<env, made, forgotten, crossed>>

SpawnFails(s) ==
    /\ tool[s].stage = "spawning"
    /\ session' = [session EXCEPT !.signer = Nil]
    /\ tool' = [tool EXCEPT ![s].stage = "ensured", ![s].starting = Nil]
    /\ UNCHANGED <<env, made, spawned, live, forgotten, crossed>>

----------------------------------------------------------------------------
(* generate_agent_keys and register_agent.                                 *)

Begin(s, kind) ==
    /\ session.open
    /\ s \notin UnderWay
    /\ made < MaxIdentities
    /\ tool' = [Overlapped(s) EXCEPT ![s] = ToolCall(kind, "creating")]
    /\ UNCHANGED <<env, session, made, spawned, live, forgotten, crossed>>

GenerateAgentKeys(s) == Begin(s, "generate")

\* Only a session without an identity is given one ...
RegisterAgent(s) == ~HasSessionIdentity /\ Begin(s, "register")

\* ... any other is registered as it is, under the new name.
RegisterKnown(s) ==
    /\ session.open
    /\ s \notin UnderWay
    /\ HasSessionIdentity
    /\ session' = [session EXCEPT !.agent = session.key]
    /\ tool' = [tool EXCEPT ![s] = ToolCall("register", "done")]
    /\ UNCHANGED <<env, made, spawned, live, forgotten, crossed>>

\* The signer of the identity before is let go, not closed.
SignerKept(key) == session.signer
NoSigner(key) == Nil

\* generate names the agent at once, register when its signer has started.
NewIdentity(key, kind) ==
    [session EXCEPT !.key = key,
                    !.agent = IF kind = "generate" THEN key ELSE @,
                    !.password = TRUE,
                    !.wallet = FALSE,
                    !.signer = NoSigner(key)]

\* createAgentIdentity refused the password ...
CreateFails(s) ==
    /\ tool[s].stage = "creating"
    /\ tool' = [tool EXCEPT ![s] = Failed]
    /\ UNCHANGED <<env, session, made, spawned, live, forgotten, crossed>>

\* ... or gave an identity, which replaces the one there is by then.
CreateAgentIdentity(s) ==
    /\ tool[s].stage = "creating"
    /\ made < MaxIdentities
    /\ made' = made + 1
    /\ session' = NewIdentity(made', tool[s].kind)
    /\ tool' = [tool EXCEPT ![s] = EnsureSessionSigner(tool[s], session')]
    /\ forgotten' = forgotten \cup ({session.key} \ {Nil})
    /\ crossed' = crossed \cup {tool[t].starting : t \in {u \in Tools : tool[u].stage = "spawning"}}
    /\ UNCHANGED <<env, spawned, live>>

PasswordKept(sess) == sess.password
PasswordAfter(sess) == sess.password /\ sess.signer = Nil

\* The password goes if the session has a signer by now.
Settle(s) ==
    /\ tool[s].stage = "ensured"
    /\ tool[s].kind # "sign"
    /\ session' = [session EXCEPT
         !.password = PasswordAfter(session),
         !.agent = IF tool[s].kind = "register" THEN session.key ELSE @]
    /\ forgotten' = IF session.signer # Nil THEN forgotten \cup {session.key} ELSE forgotten
    /\ tool' = [tool EXCEPT ![s] = Done(tool[s], Nil)]
    /\ UNCHANGED <<env, made, spawned, live, crossed>>

----------------------------------------------------------------------------
(* Claim, submit, verify and publish a task; create a topic, post, vote.   *)

BeginSign(s) ==
    /\ session.open
    /\ s \notin UnderWay
    /\ tool' = [tool EXCEPT ![s] = EnsureSessionSigner(ToolCall("sign", "spawning"), session)]
    /\ UNCHANGED <<env, session, made, spawned, live, forgotten, crossed>>

\* claim, submit, verify, publish: NO_WALLET without an identity.
SignTaskAction(s) == HasSessionIdentity /\ BeginSign(s)

\* create_topic, add_post, vote: the missing identity is found out below.
SignForumAction(s) == BeginSign(s)

SignMessage(s) ==
    /\ tool[s].stage = "ensured"
    /\ tool[s].kind = "sign"
    /\ tool[s].signer \in live
    /\ tool' = [tool EXCEPT ![s] = Done(tool[s], spawned[tool[s].signer])]
    /\ UNCHANGED <<env, session, made, spawned, live, forgotten, crossed>>

\* A signer that died since is not replaced.
SignFails(s) ==
    /\ tool[s].stage = "ensured"
    /\ tool[s].kind = "sign"
    /\ tool[s].signer # Nil
    /\ tool' = [tool EXCEPT ![s] = Failed]
    /\ UNCHANGED <<env, session, made, spawned, live, forgotten, crossed>>

MayFallBack == session.wallet \/ (env.allow /\ session.password)

FallbackWallet(s) ==
    /\ tool[s].stage = "ensured"
    /\ tool[s].kind = "sign"
    /\ tool[s].signer = Nil
    /\ MayFallBack
    /\ session' = [session EXCEPT !.wallet = TRUE]
    /\ tool' = [tool EXCEPT ![s] = Done(tool[s], session.key)]
    /\ UNCHANGED <<env, made, spawned, live, forgotten, crossed>>

\* INPROCESS_WALLET_BLOCKED, REAUTH_REQUIRED
NoFallback(s) ==
    /\ tool[s].stage = "ensured"
    /\ tool[s].kind = "sign"
    /\ tool[s].signer = Nil
    /\ ~MayFallBack
    /\ tool' = [tool EXCEPT ![s] = Failed]
    /\ UNCHANGED <<env, session, made, spawned, live, forgotten, crossed>>

----------------------------------------------------------------------------

\* A signer idles out, crashes or is killed.
Die(h) ==
    /\ live' = live \ {h}
    /\ UNCHANGED <<env, session, made, spawned, tool, forgotten, crossed>>

\* onclose: of all the signers that run, the session's is closed.
Close ==
    /\ session.open
    /\ session' = [session EXCEPT !.open = FALSE, !.signer = Nil]
    /\ live' = live \ {session.signer}
    /\ UNCHANGED <<env, made, spawned, tool, forgotten, crossed>>

Step(s) ==
    \/ PingOk(s) \/ PingFails(s)
    \/ SpawnAgentSigner(s) \/ SpawnFails(s)
    \/ CreateAgentIdentity(s) \/ CreateFails(s)
    \/ Settle(s)
    \/ SignMessage(s) \/ SignFails(s)
    \/ FallbackWallet(s) \/ NoFallback(s)

SessionNext ==
    \/ \E s \in Tools : \/ GenerateAgentKeys(s) \/ RegisterAgent(s) \/ RegisterKnown(s)
                        \/ SignTaskAction(s) \/ SignForumAction(s)
                        \/ Step(s)
    \/ \E h \in live : Die(h)
    \/ Close

SessionSpec == SessionInit /\ [][SessionNext]_sessionVars

----------------------------------------------------------------------------

\* The session, the signers and the calls are what they should be.
SessionTypeOK ==
    /\ env \in [allow : BOOLEAN, disabled : BOOLEAN]
    /\ session \in [key : 0 .. made, agent : 0 .. made, password : BOOLEAN,
                    wallet : BOOLEAN, signer : 0 .. Len(spawned), open : BOOLEAN]
    /\ made \in 0 .. MaxIdentities
    /\ spawned \in Seq(1 .. made)
    /\ live \subseteq Handles
    /\ forgotten \cup crossed \subseteq 1 .. made
    /\ \A s \in Tools : {tool[s].agent, tool[s].starting, tool[s].by} \subseteq 0 .. made

\* What is signed in an agent's name by a call that no replacement overlapped is
\* signed with that agent's key, whatever signers died, idled out or were
\* restarted (server.js:1551-1584).  Or else with the key of an identity that was
\* replaced while a signer of its own was starting: that signer becomes the
\* session's when it is there, for good (server.js:616), and no other key can.
SignedUnderOwnName ==
    \A s \in Tools : tool[s].by # Nil /\ ~tool[s].overlapped
                        => tool[s].by \in crossed \cup {tool[s].agent}

\* The same, in every state that has its types.
SignsAsItself == SessionTypeOK /\ SignedUnderOwnName

\* server.js:607 "a dead signer is FINAL for this session": an identity whose
\* password was given up, none of whose signers runs or is starting, and which
\* is no wallet of the process, never signs again.
Final(key) ==
    /\ key \in forgotten
    /\ \A h \in live : spawned[h] # key
    /\ \A s \in Tools : tool[s].stage = "spawning" => tool[s].starting # key
    /\ ~(session.wallet /\ session.key = key)

DeadIsFinal ==
    [][\A key \in forgotten : Final(key) =>
         /\ Final(key)'
         /\ \A s \in UnderWay : tool'[s].stage = "done" => tool'[s].by # key]_sessionVars
==============================================================================
