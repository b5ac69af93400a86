------------------------------- MODULE Keeper --------------------------------
(***************************************************************************)
(* Remote signing: an agent without a key asks the keeper, on the human's  *)
(* side, to sign (mcp-server/src/remote-signer.js, remote-signer-keeper.js *)
(* and the client in agent-sdk/src/remote-signer-client.js).  Every await  *)
(* of the keeper ends a stage, so requests are served interleaved; the     *)
(* network loses, repeats and delays; the keeper's memory dies with it,    *)
(* and its keyring is read again at every start.                           *)
(*                                                                         *)
(* Abstractions.  A message whose HMAC does not fit is refused without any *)
(* effect and is left out; what the HMAC covers is therefore what was      *)
(* sent.  A signature is the record of what it signs.                      *)
(***************************************************************************)
EXTENDS SessionKey, Functions

CONSTANTS
    Calls,          \* calls of the client, 1..n; a call's id is its nonce
    Arrivals,       \* requests the keeper receives, repetitions included, 1..n
    Agents,
    FirstSession,   \* agent -> the scope its owner issued first
    Narrowings,     \* what the owner may ask narrowSession for
    SelfMade,       \* scopes an agent may make up
    Uses,           \* intents: names and amount
    TokenUntil,     \* expiry of the custody tokens
    ReplayTtl,      \* replayTtlMs
    DayLength,
    ApprovalModes,  \* "auto" and "deny"
    LastTime, MaxBoots   \* bounds

ASSUME KeeperAssumption ==
    ReplayTtl \in Nat \ {0} /\ DayLength \in Nat \ {0} /\ LastTime \in Nat

\* BigInt(intent.amount): an amount that parses is an integer.
ASSUME UsesAssumption ==
    \A u \in Uses : u.amount # Absent /\ u.amount.tag = "number" => u.amount.n \in Int

\* The limits and the expiry of the sessions that owners issue are integers.
ASSUME FirstSessionAssumption ==
    /\ FirstSession = [a \in Agents |-> FirstSession[a]]
    /\ \A a \in Agents : HasLimits(FirstSession[a])

\* BigInt(narrower.maxPerTx) and the like: what owners ask for are integers,
\* negative ones too.
ASSUME NarrowingsAssumption == \A n \in Narrowings : LimitsGiven(n)

VARIABLES
    now, boot,
    file,       \* the keyring file: agent -> scope
    issued,     \* scopes the owner has signed
    keyring,    \* what the running keeper has loaded
    approval,   \* its approval mode
    seen,       \* nonce -> when it may be forgotten
    ledger,     \* agent -> the day and the total charged on it
    job,        \* arrival -> the call it carries, its stage, and notes
    responses,  \* signed answers on the network
    request, outcome, result,   \* of a call
    signatures

keeper == <<boot, keyring, approval, seen, ledger>>
client == <<request, outcome, result>>
vars == <<now, file, issued, keeper, job, responses, client, signatures>>

NoRequest == [agent |-> "none", session |-> NoScope,
              use |-> [names |-> [d \in Dimensions |-> None], amount |-> Absent], nonce |-> 0]
NoJob == [call |-> 0, stage |-> "none", claimed |-> 0, checked |-> 0, before |-> 0]
NothingCharged == [a \in Agents |-> [day |-> 0, total |-> 0]]

Init ==
    /\ now = 1
    /\ boot = 1
    /\ file = FirstSession
    /\ issued = {FirstSession[a] : a \in Agents}
    /\ keyring = FirstSession
    /\ approval \in ApprovalModes
    /\ seen = <<>>
    /\ ledger = NothingCharged
    /\ job = [i \in Arrivals |-> NoJob]
    /\ responses = {}
    /\ request = [c \in Calls |-> NoRequest]
    /\ outcome = [c \in Calls |-> "idle"]
    /\ result = [c \in Calls |-> NoRequest]
    /\ signatures = {}

-----------------------------------------------------------------------------
(* The client. *)

\* A request goes out with a nonce of its own.
SignIntent(c) ==
    /\ outcome[c] = "idle"
    /\ \E a \in Agents, s \in issued \cup SelfMade, u \in Uses :
           request' = [request EXCEPT ![c] = [agent |-> a, session |-> s, use |-> u, nonce |-> c]]
    /\ outcome' = [outcome EXCEPT ![c] = "waiting"]
    /\ UNCHANGED <<now, file, issued, keeper, job, responses, result, signatures>>

\* The caller gives the nonce of a call that timed out, and its content.
Retry(c, old) ==
    /\ outcome[c] = "idle" /\ outcome[old] = "timed out"
    /\ request' = [request EXCEPT ![c] = request[old]]
    /\ outcome' = [outcome EXCEPT ![c] = "waiting"]
    /\ UNCHANGED <<now, file, issued, keeper, job, responses, result, signatures>>

\* Mutant: any answer that the keeper signed will do.
Genuine(c, answer) == TRUE

VerifyCustodySignResponse(c, answer) == answer.nonce = request[c].nonce

\* The network may hand over any answer it has seen.
Receive(c) ==
    /\ outcome[c] = "waiting"
    /\ \E answer \in responses :
           /\ outcome' = [outcome EXCEPT ![c] =
                  IF VerifyCustodySignResponse(c, answer) THEN "signed" ELSE "refused"]
           /\ result' = [result EXCEPT ![c] =
                  IF VerifyCustodySignResponse(c, answer) THEN answer ELSE NoRequest]
    /\ UNCHANGED <<now, file, issued, keeper, job, responses, request, signatures>>

\* withTimeout, a broken connection, or an answer that refuses.
Fail(c) ==
    /\ outcome[c] = "waiting"
    /\ outcome' = [outcome EXCEPT ![c] = "timed out"]
    /\ UNCHANGED <<now, file, issued, keeper, job, responses, request, result, signatures>>

-----------------------------------------------------------------------------
(* The keeper. *)

\* What arrives is what was sent, or its HMAC does not fit.
Of(i) == request[job[i].call]
At(i, stage) == job[i].stage = stage
Moves(i, notes) == job' = [job EXCEPT ![i] = notes]
Ended == [NoJob EXCEPT !.stage = "ended"]
Refuse(i) == Moves(i, Ended)
Enters(i, stage) == Moves(i, [job[i] EXCEPT !.stage = stage])

VerifyL1CustodyToken == now < TokenUntil

\* A request arrives for the first time or again.  Its shape and HMAC are
\* right; an expired token is refused at once.
Arrive(i, c) ==
    /\ At(i, "none") /\ outcome[c] # "idle"
    /\ \A j \in Arrivals : j < i => ~At(j, "none")
    /\ Moves(i, IF VerifyL1CustodyToken THEN [NoJob EXCEPT !.call = c, !.stage = "known"] ELSE Ended)
    /\ UNCHANGED <<now, file, issued, keeper, responses, client, signatures>>

Remembered == {n \in DOMAIN seen : seen[n] > now}

\* Mutant: the nonce is looked up and not claimed.
ClaimLater(nonce) == [n \in Remembered |-> seen[n]]

Claim(nonce) ==
    [n \in Remembered \cup {nonce} |-> IF n = nonce THEN now + ReplayTtl ELSE seen[n]]

CheckReplay(i) ==
    /\ At(i, "known")
    /\ IF Of(i).nonce \in Remembered
       THEN Refuse(i) /\ seen' = [n \in Remembered |-> seen[n]]
       ELSE /\ Moves(i, [job[i] EXCEPT !.stage = "fresh", !.claimed = now])
            /\ seen' = Claim(Of(i).nonce)
    /\ UNCHANGED <<now, file, issued, boot, keyring, approval, ledger, responses, client, signatures>>

Today == now \div DayLength
Total(agent) == IF ledger[agent].day = Today THEN ledger[agent].total ELSE 0

\* Mutant: a session is taken as the request presents it.
Presented(r) == TRUE

\* The session must be, field by field, the one the keeper holds.
SessionIsHeld(r) == r.session = keyring[r.agent]

\* Mutant: the day's total does not count.
AmountAlone(r, k) ==
    /\ r.session.maxPerTx > 0 => k <= r.session.maxPerTx
    /\ r.session.maxDaily > 0 => k <= r.session.maxDaily

WithinLimits(r, k) ==
    /\ r.session.maxPerTx > 0 => k <= r.session.maxPerTx
    /\ r.session.maxDaily > 0 => Total(r.agent) + k <= r.session.maxDaily

Allowed(r) ==
    /\ SessionIsHeld(r)
    /\ now <= r.session.expiresAt
    /\ \A d \in Dimensions : Named(r.session.allowed[d], r.use.names[d])
    /\ r.use.amount # Absent =>
            /\ r.use.amount.tag = "number" /\ r.use.amount.n >= 0
            /\ WithinLimits(r, r.use.amount.n)

\* The charge is made here and is never given back.
CheckPolicy(i) ==
    /\ At(i, "fresh")
    /\ LET r == Of(i)
           charge == IF r.use.amount # Absent /\ r.session.maxDaily > 0 THEN r.use.amount.n ELSE 0
       IN  IF Allowed(r)
           THEN /\ Moves(i, [job[i] EXCEPT !.stage = "allowed", !.checked = now,
                                          !.before = Total(r.agent)])
                /\ ledger' = [ledger EXCEPT ![r.agent] =
                                 [day |-> Today, total |-> Total(r.agent) + charge]]
           ELSE Refuse(i) /\ ledger' = ledger
    /\ UNCHANGED <<now, file, issued, boot, keyring, approval, seen, responses, client, signatures>>

RequestApproval(i) ==
    /\ At(i, "allowed")
    /\ IF approval = "auto" THEN Enters(i, "approved") ELSE Refuse(i)
    /\ UNCHANGED <<now, file, issued, keeper, responses, client, signatures>>

\* The import and the signing may fail.
Sign(i) ==
    /\ At(i, "approved")
    /\ Moves(i, Ended)
    /\ \/ /\ responses' = responses \cup {Of(i)}
          /\ signatures' = signatures \cup
                 {[arrival |-> i, boot |-> boot, request |-> Of(i), session |-> keyring[Of(i).agent],
                   claimed |-> job[i].claimed, checked |-> job[i].checked, before |-> job[i].before]}
       \/ UNCHANGED <<responses, signatures>>
    /\ UNCHANGED <<now, file, issued, keeper, client>>

\* The keeper starts again: what it served is gone, its memory too.
Restart ==
    /\ boot < MaxBoots
    /\ boot' = boot + 1
    /\ keyring' = file
    /\ approval' \in ApprovalModes
    /\ seen' = <<>>
    /\ ledger' = NothingCharged
    /\ job' = [i \in Arrivals |-> IF At(i, "none") THEN NoJob ELSE Ended]
    /\ UNCHANGED <<now, file, issued, responses, client, signatures>>

-----------------------------------------------------------------------------
\* The owner narrows a session and replaces it in the keyring file.
Narrow(a, n) ==
    LET child == NarrowSession(file[a], n, "owner", now) IN
    /\ child # Refused
    /\ file' = [file EXCEPT ![a] = child.scope]
    /\ issued' = issued \cup {child.scope}
    /\ UNCHANGED <<now, keeper, job, responses, client, signatures>>

Tick ==
    /\ now < LastTime
    /\ now' = now + 1
    /\ UNCHANGED <<file, issued, keeper, job, responses, client, signatures>>

Serve(i) == CheckReplay(i) \/ CheckPolicy(i) \/ RequestApproval(i) \/ Sign(i)

Next ==
    \/ \E c \in Calls : SignIntent(c) \/ Receive(c) \/ Fail(c)
    \/ \E c, old \in Calls : Retry(c, old)
    \/ \E i \in Arrivals, c \in Calls : Arrive(i, c)
    \/ \E i \in Arrivals : Serve(i)
    \/ \E a \in Agents, n \in Narrowings : Narrow(a, n)
    \/ Restart \/ Tick

Spec == Init /\ [][Next]_vars

-----------------------------------------------------------------------------
(* Properties. *)

\* A request that is sent again, by the network or by a retry of its caller,
\* is signed once for as long as the keeper runs and remembers its nonce,
\* however many copies are being served at once.
NonceSignsOnce ==
    \A s, t \in signatures :
        s.request.nonce = t.request.nonce /\ s.boot = t.boot /\ s.arrival # t.arrival =>
            s.claimed - t.claimed >= ReplayTtl \/ t.claimed - s.claimed >= ReplayTtl

SpentOn(agent, life, day) ==
    {s \in signatures : s.request.agent = agent /\ s.boot = life /\ s.checked \div DayLength = day}

\* What is signed on one day, by one keeper process, is within the session's
\* daily ceiling, although requests are checked and signed in stages.
DayWithinCeiling ==
    \A s \in signatures :
        s.session.maxDaily > 0 =>
            SumFunctionOnSet([t \in signatures |-> t.request.use.amount.n],
                SpentOn(s.request.agent, s.boot, s.checked \div DayLength)) <= s.session.maxDaily

\* What a session is worth of the one it descends from: a limit that some
\* narrowing set below 0 passes for a narrower one and is then read as none
\* (isNarrowerOrEqual, checkSessionAccess); nothing brings it back.
Lifted(first, session) ==
    [first EXCEPT !.maxPerTx = IF session.maxPerTx < 0 THEN 0 ELSE first.maxPerTx,
                  !.maxDaily = IF session.maxDaily < 0 THEN 0 ELSE first.maxDaily]

\* A signature was admitted, in the meaning of checkSessionAccess, by the
\* session the keeper holds and by the one its owner first gave the agent,
\* whatever the agent presented and however the owner narrowed it since, but
\* for the limits a narrowing set below 0: lists and expiry always, and every
\* other limit.
SignedUnderAuthority ==
    \A s \in signatures :
        /\ CheckSessionAccess(s.session, s.request.use, s.before, s.checked)
        /\ CheckSessionAccess(Lifted(FirstSession[s.request.agent], s.session),
                              s.request.use, s.before, s.checked)

\* "Once a session key is issued, any session derived from it may only NARROW
\* privileges - never widen them" (session.js): without that exception TLC
\* refutes it.
SignedUnderFirstSession ==
    \A s \in signatures :
        CheckSessionAccess(FirstSession[s.request.agent], s.request.use, s.before, s.checked)

\* The client takes only a signature of what it asked for.
AcceptedIsOwn ==
    \A c \in Calls : outcome[c] = "signed" =>
        /\ result[c] = request[c]
        /\ \E s \in signatures : s.request = request[c]
=============================================================================
