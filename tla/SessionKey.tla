----------------------------- MODULE SessionKey ------------------------------
(***************************************************************************)
(* Session keys (packages/agent-keys/src/session.js): creation, narrowing  *)
(* and the test of one use, with the spend policy that agent-sdk derives   *)
(* from a session (keys.js).                                               *)
(*                                                                         *)
(* Abstractions.  The three whitelists are one function of a dimension; a  *)
(* limit is the integer its string denotes, 0 and below being "none"; the  *)
(* seal stands for the issuer's signature: who signed, and what.           *)
(***************************************************************************)
EXTENDS SpendPolicy

CONSTANTS
    MinTtl,     \* MIN_TTL_MS and MAX_TTL_MS
    MaxTtl

ASSUME TtlAssumption == MinTtl \in Nat /\ MaxTtl \in Nat /\ 0 < MinTtl /\ MinTtl <= MaxTtl

Dimensions == {"contract", "method", "chain"}
None == "none"      \* a dimension that a use does not mention
Unrestricted == {}  \* an empty whitelist

Scope(agent, issuedAt, expiresAt, allowed, maxPerTx, maxDaily) ==
    [agent |-> agent, issuedAt |-> issuedAt, expiresAt |-> expiresAt,
     allowed |-> allowed, maxPerTx |-> maxPerTx, maxDaily |-> maxDaily]

\* BigInt of the limits, a number of milliseconds.
HasLimits(scope) == scope.maxPerTx \in Int /\ scope.maxDaily \in Int /\ scope.expiresAt \in Int

\* The payload is the scope as it was signed.
Seal(issuer, scope) == [issuer |-> issuer, payload |-> scope]

NoScope == Scope("none", 0, 0, [d \in Dimensions |-> Unrestricted], 0, 0)

\* In place of a session: none was made.
Refused == [scope |-> NoScope, seal |-> Seal("nobody", NoScope)]

CreateSessionKey(issuer, scope, ttl) ==
    IF /\ ttl \in MinTtl..MaxTtl
       /\ scope.issuedAt > 0
       /\ scope.expiresAt > scope.issuedAt
       /\ scope.expiresAt - scope.issuedAt = ttl
    THEN [scope |-> scope, seal |-> Seal(issuer, scope)]
    ELSE Refused

VerifySessionSignature(session, issuer) == session.seal = Seal(issuer, session.scope)

SessionTTL(scope, now) == IF scope.expiresAt > now THEN scope.expiresAt - now ELSE 0

IsSessionExpired(scope, now) == SessionTTL(scope, now) = 0

-----------------------------------------------------------------------------
(* Narrowing. *)

IsSubsetOrUnrestricted(child, parent) ==
    parent # Unrestricted => child # Unrestricted /\ child \subseteq parent

IsNarrowerOrEqual(child, parent) == parent = 0 \/ (child # 0 /\ child <= parent)

\* A request whose limits, where it names them, parse; nobody tests the sign.
LimitsGiven(narrower) ==
    /\ "maxPerTx" \in narrower.given => narrower.maxPerTx \in Int
    /\ "maxDaily" \in narrower.given => narrower.maxDaily \in Int
    /\ "ttl" \in narrower.given => narrower.ttl \in Int

\* A dimension that the request leaves out is the parent's.
Resolve(narrower, parent) ==
    [allowed |-> [d \in Dimensions |->
        IF d \in narrower.given THEN narrower.allowed[d] ELSE parent.allowed[d]],
     maxPerTx |-> IF "maxPerTx" \in narrower.given THEN narrower.maxPerTx ELSE parent.maxPerTx,
     maxDaily |-> IF "maxDaily" \in narrower.given THEN narrower.maxDaily ELSE parent.maxDaily]

ClampedTtl(narrower, parent, now) ==
    LET remaining == parent.expiresAt - now IN
    IF "ttl" \in narrower.given /\ narrower.ttl < remaining THEN narrower.ttl ELSE remaining

Narrows(child, parent) ==
    /\ \A d \in Dimensions : IsSubsetOrUnrestricted(child.allowed[d], parent.allowed[d])
    /\ IsNarrowerOrEqual(child.maxPerTx, parent.maxPerTx)
    /\ IsNarrowerOrEqual(child.maxDaily, parent.maxDaily)

NarrowSession(parent, narrower, issuer, now) ==
    LET child == Resolve(narrower, parent)
        ttl == ClampedTtl(narrower, parent, now)
    IN  IF /\ now < parent.expiresAt
           /\ narrower.agent = parent.agent
           /\ Narrows(child, parent)
        THEN CreateSessionKey(issuer,
                 Scope(parent.agent, now, now + ttl, child.allowed, child.maxPerTx, child.maxDaily), ttl)
        ELSE Refused

-----------------------------------------------------------------------------
(* One use: what it names in each dimension, and an amount. *)

Named(allowed, name) == name = None \/ allowed = Unrestricted \/ name \in allowed

WithinSessionLimits(scope, amount, spent) ==
    /\ scope.maxPerTx > 0 => amount <= scope.maxPerTx
    /\ scope.maxDaily > 0 => spent + amount <= scope.maxDaily

\* An amount that is absent is not limited.  The last millisecond counts.
CheckSessionAccess(scope, use, spent, now) ==
    /\ now <= scope.expiresAt
    /\ \A d \in Dimensions : Named(scope.allowed[d], use.names[d])
    /\ use.amount # Absent =>
            /\ use.amount.tag = "number"
            /\ use.amount.n >= 0 /\ spent >= 0
            /\ WithinSessionLimits(scope, use.amount.n, spent)

-----------------------------------------------------------------------------
(* The signer of an agent (agent-sdk). *)

\* Mutant: the daily ceiling is not handed to the worker.
PolicyWithoutDaily(scope) == [NoPolicy EXCEPT !.type = "limit", !.maxPerTx = scope.maxPerTx]

\* spawnAgentSigner: the worker's policy when none is given explicitly.
PolicyOfSession(scope) ==
    [NoPolicy EXCEPT !.type = "limit", !.maxPerTx = scope.maxPerTx, !.maxDaily = scope.maxDaily]
=============================================================================
