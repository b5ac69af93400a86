-------------------------------- MODULE Relay --------------------------------
(***************************************************************************)
(* smart_account_execute on its way to the chain: the daily gate of the    *)
(* policy engine (mcp-server/src/server.js, policy-engine.js), the retry   *)
(* loop of the relayer (relayer-operations.js), the nonces the instances   *)
(* share (relayer-coordinator.js), the broadcast (packages/chain-eth/src/  *)
(* chain-connection.js) and the ledger of transactions                     *)
(* (chain-state-store.js).  Several instances relay for one relayer        *)
(* account; calls interleave at every await.                               *)
(*                                                                         *)
(* Abstractions.  There is one smart account, one session and one action,  *)
(* and an intent is its nonce: the contract accepts it unless it executed  *)
(* it or a later one.  Preview and the policy's other rules come before    *)
(* the first step here.  Errors are what classifyRelayerFailure makes of   *)
(* them.  Rows older than the dedupe scan do not occur.                    *)
(***************************************************************************)
EXTENDS Integers, Sequences, FiniteSets, SequencesExt

CONSTANTS
    Calls,        \* calls of smart_account_execute
    Servers,      \* instances of the server
    Reaches,      \* the instances a call may be made at
    Intents,      \* a set of numbers
    Amount,       \* what an intent spends
    MaxDaily,     \* the policy's daily limit for the action
    MaxRetries,   \* RELAYER_MAX_RETRIES
    Coordinated,  \* whether the state backend is shared (TRUE), or not
    EarlierTxs,   \* transactions the relayer account sent before
    Flaky,        \* whether requests to the chain and the store may fail
    Crashes,      \* whether instances may stop
    MaxDay        \* bound

ASSUME RelayAssumption ==
    /\ Reaches \in [Calls -> SUBSET Servers]
    /\ Intents \subseteq Nat
    /\ Amount \in [Intents -> Nat]
    /\ MaxDaily \in Nat
    /\ MaxRetries \in Nat
    /\ Coordinated \subseteq BOOLEAN
    /\ EarlierTxs \subseteq Nat
    /\ Flaky \in BOOLEAN
    /\ Crashes \in BOOLEAN
    /\ MaxDay \in Nat

VARIABLES
    coordinated,
    next,        \* nonce:seq in the shared store: the nonce to issue next
    rows,        \* ledger:tx in the shared store, oldest first
    call,
    used,        \* each instance's daily bucket
    today,
    eoaNonce,    \* the chain: nonce of the relayer's next transaction
    mempool,
    mined,
    executed,    \* intents the contract executed
    abandoned,   \* history: issued nonces that will not be used
    crossed      \* history: an amount was given back on another day

store == <<next, rows>>
chain == <<eoaNonce, mempool, mined, executed>>
vars == <<coordinated, store, call, used, today, chain, abandoned, crossed>>

None == -1

Steps == {"acquire", "populate", "send", "wait", "count", "sync", "recheck"}

\* Of a call, "day" is the day of its reservation and "nonce" what it is about
\* to send with or, in "sync", the count it was told.
Idle == [step |-> "idle"]

Live == {c \in Calls : call[c].step \in Steps}

Hash(c) == <<c, call[c].attempt>>

Init ==
    /\ coordinated \in Coordinated
    /\ next = 0
    /\ rows = <<>>
    /\ call = [c \in Calls |-> Idle]
    /\ used = [s \in Servers |-> [day |-> 0, total |-> 0]]
    /\ today = 0
    /\ eoaNonce \in EarlierTxs
    /\ mempool = {}
    /\ mined = {}
    /\ executed = {}
    /\ abandoned = {}
    /\ crossed = FALSE

-----------------------------------------------------------------------------
(* The daily bucket of an instance (createDailyCumulativeStore). *)

Total(s) == IF used[s].day = today THEN used[s].total ELSE 0

\* Mutant: the check does not count what is reserved.
FitsAlone(s, intent) == Amount[intent] <= MaxDaily

Fits(s, intent) == Total(s) + Amount[intent] <= MaxDaily

\* add: only today's bucket is kept.
Reserved(s, intent) == [used EXCEPT ![s] = [day |-> today, total |-> Total(s) + Amount[intent]]]

\* subtract: whatever day the amount was reserved on, today's bucket pays.
GivenBack(s, intent) ==
    IF used[s].day # today THEN used
    ELSE [used EXCEPT ![s].total = IF @ < Amount[intent] THEN 0 ELSE @ - Amount[intent]]

-----------------------------------------------------------------------------
(* The end of a call: ledger row, reservation, answer. *)

Row(intent, hash, status) == [intent |-> intent, hash |-> hash, status |-> status]

\* recordTx without a hash records nothing, and only a shared ledger is read
\* again; listTx lists one row for a hash and a status, the latest.
Kept(row) == coordinated /\ row.hash # <<>>

DedupeLifecycle(row) ==
    IF \E k \in DOMAIN rows : rows[k] = row
    THEN RemoveAt(rows, CHOOSE k \in DOMAIN rows : rows[k] = row)
    ELSE rows

Recorded(row) == IF Kept(row) THEN Append(DedupeLifecycle(row), row) ELSE rows

Over == [step |-> "over"]

\* Of a call that failed, or whose process stopped, nothing is kept.
Done(s, intent, day, ok) ==
    IF ok THEN [step |-> "done", server |-> s, intent |-> intent, day |-> day] ELSE Over

\* When the row cannot be written the call ends with that error instead.
Ends(c, s, intent, day, hash, ok) ==
    LET row == Row(intent, hash, IF ok THEN "confirmed" ELSE "failed") IN
    \/ /\ rows' = Recorded(row)
       /\ call' = [call EXCEPT ![c] = Done(s, intent, day, ok)]
    \/ /\ Flaky /\ Kept(row)
       /\ call' = [call EXCEPT ![c] = Over]
       /\ UNCHANGED rows

Answer(c, hash, ok) ==
    LET s == call[c].server
        intent == call[c].intent
    IN  /\ Ends(c, s, intent, call[c].day, hash, ok)
        /\ used' = IF ok THEN used ELSE GivenBack(s, intent)
        /\ crossed' = (crossed \/ (~ok /\ call[c].day # today /\ used[s].day = today))

Continues(c, step) == call' = [call EXCEPT ![c].step = step]

MayRetry(c) == call[c].attempt <= MaxRetries

\* A failure that may pass: go on to a step, or answer when there were enough
\* attempts.
Retry(c, hash, step) ==
    \/ /\ MayRetry(c)
       /\ Continues(c, step)
       /\ UNCHANGED <<rows, used, crossed>>
    \/ ~MayRetry(c) /\ Answer(c, hash, FALSE)

-----------------------------------------------------------------------------
(* The start of a call. *)

\* isAlreadyLanded: the oldest row of the intent, of any instance.
Landed(intent) == {k \in DOMAIN rows : rows[k].intent = intent}

Oldest(places) == CHOOSE k \in places : \A m \in places : k <= m

FirstStep == IF coordinated THEN "acquire" ELSE "populate"

\* Gate, reservation and dedupe are one synchronous segment.  An error of the
\* ledger ends the call and leaves the reservation.
Start(c, s, intent) ==
    /\ call[c] = Idle
    /\ s \in Reaches[c]
    /\ Fits(s, intent)
    /\ \/ /\ ~coordinated \/ Landed(intent) = {}
          /\ call' = [call EXCEPT ![c] =
                [step |-> FirstStep, server |-> s, intent |-> intent, day |-> today, attempt |-> 1, nonce |-> None, issued |-> FALSE]]
          /\ used' = Reserved(s, intent)
          /\ UNCHANGED rows
       \/ /\ coordinated
          /\ Landed(intent) # {}
          /\ LET row == rows[Oldest(Landed(intent))]
                 ok == row.status = "confirmed"
             IN  /\ Ends(c, s, intent, today, row.hash, ok)
                 /\ used' = IF ok THEN Reserved(s, intent) ELSE [used EXCEPT ![s] = [day |-> today, total |-> Total(s)]]
       \/ /\ coordinated /\ Flaky
          /\ call' = [call EXCEPT ![c] = Over]
          /\ used' = Reserved(s, intent)
          /\ UNCHANGED rows
    /\ UNCHANGED <<coordinated, next, today, chain, abandoned, crossed>>

-----------------------------------------------------------------------------
(* Nonces. *)

\* What the node takes to be the next nonce, counting what is pending.
Gapless(n) == \A k \in eoaNonce..(n - 1) : \E tx \in mempool : tx.nonce = k

PendingUpTo == {n \in eoaNonce..(eoaNonce + Cardinality(mempool)) : Gapless(n)}

\* Mutant: the count points behind the next free nonce.
PendingCountPast == 1 + CHOOSE n \in PendingUpTo : \A m \in PendingUpTo : m <= n

PendingCount == CHOOSE n \in PendingUpTo : \A m \in PendingUpTo : m <= n

FreshAttempt(c) ==
    call' = [call EXCEPT ![c].step = FirstStep, ![c].nonce = None, ![c].issued = FALSE, ![c].attempt = @ + 1]

\* The counter is read and replaced in one transaction; an attempt that finds
\* the store busy is rolled back and made again.
WriteAtomically(value) == next' = value

\* acquireNonce; when the store fails the node's count is used.
Acquire(c) ==
    /\ call[c].step = "acquire"
    /\ \/ /\ call' = [call EXCEPT ![c].step = "send", ![c].nonce = next, ![c].issued = TRUE]
          /\ WriteAtomically(next + 1)
       \/ /\ Flaky
          /\ Continues(c, "populate")
          /\ UNCHANGED next
    /\ UNCHANGED <<coordinated, rows, used, today, chain, abandoned, crossed>>

\* Without a nonce ethers reads the node's count before it signs and sends.
Populate(c) ==
    /\ call[c].step = "populate"
    /\ call' = [call EXCEPT ![c].step = "send", ![c].nonce = PendingCount, ![c].issued = FALSE]
    /\ UNCHANGED <<coordinated, store, used, today, chain, abandoned, crossed>>

\* Mutant: the counter is set, not raised.
SyncedDown(count) == count

Synced(count) == IF next < count THEN count ELSE next

\* After the back-off that follows a conflict: the node's count is read, then
\* syncAtLeast raises the counter to it.  When either fails the next attempt
\* starts without.
ReadCount(c) ==
    /\ call[c].step = "count"
    /\ call' = [call EXCEPT ![c].step = "sync", ![c].nonce = PendingCount, ![c].issued = FALSE]
    /\ UNCHANGED <<coordinated, store, used, today, chain, abandoned, crossed>>

Sync(c) ==
    /\ call[c].step = "sync"
    /\ WriteAtomically(Synced(call[c].nonce))
    /\ FreshAttempt(c)
    /\ UNCHANGED <<coordinated, rows, used, today, chain, abandoned, crossed>>

SyncFails(c) ==
    /\ Flaky
    /\ call[c].step \in {"count", "sync"}
    /\ FreshAttempt(c)
    /\ UNCHANGED <<coordinated, store, used, today, chain, abandoned, crossed>>

Forsaken(c) == IF call[c].issued THEN abandoned \cup {call[c].nonce} ELSE abandoned

-----------------------------------------------------------------------------
(* Broadcast. *)

Acceptable(intent) == \A done \in executed : done < intent

NonceFree(nonce) == nonce >= eoaNonce /\ \A tx \in mempool : tx.nonce # nonce

Tx(c) == [nonce |-> call[c].nonce, issued |-> call[c].issued, intent |-> call[c].intent, hash |-> Hash(c)]

\* The contract refuses while the gas is estimated: not to be retried.
Rejected(c) ==
    /\ call[c].step = "send"
    /\ ~Acceptable(call[c].intent)
    /\ Answer(c, <<>>, FALSE)
    /\ abandoned' = Forsaken(c)
    /\ UNCHANGED <<coordinated, next, today, chain>>

Again(c) ==
    \/ /\ MayRetry(c)
       /\ FreshAttempt(c)
       /\ UNCHANGED <<rows, used, crossed>>
    \/ ~MayRetry(c) /\ Answer(c, <<>>, FALSE)

\* The nonce was used by another transaction: retried, after the counter was
\* raised to the node's count if there is one.
NonceConflict(c) ==
    /\ call[c].step = "send"
    /\ Acceptable(call[c].intent)
    /\ ~NonceFree(call[c].nonce)
    /\ IF coordinated
       THEN Retry(c, <<>>, "count")
       ELSE Again(c)
    /\ UNCHANGED <<coordinated, next, today, chain, abandoned>>

Send(c) ==
    /\ call[c].step = "send"
    /\ Acceptable(call[c].intent)
    /\ NonceFree(call[c].nonce)
    /\ mempool' = mempool \cup {Tx(c)}
    /\ Continues(c, "wait")
    /\ UNCHANGED <<coordinated, store, used, today, eoaNonce, mined, executed, abandoned, crossed>>

\* The request to broadcast fails, or its answer is lost, and the hash with it.
SendFails(c) ==
    /\ Flaky
    /\ call[c].step = "send"
    /\ \/ /\ UNCHANGED mempool
          /\ abandoned' = Forsaken(c)
       \/ /\ Acceptable(call[c].intent)
          /\ NonceFree(call[c].nonce)
          /\ mempool' = mempool \cup {Tx(c)}
          /\ UNCHANGED abandoned
    /\ Again(c) \/ Answer(c, <<>>, FALSE)
    /\ UNCHANGED <<coordinated, next, today, eoaNonce, mined, executed>>

-----------------------------------------------------------------------------
(* Receipts. *)

Outcome(hash) == {m \in mined : m.hash = hash}

\* Mutant: any receipt is a success.
SuccessWhenMined(receipt) == TRUE

Success(receipt) == receipt.executed

\* The receipt arrives, by wait() or by the reconciliation that follows.
Confirmed(c) ==
    /\ call[c].step \in {"wait", "recheck"}
    /\ \E receipt \in Outcome(Hash(c)) : Answer(c, Hash(c), Success(receipt))
    /\ UNCHANGED <<coordinated, next, today, chain, abandoned>>

\* wait() fails and no receipt is found: retried if the error is the network's.
WaitFails(c) ==
    /\ Flaky
    /\ call[c].step = "wait"
    /\ Retry(c, Hash(c), "recheck") \/ Answer(c, Hash(c), FALSE)
    /\ UNCHANGED <<coordinated, next, today, chain, abandoned>>

\* After the back-off, still no receipt: the next attempt starts.
NotFound(c) ==
    /\ call[c].step = "recheck"
    /\ Flaky \/ Outcome(Hash(c)) = {}
    /\ FreshAttempt(c)
    /\ UNCHANGED <<coordinated, store, used, today, chain, abandoned, crossed>>

-----------------------------------------------------------------------------
(* The chain, the calendar, and processes that stop. *)

Mine ==
    /\ \E tx \in mempool :
        /\ tx.nonce = eoaNonce
        /\ mempool' = mempool \ {tx}
        /\ mined' = mined \cup {[hash |-> tx.hash, nonce |-> tx.nonce, issued |-> tx.issued, executed |-> Acceptable(tx.intent)]}
        /\ executed' = IF Acceptable(tx.intent) THEN executed \cup {tx.intent} ELSE executed
    /\ eoaNonce' = eoaNonce + 1
    /\ UNCHANGED <<coordinated, store, call, used, today, abandoned, crossed>>

Midnight ==
    /\ today < MaxDay
    /\ today' = today + 1
    /\ UNCHANGED <<coordinated, store, call, used, chain, abandoned, crossed>>

\* Calls and buckets are gone; what was sent, issued and recorded stays.
Crash(s) ==
    LET lost == {c \in Calls : call[c] \notin {Idle, Over} /\ call[c].server = s} IN
    /\ Crashes
    /\ lost # {}
    /\ call' = [c \in Calls |-> IF c \in lost THEN Over ELSE call[c]]
    /\ used' = [used EXCEPT ![s] = [day |-> today, total |-> 0]]
    /\ abandoned' = abandoned \cup {call[c].nonce : c \in {d \in lost : call[d].step = "send" /\ call[d].issued}}
    /\ UNCHANGED <<coordinated, store, today, chain, crossed>>

Proceed(c) ==
    \/ Acquire(c) \/ Populate(c) \/ ReadCount(c) \/ Sync(c) \/ Rejected(c) \/ NonceConflict(c)
    \/ Send(c) \/ Confirmed(c) \/ NotFound(c)

Fault(c) == SendFails(c) \/ WaitFails(c) \/ SyncFails(c)

Next ==
    \/ \E c \in Calls, s \in Servers, intent \in Intents : Start(c, s, intent)
    \/ \E c \in Calls : Proceed(c)
    \/ \E c \in Calls : Fault(c)
    \/ Mine
    \/ Midnight
    \/ \E s \in Servers : Crash(s)

Spec == Init /\ [][Next]_vars

\* The chain mines what can be mined, and while calls wait for answers that can
\* be given one of them gets its.  Nothing is assumed of failures.
FairSpec == Spec /\ WF_vars(Mine) /\ WF_vars(\E c \in Calls : Proceed(c))

-----------------------------------------------------------------------------
(* Properties. *)

CallState ==
    {Idle, Over}
    \cup [step: Steps, server: Servers, intent: Intents, day: 0..MaxDay,
          attempt: 1..(MaxRetries + 1), nonce: Nat \cup {None}, issued: BOOLEAN]
    \cup [step: {"done"}, server: Servers, intent: Intents, day: 0..MaxDay]

\* Every variable keeps its type; in particular no call tries more often than
\* it may.
TypeOK ==
    /\ coordinated \in BOOLEAN
    /\ next \in Nat
    /\ rows \in Seq([intent: Intents, hash: Calls \X Nat, status: {"confirmed", "failed"}])
    /\ call \in [Calls -> CallState]
    /\ used \in [Servers -> [day: 0..MaxDay, total: 0..MaxDaily]]
    /\ today \in 0..MaxDay
    /\ eoaNonce \in Nat
    /\ mempool \subseteq [nonce: Nat, issued: BOOLEAN, intent: Intents, hash: Calls \X Nat]
    /\ mined \subseteq [hash: Calls \X Nat, nonce: Nat, issued: BOOLEAN, executed: BOOLEAN]
    /\ executed \subseteq Intents
    /\ abandoned \subseteq Nat
    /\ crossed \in BOOLEAN

\* The counter hands a nonce to one attempt of one call: what calls hold, what
\* is pending, what was mined and what was abandoned never coincide, resyncs
\* and failures of the store included.
IssuedOnce ==
    LET held == {<<Hash(c), call[c].nonce>> : c \in {d \in Live : call[d].step = "send" /\ call[d].issued}}
        sent == {<<tx.hash, tx.nonce>> : tx \in {t \in mempool \cup mined : t.issued}}
    IN  /\ \A p, q \in held \cup sent : p[2] = q[2] => p = q
        /\ \A p \in held \cup sent : p[2] \notin abandoned

\* A call that is told its intent was executed is told the truth, whether it
\* heard from wait(), a reconciliation, or another instance's row.
OkMeansExecuted == \A c \in Calls : call[c].step = "done" => call[c].intent \in executed

Spenders(s) ==
    {c \in Calls : call[c] \notin {Idle, Over} /\ call[c].server = s /\ call[c].day = today}

Spends(s) == SumFunctionOnSet([c \in Spenders(s) |-> Amount[call[c].intent]], Spenders(s))

\* What the calls of one process may still spend or did spend today stays
\* within the policy's daily limit, however they overlap, unless an amount of
\* one day was given back on another.
SoftCeilingHolds == ~crossed => \A s \in Servers : Spends(s) <= MaxDaily

\* A nonce that keeps pending transactions from being mined belongs to a call
\* that is about to use it or was abandoned: the counter itself leaves no gap.
Missing ==
    UNION {{n \in eoaNonce..tx.nonce : \A other \in mempool : other.nonce # n} : tx \in mempool}

Held == {call[c].nonce : c \in {d \in Live : call[d].step = "send"}}

GapsAreAbandoned == Missing \subseteq Held \cup abandoned

\* Every nonce that was issued is accounted for, in every state that has its
\* types: one attempt's, or abandoned, or somebody's gap.
NoncesAccounted == TypeOK /\ IssuedOnce /\ GapsAreAbandoned

\* Without a shared counter every call ends: the retries are bounded, and a
\* transaction that was broadcast is mined, whatever other calls do, so that
\* wait() returns.
CallsEnd == ~coordinated => ((Live # {}) ~> (Live = {}))

\* What relayer-coordinator.js:14-16 says: a nonce that is skipped because its
\* holder did not broadcast does no harm, since nonces need not be contiguous.
GapsAreHarmless == Missing \subseteq Held
=============================================================================
