----------------------------- MODULE EngineProofs -----------------------------
(***************************************************************************)
(* What holds of SmartAccountEngine for every number of sessions, targets  *)
(* and calls in flight, and every ceiling, amount and nonce.  Between a    *)
(* call's early checks and its commit anything may happen, so what a       *)
(* commit still knows of its session has to be an invariant: the session   *)
(* is registered, and signs as it did when the call came in.               *)
(***************************************************************************)
EXTENDS SmartAccountEngine, SumTheorems

\* A session is not there or whole.
Shape == sessions \in [SessionIds -> {NoSession} \cup Session]

\* Executions are of registered sessions, and the stored nonce of one with an
\* EVM key is a high-water mark.
NonceIsHighWater ==
    \A i \in DOMAIN executed :
        LET s == sessions[executed[i].session] IN
        /\ Registered(executed[i].session)
        /\ s.scheme = "evm" => executed[i].nonce <= s.lastNonce

\* Only a session with a post-quantum key has a call that awaits.
VerifiesQuantum ==
    \A c \in InFlight :
        /\ Registered(calls[c].intent.sessionId)
        /\ sessions[calls[c].intent.sessionId].scheme # "evm"

\* The bound of the model.
Bounded == Len(executed) <= MaxExecutions

IInv ==
    /\ SpendIsAccounted /\ Shape /\ EvmSignaturesSingleUse
    /\ NonceIsHighWater /\ VerifiesQuantum /\ Bounded

USE DEF brakes, window, vars

-----------------------------------------------------------------------------
\* Nothing is registered, in flight or executed at first.
LEMMA InitIInv == Init => IInv
<1> SUFFICES ASSUME Init PROVE IInv
    OBVIOUS
<1>1. /\ executed = <<>> /\ DOMAIN executed = {} /\ executed \in Seq(Execution)
      /\ \A id \in SessionIds : sessions[id] = NoSession /\ ~Registered(id)
      /\ \A c \in Calls : calls[c] = NoCall
    BY DEF Init, Registered, NoSession
<1>2. TypeOK
    <2>1. clock \in 1..MaxClock /\ spendWindowStart \in 0..MaxClock /\ spentInWindow \in Nat
        BY EngineAssumption DEF Init
    <2>2. calls \in [Calls -> {NoCall} \cup Call] /\ frozen \in BOOLEAN /\ paused \in BOOLEAN
        BY DEF Init
    <2> QED
        BY <1>1, <2>1, <2>2 DEF TypeOK
<1>3. AccountCeilingHolds
    BY EngineAssumption DEF Init, AccountCeilingHolds
<1>4. SessionSpentIsLifetime
    <2>1. \A id \in SessionIds : Of(id) = {}
        BY <1>1 DEF Of
    <2>2. \A id \in SessionIds : Total(id) = 0
        BY <2>1, SumEmpty DEF Total, Sum
    <2> QED
        BY <1>1, <2>2 DEF SessionSpentIsLifetime
<1>5. Shape
    BY DEF Init, Shape
<1>6. EvmSignaturesSingleUse /\ NonceIsHighWater /\ VerifiesQuantum
    BY <1>1 DEF EvmSignaturesSingleUse, NonceIsHighWater, VerifiesQuantum, InFlight
<1>7. Bounded
    BY <1>1, EngineAssumption DEF Bounded
<1> QED
    BY <1>2, <1>3, <1>4, <1>5, <1>6, <1>7 DEF IInv, SpendIsAccounted

\* What a step that executes nothing has to keep: sessions stay registered
\* under their scheme, with their nonce and their spending.
SameBooks ==
    /\ executed' = executed
    /\ sessions' \in [SessionIds -> {NoSession} \cup Session]
    /\ \A id \in SessionIds : Registered(id) =>
            /\ sessions'[id].status # "none"
            /\ sessions'[id].scheme = sessions[id].scheme
            /\ sessions'[id].lastNonce = sessions[id].lastNonce
            /\ sessions'[id].spent = sessions[id].spent
    /\ \A id \in SessionIds : ~Registered(id) /\ sessions'[id].status # "none" =>
            sessions'[id].spent = 0

\* A step that keeps the books keeps the parts of the invariant they decide.
LEMMA BooksKept ==
    ASSUME IInv, SameBooks
    PROVE  /\ Shape' /\ SessionSpentIsLifetime' /\ NonceIsHighWater' /\ EvmSignaturesSingleUse' /\ Bounded'
           /\ calls' = calls => VerifiesQuantum'
<1> USE DEF IInv, SpendIsAccounted, SameBooks
<1>1. \A i \in DOMAIN executed : executed[i] \in Execution
    BY DEF TypeOK
<1>2. \A i \in DOMAIN executed : executed[i].session \in SessionIds /\ Registered(executed[i].session)
    BY <1>1 DEF Execution, NonceIsHighWater
<1>3. Shape'
    BY DEF Shape
<1>4. SessionSpentIsLifetime'
    <2>1. \A id \in SessionIds : Total(id)' = Total(id)
        BY DEF Total, Moved, Of
    <2> QED
        BY <2>1 DEF SessionSpentIsLifetime, Registered
<1>5. NonceIsHighWater'
    BY <1>2 DEF NonceIsHighWater, Registered
<1>6. EvmSignaturesSingleUse'
    BY <1>2 DEF EvmSignaturesSingleUse
<1>7. ASSUME calls' = calls PROVE VerifiesQuantum'
    <2>1. \A c \in InFlight : calls[c].intent.sessionId \in SessionIds
        BY DEF TypeOK, Call, Intents, InFlight
    <2> QED
        BY <1>7, <2>1 DEF VerifiesQuantum, InFlight, Registered
<1>8. Bounded'
    BY DEF Bounded
<1> QED
    BY <1>3, <1>4, <1>5, <1>6, <1>7, <1>8

\* With the sessions untouched nothing of the books changes.
LEMMA SessionsKept ==
    ASSUME IInv, UNCHANGED <<sessions, executed>>
    PROVE  SameBooks
    BY DEF IInv, Shape, SameBooks, Registered

\* TypeOK looks at the sessions only through their shape and their limits.
LEMMA SessionsTyped ==
    ASSUME IInv, NEW id \in SessionIds, Registered(id)
    PROVE  /\ sessions[id] \in Session
           /\ sessions[id].maxPerTx \in Ceilings /\ sessions[id].maxDaily \in Ceilings
           /\ sessions[id].lastNonce \in {0} \cup Nonces
    BY DEF IInv, SpendIsAccounted, Shape, TypeOK, Registered, NoSession

-----------------------------------------------------------------------------
(* Privileged operations. *)

\* A session comes in without spending, or changes in what executions leave
\* alone.
LEMMA SessionWritten ==
    ASSUME IInv, NEW id \in SessionIds, NEW new \in Session,
           sessions' = [sessions EXCEPT ![id] = new],
           UNCHANGED <<clock, brakes, window, calls, executed>>,
           new.maxPerTx \in Ceilings, new.maxDaily \in Ceilings, new.lastNonce \in {0} \cup Nonces,
           \/ ~Registered(id) /\ new.spent = 0
           \/ /\ Registered(id) /\ new.scheme = sessions[id].scheme
              /\ new.lastNonce = sessions[id].lastNonce /\ new.spent = sessions[id].spent
    PROVE  IInv'
<1>1. /\ sessions'[id] = new /\ new.status \in {"active", "revoked"} /\ new.spent \in Nat
      /\ \A j \in SessionIds \ {id} : sessions'[j] = sessions[j]
      /\ sessions' \in [SessionIds -> {NoSession} \cup Session]
    BY DEF IInv, Shape, Session
<1>2. SameBooks
    BY <1>1 DEF SameBooks, Registered
<1>3. TypeOK'
    <2>1. TypeOK
        BY DEF IInv, SpendIsAccounted
    <2>2. ASSUME NEW j \in SessionIds, sessions'[j].status # "none"
          PROVE  /\ sessions'[j].status \in {"active", "revoked"}
                 /\ sessions'[j].spent \in Nat
                 /\ sessions'[j].lastNonce \in {0} \cup Nonces
                 /\ sessions'[j].maxPerTx \in Ceilings
                 /\ sessions'[j].maxDaily \in Ceilings
        <3>1. CASE j = id
            BY <1>1, <3>1
        <3>2. CASE j # id
            BY <1>1, <2>1, <2>2, <3>2 DEF TypeOK, Registered
        <3> QED
            BY <3>1, <3>2
    <2> QED
        BY <2>1, <2>2 DEF TypeOK, Registered
<1>4. AccountCeilingHolds'
    BY DEF IInv, SpendIsAccounted, AccountCeilingHolds
<1> QED
    BY <1>2, <1>3, <1>4, BooksKept DEF IInv, SpendIsAccounted

\* registerSession writes a session that has spent nothing, or renews one
\* without touching its nonce and its spending.
LEMMA RegisterKeeps ==
    ASSUME IInv, NEW by, NEW id \in SessionIds, NEW scheme \in Schemes, NEW binding \in Bindings,
           NEW whitelist \in Whitelists, NEW perTx \in Ceilings, NEW daily \in Ceilings,
           RegisterSession(by, id, scheme, binding, whitelist, perTx, daily)
    PROVE  IInv'
<1> DEFINE new == [status |-> "active", scheme |-> scheme, binding |-> binding, whitelist |-> whitelist,
                   maxPerTx |-> perTx, maxDaily |-> daily, lastNonce |-> 0, spent |-> 0]
<1>1. new \in Session
    BY EngineAssumption DEF Session
<1>2. /\ sessions' = [sessions EXCEPT ![id] = new] /\ ~Registered(id)
      /\ UNCHANGED <<clock, brakes, window, calls, executed>>
    BY DEF RegisterSession
<1>3. /\ new.spent = 0 /\ new.lastNonce \in {0} \cup Nonces
      /\ new.maxPerTx \in Ceilings /\ new.maxDaily \in Ceilings
    OBVIOUS
<1> HIDE DEF new
<1> QED
    BY <1>1, <1>2, <1>3, SessionWritten

\* revokeSession changes a status.
LEMMA RevokeKeeps ==
    ASSUME IInv, NEW by, NEW id \in SessionIds, RevokeSession(by, id)
    PROVE  IInv'
<1> DEFINE new == [sessions[id] EXCEPT !.status = "revoked"]
<1>1. /\ sessions' = [sessions EXCEPT ![id] = new] /\ Registered(id)
      /\ UNCHANGED <<clock, brakes, window, calls, executed>>
    BY DEF RevokeSession
<1>2. /\ sessions[id] \in Session
      /\ sessions[id].maxPerTx \in Ceilings /\ sessions[id].maxDaily \in Ceilings
      /\ sessions[id].lastNonce \in {0} \cup Nonces
    BY <1>1, SessionsTyped
<1>3. /\ new \in Session
      /\ new.scheme = sessions[id].scheme /\ new.lastNonce = sessions[id].lastNonce
      /\ new.spent = sessions[id].spent
      /\ new.maxPerTx = sessions[id].maxPerTx /\ new.maxDaily = sessions[id].maxDaily
    BY <1>2 DEF Session
<1> HIDE DEF new
<1> QED
    BY <1>1, <1>2, <1>3, SessionWritten

\* A limit is lowered alone or with the other; both stay among the ceilings.
LEMMA ReduceKeeps ==
    ASSUME IInv, NEW by, NEW id \in SessionIds, NEW perTx \in Ceilings, NEW daily \in Ceilings,
           EmergencyReduceLimit(by, id, perTx, daily)
    PROVE  IInv'
<1> DEFINE new == [sessions[id] EXCEPT
                      !.maxPerTx = perTx,
                      !.maxDaily = IF ReducesDaily(id, daily) THEN daily ELSE @]
<1>1. /\ sessions' = [sessions EXCEPT ![id] = new] /\ Registered(id)
      /\ UNCHANGED <<clock, brakes, window, calls, executed>>
    BY DEF EmergencyReduceLimit, IInv, Shape
<1>2. /\ sessions[id] \in Session
      /\ sessions[id].maxPerTx \in Ceilings /\ sessions[id].maxDaily \in Ceilings
      /\ sessions[id].lastNonce \in {0} \cup Nonces
    BY <1>1, SessionsTyped
<1>3. /\ new \in Session
      /\ new.scheme = sessions[id].scheme /\ new.lastNonce = sessions[id].lastNonce
      /\ new.spent = sessions[id].spent
      /\ new.maxPerTx \in Ceilings /\ new.maxDaily \in Ceilings
    BY <1>2, EngineAssumption DEF Session
<1> HIDE DEF new
<1> QED
    BY <1>1, <1>2, <1>3, SessionWritten

\* Brakes and the clock are read by executions only.
LEMMA BrakesAndClockKeep ==
    ASSUME IInv, UNCHANGED <<sessions, window, calls, executed>>,
           frozen' \in BOOLEAN, paused' \in BOOLEAN, clock' \in 1..MaxClock
    PROVE  IInv'
<1>1. SameBooks
    BY SessionsKept
<1>2. TypeOK' /\ AccountCeilingHolds'
    BY DEF IInv, SpendIsAccounted, TypeOK, AccountCeilingHolds, Registered
<1> QED
    BY <1>1, <1>2, BooksKept DEF IInv, SpendIsAccounted

\* Every call of the owner and of the emergency key keeps the invariant.
LEMMA AdministerKeeps ==
    ASSUME IInv, NEW by, Administer(by)
    PROVE  IInv'
<1>1. CASE Pause(by) \/ Resume(by) \/ Freeze(by) \/ Unfreeze(by)
    <2>1. PICK froze \in BOOLEAN, halted \in BOOLEAN : SetBrakes(froze, halted)
        BY <1>1 DEF Pause, Resume, Freeze, Unfreeze, IInv, SpendIsAccounted, TypeOK
    <2>2. clock \in 1..MaxClock
        BY DEF IInv, SpendIsAccounted, TypeOK
    <2> QED
        BY <2>1, <2>2, BrakesAndClockKeep DEF SetBrakes
<1> QED
    BY <1>1, RegisterKeeps, RevokeKeeps, ReduceKeeps DEF Administer

\* Time passes, or other components move the brakes.
LEMMA TickKeeps ==
    ASSUME IInv, Tick
    PROVE  IInv'
<1>1. clock' \in 1..MaxClock /\ frozen' \in BOOLEAN /\ paused' \in BOOLEAN
    BY EngineAssumption DEF Tick, IInv, SpendIsAccounted, TypeOK
<1> QED
    BY <1>1, BrakesAndClockKeep DEF Tick

-----------------------------------------------------------------------------
(* executeFromAgent. *)

\* rollWindow leaves a window within the ceiling.
LEMMA RollKeepsCeiling ==
    ASSUME IInv, NEW now \in 1..MaxClock
    PROVE  /\ RolledWindow(now).start \in 0..MaxClock
           /\ RolledWindow(now).spent \in Nat
           /\ AccountLimited => RolledWindow(now).spent <= AccountMaxDaily
    BY EngineAssumption DEF IInv, SpendIsAccounted, TypeOK, AccountCeilingHolds, RolledWindow

\* A step that rolls the window, or leaves it, and executes nothing.
LEMMA RefusalKeeps ==
    ASSUME IInv, NEW now \in 1..MaxClock, Roll(now) \/ UNCHANGED window,
           UNCHANGED <<clock, brakes, sessions, executed>>,
           calls' \in [Calls -> {NoCall} \cup Call],
           \A c \in InFlight' : c \in InFlight /\ calls'[c] = calls[c]
    PROVE  IInv'
<1>1. /\ spendWindowStart' \in 0..MaxClock /\ spentInWindow' \in Nat
      /\ AccountLimited => spentInWindow' <= AccountMaxDaily
    <2>1. CASE Roll(now)
        BY <2>1, RollKeepsCeiling DEF Roll
    <2>2. CASE UNCHANGED window
        BY <2>2 DEF IInv, SpendIsAccounted, TypeOK, AccountCeilingHolds
    <2> QED
        BY <2>1, <2>2
<1>2. TypeOK' /\ AccountCeilingHolds'
    BY <1>1 DEF IInv, SpendIsAccounted, TypeOK, AccountCeilingHolds, Registered
<1>3. SameBooks
    BY SessionsKept
<1>4. VerifiesQuantum'
    BY DEF IInv, VerifiesQuantum, Registered
<1> QED
    BY <1>2, <1>3, <1>4, BooksKept DEF IInv, SpendIsAccounted

\* What Append does, in the terms of the history.
LEMMA ExecutionAppended ==
    ASSUME TypeOK, NEW e \in Execution, executed' = Append(executed, e),
           NEW n, n = Len(executed) + 1
    PROVE  /\ executed' \in Seq(Execution)
           /\ n \notin DOMAIN executed /\ DOMAIN executed' = DOMAIN executed \cup {n}
           /\ \A i \in DOMAIN executed : executed'[i] = executed[i] /\ executed[i] \in Execution /\ i < n
           /\ executed'[n] = e
           /\ DOMAIN executed \subseteq Int /\ n \in Int
           /\ IsFiniteSet(DOMAIN executed)
<1>1. executed \in Seq(Execution)
    BY DEF TypeOK
<1>2. Len(executed) \in Nat /\ DOMAIN executed = 1..Len(executed)
    BY <1>1
<1>3. IsFiniteSet(DOMAIN executed)
    BY <1>2, FS_Interval
<1>4. /\ executed' \in Seq(Execution) /\ Len(executed') = n
      /\ \A i \in 1..Len(executed) : executed'[i] = executed[i] /\ executed[i] \in Execution
      /\ executed'[n] = e
    BY <1>1, <1>2
<1>5. DOMAIN executed' = 1..n
    BY <1>4
<1> QED
    BY <1>2, <1>3, <1>4, <1>5

\* The totals after an execution: one more amount for its session.
LEMMA TotalsAfter ==
    ASSUME TypeOK, NEW e \in Execution, executed' = Append(executed, e), NEW id \in SessionIds
    PROVE  /\ Total(id) \in Int
           /\ Total(id)' = Total(id) + (IF e.session = id THEN e.amount ELSE 0)
<1> DEFINE n == Len(executed) + 1
<1>1. /\ n \notin DOMAIN executed /\ DOMAIN executed' = DOMAIN executed \cup {n}
      /\ \A i \in DOMAIN executed : executed'[i] = executed[i] /\ executed[i] \in Execution
      /\ executed'[n] = e /\ IsFiniteSet(DOMAIN executed)
    BY ExecutionAppended
<1> HIDE DEF n
<1>2. Of(id) \subseteq DOMAIN executed /\ IsFiniteSet(Of(id)) /\ n \notin Of(id)
    BY <1>1, FS_Subset DEF Of
<1>3. /\ \A i \in Of(id) : Moved'[i] = Moved[i] /\ Moved[i] \in Int /\ Moved'[i] \in Int
      /\ Moved'[n] = e.amount /\ e.amount \in Int
    <2>1. e.amount \in Amounts /\ \A i \in DOMAIN executed : executed[i].amount \in Amounts
        BY <1>1 DEF Execution
    <2>2. \A amount \in Amounts : amount \in Int
        BY EngineAssumption
    <2> QED
        BY <1>1, <1>2, <2>1, <2>2 DEF Moved
<1>4. Sum(Moved', Of(id)) = Total(id) /\ Total(id) \in Int
    <2>1. Sum(Moved', Of(id)) = Sum(Moved, Of(id)) /\ Sum(Moved, Of(id)) \in Int
        BY <1>2, <1>3, SumSame, SumInt
    <2> QED
        BY <2>1 DEF Sum, Total
<1>5. CASE e.session = id
    <2>1. Of(id)' = Of(id) \cup {n}
        BY <1>1, <1>5 DEF Of
    <2>2. Sum(Moved', Of(id) \cup {n}) = Moved'[n] + Sum(Moved', Of(id))
        BY <1>2, <1>3, SumAdd
    <2>3. Total(id)' = Sum(Moved', Of(id)')
        BY DEF Sum, Total
    <2> QED
        BY <1>3, <1>4, <1>5, <2>1, <2>2, <2>3
<1>6. CASE e.session # id
    <2>1. Of(id)' = Of(id)
        BY <1>1, <1>6 DEF Of
    <2>2. Total(id)' = Sum(Moved', Of(id)')
        BY DEF Sum, Total
    <2> QED
        BY <1>4, <1>6, <2>1, <2>2
<1> QED
    BY <1>4, <1>5, <1>6

\* What a commit changes of its session.
LEMMA AccruedSession ==
    ASSUME NEW s \in Session, NEW intent, intent.nonce \in Nat, intent.amount \in Nat
    PROVE  LET new == Accrued(s, intent) IN
           /\ new \in Session /\ new.scheme = s.scheme
           /\ new.status = s.status
           /\ new.maxPerTx = s.maxPerTx /\ new.maxDaily = s.maxDaily
           /\ new.lastNonce = intent.nonce
           /\ new.spent = s.spent + intent.amount /\ new.spent \in Nat
<1>1. s.spent \in Nat /\ s.spent + intent.amount \in Nat
    BY DEF Session
<1> QED
    BY <1>1 DEF Accrued, Session

\* A commit keeps the books, whenever it comes: it looks at the ceilings in
\* the state it changes, and with an EVM key at the nonce too.
LEMMA CommitKeeps ==
    ASSUME IInv, NEW intent \in Intents, NEW now \in 1..MaxClock, NEW after \in 0..MaxExecutions,
           Commit(intent, now, after), UNCHANGED <<clock, brakes>>,
           Registered(intent.sessionId),
           sessions[intent.sessionId].scheme = "evm" => NonceIsNext(intent.sessionId, intent.nonce),
           calls' \in [Calls -> {NoCall} \cup Call],
           \A c \in InFlight' : c \in InFlight /\ calls'[c] = calls[c]
    PROVE  IInv'
<1> DEFINE id == intent.sessionId
           new == Accrued(sessions[id], intent)
           e == [session |-> id, nonce |-> intent.nonce, amount |-> intent.amount, after |-> after]
           n == Len(executed) + 1
<1>1. /\ id \in SessionIds /\ intent.amount \in Amounts /\ intent.amount \in Nat
      /\ intent.nonce \in Nonces /\ intent.nonce \in Nat
    BY EngineAssumption DEF Intents
<1>2. e \in Execution /\ e.session = id /\ e.nonce = intent.nonce /\ e.amount = intent.amount
    BY <1>1 DEF Execution
<1>3. /\ sessions' = [sessions EXCEPT ![id] = new]
      /\ executed' = Append(executed, e)
      /\ AccountHasRoom(now, intent.amount)
      /\ spentInWindow' = RolledWindow(now).spent + (IF AccountLimited THEN intent.amount ELSE 0)
      /\ spendWindowStart' = IF RolledWindow(now).start = 0 THEN now ELSE RolledWindow(now).start
    BY DEF Commit
<1>4. /\ sessions[id] \in Session
      /\ sessions[id].maxPerTx \in Ceilings /\ sessions[id].maxDaily \in Ceilings
      /\ sessions[id].lastNonce \in {0} \cup Nonces
    BY <1>1, SessionsTyped
<1>5. /\ new \in Session /\ new.scheme = sessions[id].scheme
      /\ new.status = sessions[id].status
      /\ new.maxPerTx = sessions[id].maxPerTx /\ new.maxDaily = sessions[id].maxDaily
      /\ new.lastNonce = intent.nonce
      /\ new.spent = sessions[id].spent + intent.amount /\ new.spent \in Nat
    BY <1>1, <1>4, AccruedSession
<1>6. TypeOK /\ Shape
    BY DEF IInv, SpendIsAccounted
<1>7. /\ executed' \in Seq(Execution)
      /\ n \notin DOMAIN executed /\ DOMAIN executed' = DOMAIN executed \cup {n}
      /\ \A i \in DOMAIN executed : executed'[i] = executed[i] /\ executed[i] \in Execution /\ i < n
      /\ executed'[n] = e
      /\ DOMAIN executed \subseteq Int /\ n \in Int
    BY <1>2, <1>3, <1>6, ExecutionAppended
<1> HIDE DEF new, n, e
<1>8. /\ sessions'[id] = new
      /\ \A j \in SessionIds \ {id} : sessions'[j] = sessions[j]
      /\ sessions' \in [SessionIds -> {NoSession} \cup Session]
    BY <1>1, <1>3, <1>5, <1>6 DEF Shape
<1>9. \A j \in SessionIds : Registered(j) <=> sessions'[j].status # "none"
    BY <1>1, <1>4, <1>5, <1>8 DEF Registered, Session
<1>10. TypeOK'
    <2>1. ASSUME NEW j \in SessionIds, sessions'[j].status # "none"
          PROVE  /\ sessions'[j].status \in {"active", "revoked"}
                 /\ sessions'[j].spent \in Nat
                 /\ sessions'[j].lastNonce \in {0} \cup Nonces
                 /\ sessions'[j].maxPerTx \in Ceilings
                 /\ sessions'[j].maxDaily \in Ceilings
        <3>1. CASE j = id
            BY <1>1, <1>4, <1>5, <1>8, <3>1 DEF Session
        <3>2. CASE j # id
            BY <1>6, <1>8, <2>1, <3>2 DEF TypeOK, Registered
        <3> QED
            BY <3>1, <3>2
    <2>2. spendWindowStart' \in 0..MaxClock /\ spentInWindow' \in Nat
        BY <1>1, <1>3, RollKeepsCeiling, EngineAssumption
    <2> QED
        BY <1>6, <1>7, <2>1, <2>2 DEF TypeOK, Registered
<1>11. AccountCeilingHolds'
    BY <1>1, <1>3, RollKeepsCeiling DEF AccountCeilingHolds, AccountHasRoom
<1>12. SessionSpentIsLifetime'
    <2> SUFFICES ASSUME NEW j \in SessionIds
                 PROVE  Total(j)' = (IF sessions'[j].status # "none" THEN sessions'[j].spent ELSE 0)
        BY DEF SessionSpentIsLifetime, Registered
    <2>1. Total(j) = (IF Registered(j) THEN sessions[j].spent ELSE 0)
        BY DEF IInv, SpendIsAccounted, SessionSpentIsLifetime
    <2>2. Total(j) \in Int /\ Total(j)' = Total(j) + (IF e.session = j THEN e.amount ELSE 0)
        BY <1>2, <1>3, <1>6, TotalsAfter DEF e
    <2>3. CASE j = id
        BY <1>2, <1>5, <1>8, <1>9, <2>1, <2>2, <2>3
    <2>4. CASE j # id
        BY <1>2, <1>8, <1>9, <2>1, <2>2, <2>4
    <2> QED
        BY <2>3, <2>4
<1>13. \A i \in DOMAIN executed :
            /\ executed[i].session \in SessionIds /\ executed[i].nonce \in Nat
            /\ Registered(executed[i].session)
            /\ sessions'[executed[i].session].scheme = sessions[executed[i].session].scheme
            /\ sessions[executed[i].session].scheme = "evm" =>
                    executed[i].nonce <= sessions[executed[i].session].lastNonce
    <2>1. \A i \in DOMAIN executed : executed[i].session \in SessionIds /\ executed[i].nonce \in Nat
        BY <1>7, EngineAssumption DEF Execution
    <2> QED
        BY <1>5, <1>8, <2>1 DEF IInv, NonceIsHighWater
<1>14. \A i \in DOMAIN executed :
            executed[i].session = id /\ sessions[id].scheme = "evm" => executed[i].nonce < intent.nonce
    <2>1. sessions[id].lastNonce \in Nat
        BY <1>4 DEF Session
    <2>2. sessions[id].scheme = "evm" => intent.nonce > sessions[id].lastNonce
        BY DEF NonceIsNext
    <2> QED
        BY <1>1, <1>13, <2>1, <2>2
<1>15. NonceIsHighWater'
    <2> SUFFICES ASSUME NEW i \in DOMAIN executed'
                 PROVE  /\ sessions'[executed'[i].session].status # "none"
                        /\ sessions'[executed'[i].session].scheme = "evm" =>
                              executed'[i].nonce <= sessions'[executed'[i].session].lastNonce
        BY DEF NonceIsHighWater, Registered
    <2>1. CASE i = n
        BY <1>1, <1>2, <1>5, <1>7, <1>8, <1>9, <2>1
    <2>2. CASE i # n /\ executed[i].session = id
        BY <1>1, <1>5, <1>7, <1>8, <1>9, <1>13, <1>14, <2>2
    <2>3. CASE i # n /\ executed[i].session # id
        BY <1>7, <1>8, <1>9, <1>13, <2>3
    <2> QED
        BY <2>1, <2>2, <2>3
<1>16. EvmSignaturesSingleUse'
    <2> SUFFICES ASSUME NEW i \in DOMAIN executed', NEW j \in DOMAIN executed', i < j,
                        executed'[i].session = executed'[j].session,
                        sessions'[executed'[i].session].scheme = "evm"
                 PROVE  executed'[i].nonce < executed'[j].nonce
        BY DEF EvmSignaturesSingleUse
    <2>1. i \in DOMAIN executed
        BY <1>7
    <2>2. CASE j = n
        BY <1>2, <1>7, <1>13, <1>14, <2>1, <2>2
    <2>3. CASE j # n
        BY <1>7, <1>13, <2>1, <2>3 DEF IInv, EvmSignaturesSingleUse
    <2> QED
        BY <2>2, <2>3
<1>17. VerifiesQuantum'
    <2> SUFFICES ASSUME NEW c \in InFlight'
                 PROVE  /\ sessions'[calls'[c].intent.sessionId].status # "none"
                        /\ sessions'[calls'[c].intent.sessionId].scheme # "evm"
        BY DEF VerifiesQuantum, Registered
    <2>1. c \in InFlight /\ calls'[c] = calls[c]
        OBVIOUS
    <2>2. calls[c].intent.sessionId \in SessionIds
        BY <1>6, <2>1 DEF TypeOK, Call, Intents, InFlight
    <2>3. Registered(calls[c].intent.sessionId) /\ sessions[calls[c].intent.sessionId].scheme # "evm"
        BY <2>1 DEF IInv, VerifiesQuantum
    <2> QED
        BY <1>5, <1>8, <1>9, <2>1, <2>2, <2>3
<1>18. Bounded'
    <2>1. Len(executed) < MaxExecutions /\ MaxExecutions \in Nat
        BY EngineAssumption DEF Commit
    <2>2. Len(executed) \in Nat /\ Len(executed') = Len(executed) + 1
        BY <1>3, <1>6 DEF TypeOK
    <2> QED
        BY <2>1, <2>2 DEF Bounded
<1> QED
    BY <1>8, <1>10, <1>11, <1>12, <1>15, <1>16, <1>17, <1>18 DEF IInv, SpendIsAccounted, Shape

\* Whatever a call that got to its ceilings ends with.
LEMMA SettleKeeps ==
    ASSUME IInv, NEW intent \in Intents, NEW now \in 1..MaxClock, NEW after \in 0..MaxExecutions,
           Settle(intent, now, after), UNCHANGED <<clock, brakes>>,
           Registered(intent.sessionId),
           sessions[intent.sessionId].scheme = "evm" => NonceIsNext(intent.sessionId, intent.nonce),
           calls' \in [Calls -> {NoCall} \cup Call],
           \A c \in InFlight' : c \in InFlight /\ calls'[c] = calls[c]
    PROVE  IInv'
<1>1. CASE RefusePerTx(intent)
    BY <1>1, RefusalKeeps DEF RefusePerTx
<1>2. CASE RefuseCeiling(intent, now)
    BY <1>2, RefusalKeeps DEF RefuseCeiling
<1>3. CASE Commit(intent, now, after)
    BY <1>3, CommitKeeps
<1> QED
    BY <1>1, <1>2, <1>3 DEF Settle

\* The instants and counts that a call starts with.
LEMMA CallStart ==
    ASSUME IInv, NEW intent, Admitted(intent)
    PROVE  /\ clock \in 1..MaxClock
           /\ Len(executed) \in 0..MaxExecutions
           /\ Registered(intent.sessionId)
           /\ NonceIsNext(intent.sessionId, intent.nonce)
           /\ calls \in [Calls -> {NoCall} \cup Call]
<1>1. executed \in Seq(Execution) /\ Len(executed) <= MaxExecutions /\ MaxExecutions \in Nat
    BY EngineAssumption DEF IInv, SpendIsAccounted, TypeOK, Bounded
<1>2. Len(executed) \in 0..MaxExecutions
    BY <1>1
<1> QED
    BY <1>2 DEF IInv, SpendIsAccounted, TypeOK, Admitted, Active, Registered

\* preview moves the start of the window, and nothing is charged to the new one yet.
LEMMA PreviewKeeps ==
    ASSUME IInv, NEW intent \in Intents, Preview(intent)
    PROVE  IInv'
<1>1. clock \in 1..MaxClock /\ calls \in [Calls -> {NoCall} \cup Call]
    BY DEF IInv, SpendIsAccounted, TypeOK
<1>2. Roll(clock) /\ UNCHANGED <<clock, brakes, sessions, calls, executed>>
    BY DEF Preview
<1>3. InFlight' = InFlight
    BY <1>2 DEF InFlight
<1> QED
    BY <1>1, <1>2, <1>3, RefusalKeeps

\* With an EVM key a call is done before anything else happens.
LEMMA ExecuteEvmKeeps ==
    ASSUME IInv, NEW intent \in Intents, ExecuteEvm(intent)
    PROVE  IInv'
<1>1. /\ Admitted(intent) /\ Settle(intent, clock, Len(executed))
      /\ UNCHANGED <<clock, brakes>> /\ calls' = calls
    BY DEF ExecuteEvm
<1>2. /\ clock \in 1..MaxClock /\ Len(executed) \in 0..MaxExecutions
      /\ Registered(intent.sessionId)
      /\ NonceIsNext(intent.sessionId, intent.nonce)
      /\ calls \in [Calls -> {NoCall} \cup Call]
    BY <1>1, CallStart
<1>3. InFlight' = InFlight
    BY <1>1 DEF InFlight
<1> QED
    BY <1>1, <1>2, <1>3, SettleKeeps

\* A call that awaits is of a session with a post-quantum key, and registered.
LEMMA BeginKeeps ==
    ASSUME IInv, NEW c \in Calls, NEW intent \in Intents, BeginVerification(c, intent)
    PROVE  IInv'
<1> DEFINE call == [status |-> "verifying", intent |-> intent, now |-> clock, after |-> Len(executed)]
<1>1. /\ Admitted(intent) /\ sessions[intent.sessionId].scheme = "pqc"
      /\ calls' = [calls EXCEPT ![c] = call]
      /\ UNCHANGED <<clock, brakes, sessions, window, executed>>
    BY DEF BeginVerification
<1>2. /\ clock \in 1..MaxClock /\ Len(executed) \in 0..MaxExecutions
      /\ Registered(intent.sessionId)
      /\ calls \in [Calls -> {NoCall} \cup Call]
    BY <1>1, CallStart
<1>3. call \in Call /\ call.intent = intent
    BY <1>2 DEF Call
<1> HIDE DEF call
<1>4. /\ calls' \in [Calls -> {NoCall} \cup Call] /\ calls'[c] = call
      /\ \A d \in Calls \ {c} : calls'[d] = calls[d]
    BY <1>1, <1>2, <1>3
<1>5. SameBooks
    BY <1>1, SessionsKept
<1>6. TypeOK' /\ AccountCeilingHolds'
    BY <1>1, <1>4 DEF IInv, SpendIsAccounted, TypeOK, AccountCeilingHolds, Registered
<1>7. VerifiesQuantum'
    <2> SUFFICES ASSUME NEW d \in Calls, calls'[d] # NoCall
                 PROVE  /\ sessions[calls'[d].intent.sessionId].status # "none"
                        /\ sessions[calls'[d].intent.sessionId].scheme # "evm"
        BY <1>1 DEF VerifiesQuantum, Registered, InFlight
    <2>1. CASE d = c
        BY <1>1, <1>2, <1>3, <1>4, <2>1 DEF Registered
    <2>2. CASE d # c
        BY <1>4, <2>2 DEF IInv, VerifiesQuantum, Registered, InFlight
    <2> QED
        BY <2>1, <2>2
<1> QED
    BY <1>5, <1>6, <1>7, BooksKept DEF IInv, SpendIsAccounted

\* The call in flight comes back to a session that may have changed.
LEMMA EndKeeps ==
    ASSUME IInv, NEW c \in Calls, EndVerification(c)
    PROVE  IInv'
<1> DEFINE intent == calls[c].intent
<1>1. /\ calls[c] # NoCall /\ calls' = [calls EXCEPT ![c] = NoCall]
      /\ UNCHANGED <<clock, brakes>>
    BY DEF EndVerification
<1>2. TypeOK
    BY DEF IInv, SpendIsAccounted
<1>3. /\ calls' \in [Calls -> {NoCall} \cup Call]
      /\ \A d \in InFlight' : d \in InFlight /\ calls'[d] = calls[d]
    BY <1>1, <1>2 DEF TypeOK, InFlight
<1>4. calls[c] \in Call
    BY <1>1, <1>2 DEF TypeOK
<1>5. /\ intent \in Intents /\ calls[c].now \in 1..MaxClock
      /\ calls[c].after \in 0..MaxExecutions
    BY <1>4 DEF Call
<1>6. Registered(intent.sessionId) /\ sessions[intent.sessionId].scheme # "evm"
    BY <1>1 DEF IInv, VerifiesQuantum, InFlight
<1> HIDE DEF intent
<1>7. CASE UNCHANGED <<sessions, window, executed>>
    <2>1. clock \in 1..MaxClock
        BY <1>2 DEF TypeOK
    <2> QED
        BY <1>1, <1>3, <1>7, <2>1, RefusalKeeps
<1>8. CASE Settle(intent, calls[c].now, calls[c].after)
    BY <1>1, <1>3, <1>5, <1>6, <1>8, SettleKeeps
<1> QED
    BY <1>7, <1>8 DEF EndVerification, intent

-----------------------------------------------------------------------------
\* The inductive invariant, one lemma per action.
THEOREM Invariant == Spec => []IInv
<1>1. IInv /\ [Next]_vars => IInv'
    <2> SUFFICES ASSUME IInv, [Next]_vars PROVE IInv'
        OBVIOUS
    <2>1. CASE UNCHANGED vars
        <3>1. clock \in 1..MaxClock /\ frozen \in BOOLEAN /\ paused \in BOOLEAN
            BY DEF IInv, SpendIsAccounted, TypeOK
        <3> QED
            BY <2>1, <3>1, BrakesAndClockKeep
    <2>2. CASE Next
        BY <2>2, TickKeeps, AdministerKeeps, ExecuteEvmKeeps, PreviewKeeps, BeginKeeps, EndKeeps DEF Next
    <2> QED
        BY <2>1, <2>2
<1> QED
    BY <1>1, InitIInv, PTL DEF Spec

\* The window of a limited account holds at most its ceiling, and a session is
\* charged for all it executed (steps 8 and 10 of executeFromAgent), however
\* many calls were in flight together.
THEOREM BooksBalance == Spec => []SpendIsAccounted
<1>1. IInv => SpendIsAccounted
    BY DEF IInv
<1> QED
    BY <1>1, Invariant, PTL

\* verifyIntentDigest: a session with an EVM key executes a nonce once, and in
\* order.
THEOREM NoncesIncrease == Spec => []EvmSignaturesSingleUse
<1>1. IInv => EvmSignaturesSingleUse
    BY DEF IInv
<1> QED
    BY <1>1, Invariant, PTL

\* While a brake holds, what is executed uses up a call in flight.
LEMMA BrakedStep ==
    ASSUME IInv, Next, paused \/ frozen
    PROVE  BrakesAdmitNothing
<1>1. CASE UNCHANGED <<calls, executed>>
    BY <1>1 DEF BrakesAdmitNothing, InFlight
<1>2. CASE \E c \in Calls : EndVerification(c)
    <2>1. PICK c \in Calls : EndVerification(c)
        BY <1>2
    <2>2. calls \in [Calls -> {NoCall} \cup Call]
        BY DEF IInv, SpendIsAccounted, TypeOK
    <2>3. InFlight' = InFlight \ {c} /\ c \in InFlight
        BY <2>1, <2>2 DEF EndVerification, InFlight
    <2> QED
        BY <2>3 DEF BrakesAdmitNothing
<1>3. ~ \E c \in Calls, intent \in Intents : BeginVerification(c, intent)
    BY DEF BeginVerification, Admitted, BrakesOff
<1>4. ~ \E intent \in Intents : ExecuteEvm(intent)
    BY DEF ExecuteEvm, Admitted, BrakesOff
<1>5. \A by \in Callers : Administer(by) => UNCHANGED <<calls, executed>>
    BY DEF Administer, RegisterSession, RevokeSession, Pause, Resume, Freeze, Unfreeze, SetBrakes,
           EmergencyReduceLimit
<1> QED
    BY <1>1, <1>2, <1>3, <1>4, <1>5 DEF Next, Tick, Preview

\* No call of the emergency key raises what a session can lose.
LEMMA EmergencyStep ==
    ASSUME IInv, EmergencyKey # Owner, Administer(EmergencyKey), NEW id \in SessionIds, Registered(id)
    PROVE  /\ sessions'[id].maxPerTx <= sessions[id].maxPerTx
           /\ SessionRemaining(id)' <= SessionRemaining(id)
           /\ Active(id)' => Active(id)
<1>1. sessions[id] \in Session /\ Shape
    BY SessionsTyped DEF IInv
<1>2. sessions[id].maxPerTx \in Int /\ sessions[id].maxDaily \in Int /\ sessions[id].spent \in Int
    BY <1>1 DEF Session
<1>3. ~ \E j \in SessionIds, scheme \in Schemes, binding \in Bindings, whitelist \in Whitelists,
           perTx \in Ceilings, daily \in Ceilings :
              RegisterSession(EmergencyKey, j, scheme, binding, whitelist, perTx, daily)
    BY DEF RegisterSession
<1>4. CASE sessions'[id] = sessions[id]
    BY <1>2, <1>4 DEF SessionRemaining, Active
<1>5. ASSUME NEW j \in SessionIds, RevokeSession(EmergencyKey, j), sessions'[id] # sessions[id]
      PROVE  /\ sessions'[id].maxPerTx = sessions[id].maxPerTx
             /\ sessions'[id].maxDaily = sessions[id].maxDaily
             /\ sessions'[id].spent = sessions[id].spent
             /\ sessions'[id].status # "active"
    <2>1. sessions' = [sessions EXCEPT ![j].status = "revoked"]
        BY <1>5 DEF RevokeSession
    <2>2. j = id
        BY <1>1, <1>5, <2>1 DEF Shape
    <2>3. sessions'[id] = [sessions[id] EXCEPT !.status = "revoked"]
        BY <1>1, <2>1, <2>2 DEF Shape
    <2> QED
        BY <1>1, <2>3 DEF Session
<1>6. ASSUME NEW j \in SessionIds, NEW perTx \in Ceilings, NEW daily \in Ceilings,
             EmergencyReduceLimit(EmergencyKey, j, perTx, daily), sessions'[id] # sessions[id]
      PROVE  /\ sessions'[id].maxPerTx <= sessions[id].maxPerTx
             /\ sessions'[id].maxDaily <= sessions[id].maxDaily
             /\ sessions'[id].spent = sessions[id].spent
             /\ sessions'[id].status = sessions[id].status
             /\ sessions'[id].maxDaily \in Int
    <2> DEFINE new == [sessions[j] EXCEPT
                          !.maxPerTx = perTx,
                          !.maxDaily = IF ReducesDaily(j, daily) THEN daily ELSE @]
    <2>1. sessions' = [sessions EXCEPT ![j] = new] /\ perTx <= sessions[j].maxPerTx
        BY <1>1, <1>6 DEF EmergencyReduceLimit, Shape
    <2>2. j = id
        BY <1>1, <1>6, <2>1 DEF Shape
    <2>3. sessions'[id] = new
        BY <1>1, <2>1, <2>2 DEF Shape
    <2>4. /\ new.maxPerTx = perTx /\ new.spent = sessions[id].spent /\ new.status = sessions[id].status
          /\ new.maxDaily = IF ReducesDaily(id, daily) THEN daily ELSE sessions[id].maxDaily
        BY <1>1, <2>2 DEF Session
    <2>5. daily \in Int
        BY EngineAssumption
    <2> HIDE DEF new
    <2> QED
        BY <1>2, <2>1, <2>2, <2>3, <2>4, <2>5 DEF ReducesDaily
<1>7. CASE \E j \in SessionIds : RevokeSession(EmergencyKey, j)
    BY <1>2, <1>4, <1>5, <1>7 DEF SessionRemaining, Active
<1>8. CASE \E j \in SessionIds, perTx \in Ceilings, daily \in Ceilings :
              EmergencyReduceLimit(EmergencyKey, j, perTx, daily)
    BY <1>2, <1>4, <1>6, <1>8 DEF SessionRemaining, Active
<1> QED
    BY <1>3, <1>4, <1>7, <1>8 DEF Administer, Pause, Resume, Freeze, Unfreeze, SetBrakes

\* INV-006 and the brakes of executeFromAgent's first step, for any number of
\* sessions and of calls in flight.
THEOREM BrakesAndEmergency == Spec => BrakesHold
<1>1. IInv /\ [Next]_vars => [BrakesAdmitNothing /\ EmergencyNeverRaisesLoss]_vars
    <2> SUFFICES ASSUME IInv, Next PROVE BrakesAdmitNothing /\ EmergencyNeverRaisesLoss
        OBVIOUS
    <2>1. BrakesAdmitNothing
        BY BrakedStep DEF BrakesAdmitNothing
    <2>2. EmergencyNeverRaisesLoss
        BY EmergencyStep DEF EmergencyNeverRaisesLoss
    <2> QED
        BY <2>1, <2>2
<1> QED
    BY <1>1, Invariant, PTL DEF Spec, BrakesHold
=============================================================================
