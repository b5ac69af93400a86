------------------------- MODULE SmartAccountProofs -------------------------
(***************************************************************************)
(* What holds of SmartAccount for every number of accounts, sessions and   *)
(* agents, every list, ceiling, amount and nonce, and every length of the  *)
(* run.  The inductive invariant is typing, the account's ceiling, and the *)
(* fact that a session's stored nonce is at least every nonce it executed. *)
(***************************************************************************)
EXTENDS SmartAccount, SumTheorems

\* What the account's window has spent stays under its ceiling: the guard of
\* step 6, which the sums over the windows rest on.
AccountCeilingHolds == accountSpentThisWindow <= AccountMaxDaily

\* The stored nonce of a session is a high-water mark of its executions: the
\* strengthening that makes NonceSpentOnce inductive.
NonceIsHighWater ==
    \A i \in DOMAIN executed : executed[i].nonce <= sessionLastNonce[executed[i].session]

IInv == TypeOK /\ AccountCeilingHolds /\ NonceIsHighWater /\ NonceSpentOnce

-----------------------------------------------------------------------------
(* Typing. *)

\* The initial state is well typed.
LEMMA InitTyped == Init => TypeOK
<1> SUFFICES ASSUME Init PROVE TypeOK
  OBVIOUS
<1>1. NoSession \in Session
  <2>1. [agentId |-> NoAgentId, issuedAt |-> 0, expiresAt |-> 0]
            \in [agentId: AgentIds, issuedAt: Nat, expiresAt: Nat]
    BY KeysAssumption
  <2>2. 0 \in 0..MaxUint
    BY NumbersAssumption
  <2>3. QED
    BY <2>1, <2>2 DEF NoSession, Session, Addresses
<1>2. sessions \in [SessionIds -> Session]
  BY <1>1 DEF Init
<1>3. executed \in Seq(Execution)
  BY DEF Init
<1>4. whitelists \in [SessionIds -> [Dimensions -> SUBSET Names]]
  BY DEF Init
<1>5. /\ now \in 1..MaxTime
      /\ 0 \in 0..MaxUint
      /\ 0 \in 0..MaxTime
  BY NumbersAssumption DEF Init
<1>6. QED
  BY <1>2, <1>3, <1>4, <1>5 DEF Init, TypeOK

\* A registration stores a well-typed session and touches nothing else.
LEMMA RegisterTyped ==
    ASSUME TypeOK, NEW caller, NEW id \in SessionIds, NEW agent \in Addresses,
           NEW binding \in Bindings, NEW perTx \in Ceilings, NEW daily \in Ceilings,
           NEW list \in Whitelists,
           RegisterSession(caller, id, agent, binding, perTx, daily, list)
    PROVE  TypeOK'
<1>1. sessions' \in [SessionIds -> Session]
  <2>1. [agentEvmAddress |-> agent, binding |-> binding, maxPerTx |-> perTx,
         maxDaily |-> daily, revoked |-> FALSE] \in Session
    BY NumbersAssumption, FieldsAssumption DEF Session
  <2>2. QED
    BY <2>1 DEF RegisterSession, TypeOK
<1>2. whitelists' \in [SessionIds -> [Dimensions -> SUBSET Names]]
  BY FieldsAssumption DEF RegisterSession, TypeOK
<1>3. QED
  BY <1>1, <1>2 DEF RegisterSession, TypeOK, brakes, spending, accountWindow, sessionWindow

\* Revoking and reducing keep every other field of the session.
LEMMA RevokeTyped ==
    ASSUME TypeOK, NEW caller, NEW id \in SessionIds, RevokeSession(caller, id)
    PROVE  TypeOK'
<1>1. sessions' \in [SessionIds -> Session]
  BY DEF RevokeSession, TypeOK, Session
<1>2. QED
  BY <1>1 DEF RevokeSession, TypeOK, brakes, spending, accountWindow, sessionWindow

\* The new limits are values the emergency key passes, so they fit.
LEMMA ReduceTyped ==
    ASSUME TypeOK, NEW caller, NEW id \in SessionIds, NEW perTx \in Ceilings,
           NEW daily \in Ceilings, EmergencyReduceLimit(caller, id, perTx, daily)
    PROVE  TypeOK'
<1>1. sessions' \in [SessionIds -> Session]
  BY NumbersAssumption DEF EmergencyReduceLimit, TypeOK, Session
<1>2. QED
  BY <1>1 DEF EmergencyReduceLimit, TypeOK, brakes, spending, accountWindow, sessionWindow

\* A window, rolled or not, opened no later than now and holds a uint256.
LEMMA RolledWindows ==
    ASSUME TypeOK, NEW id \in SessionIds
    PROVE  /\ RolledAccountWindow.start \in 1..MaxTime
           /\ RolledAccountWindow.spent \in 0..MaxUint
           /\ RolledSessionWindow(id).start \in 1..MaxTime
           /\ RolledSessionWindow(id).spent \in 0..MaxUint
BY NumbersAssumption DEF TypeOK, RolledAccountWindow, RolledSessionWindow, WindowOver

\* An execution stores sums that fit, and an event with its time.
LEMMA ExecuteTyped ==
    ASSUME TypeOK, NEW intent \in Intents, NEW signer, ExecuteFromAgent(intent, signer)
    PROVE  TypeOK'
<1> DEFINE id == intent.sessionId
           event == [session |-> id, nonce |-> intent.nonce, amount |-> intent.amount, at |-> now]
<1>1. /\ id \in SessionIds
      /\ intent.nonce \in 0..MaxUint
      /\ intent.amount \in 0..MaxUint
  BY NumbersAssumption DEF Intents
<1>2. /\ RolledAccountWindow.start \in 1..MaxTime
      /\ RolledAccountWindow.spent \in 0..MaxUint
      /\ RolledSessionWindow(id).start \in 1..MaxTime
      /\ RolledSessionWindow(id).spent \in 0..MaxUint
  BY <1>1, RolledWindows
<1>3. /\ RolledAccountWindow.spent + intent.amount \in 0..MaxUint
      /\ RolledSessionWindow(id).spent + intent.amount \in 0..MaxUint
  BY <1>1, <1>2, NumbersAssumption DEF ExecuteFromAgent, WithinCeilings, AccountHasRoom, AddFits
<1>4. /\ sessionLastNonce' \in [SessionIds -> 0..MaxUint]
      /\ accountWindowStart' \in 0..MaxTime
      /\ accountSpentThisWindow' \in 0..MaxUint
      /\ sessionWindowStart' \in [SessionIds -> 0..MaxTime]
      /\ sessionSpentThisWindow' \in [SessionIds -> 0..MaxUint]
  <2>1. sessionLastNonce' \in [SessionIds -> 0..MaxUint]
    BY <1>1 DEF ExecuteFromAgent, TypeOK
  <2>2. sessionSpentThisWindow' \in [SessionIds -> 0..MaxUint]
    BY <1>1, <1>3 DEF ExecuteFromAgent, TypeOK
  <2>3. /\ accountWindowStart' \in 0..MaxTime
        /\ accountSpentThisWindow' \in 0..MaxUint
    BY <1>2, <1>3, NumbersAssumption DEF ExecuteFromAgent
  <2>4. sessionWindowStart' \in [SessionIds -> 0..MaxTime]
    <3>1. RolledSessionWindow(id).start \in 0..MaxTime
      BY <1>2, NumbersAssumption
    <3>2. QED
      BY <1>1, <3>1 DEF ExecuteFromAgent, TypeOK
  <2>5. QED
    BY <2>1, <2>2, <2>3, <2>4
<1>5. executed' \in Seq(Execution)
  <2>1. event \in Execution
    BY <1>1 DEF Execution, TypeOK
  <2>2. executed' = Append(executed, event)
    BY DEF ExecuteFromAgent
  <2>3. QED
    BY <2>1, <2>2 DEF TypeOK
<1>6. QED
  BY <1>4, <1>5 DEF ExecuteFromAgent, TypeOK, brakes, registry

\* Typing is preserved by every step, on its own.
LEMMA NextTyped == TypeOK /\ [Next]_vars => TypeOK'
<1> SUFFICES ASSUME TypeOK, [Next]_vars PROVE TypeOK'
  OBVIOUS
<1>1. CASE NextBlock
  BY <1>1, NumbersAssumption
     DEF NextBlock, TypeOK, brakes, registry, spending, accountWindow, sessionWindow
<1>2. ASSUME NEW caller \in Accounts, Administer(caller) PROVE TypeOK'
  <2>1. CASE \/ Pause(caller) \/ Freeze(caller) \/ Resume(caller) \/ Unfreeze(caller)
    BY <2>1 DEF Pause, Freeze, Resume, Unfreeze, TypeOK, registry, spending, accountWindow,
                sessionWindow
  <2>2. QED
    BY <1>2, <2>1, RegisterTyped, RevokeTyped, ReduceTyped DEF Administer
<1>3. CASE Execute
  BY <1>3, ExecuteTyped DEF Execute
<1>4. CASE UNCHANGED vars
  BY <1>4 DEF vars, TypeOK, brakes, registry, spending, accountWindow, sessionWindow
<1>5. QED
  BY <1>1, <1>2, <1>3, <1>4 DEF Next

\* Every reachable state is well typed: no counter exceeds a uint256.
THEOREM TypeCorrect == Spec => []TypeOK
<1>1. QED
  BY InitTyped, NextTyped, PTL DEF Spec
-----------------------------------------------------------------------------
(* Ceiling and nonces. *)

\* No administrative call touches what is spent.
LEMMA AdministerKeepsSpending ==
    ASSUME NEW caller, Administer(caller)
    PROVE  UNCHANGED <<now, spending>>
BY DEF Administer, RegisterSession, RevokeSession, Pause, Freeze, Resume, Unfreeze,
       EmergencyReduceLimit, spending, accountWindow, sessionWindow

\* Appending keeps the earlier elements and adds one at the end.
LEMMA AppendFacts ==
    ASSUME NEW S, NEW q \in Seq(S), NEW e \in S
    PROVE  /\ DOMAIN q = 1..Len(q)
           /\ Len(q) \in Nat
           /\ DOMAIN Append(q, e) = 1..(Len(q) + 1)
           /\ \A i \in 1..Len(q) : Append(q, e)[i] = q[i] /\ q[i] \in S
           /\ Append(q, e)[Len(q) + 1] = e
           /\ Len(Append(q, e)) = Len(q) + 1
OBVIOUS

\* The event an execution emits.
Event(intent) ==
    [session |-> intent.sessionId, nonce |-> intent.nonce, amount |-> intent.amount, at |-> now]

\* An execution appends one event whose nonce is above the session's mark,
\* and makes that nonce the mark.
LEMMA ExecuteAppends ==
    ASSUME TypeOK, NEW intent \in Intents, NEW signer, ExecuteFromAgent(intent, signer)
    PROVE  /\ Event(intent) \in Execution
           /\ executed' = Append(executed, Event(intent))
           /\ intent.sessionId \in SessionIds
           /\ intent.nonce \in Nat
           /\ intent.nonce > sessionLastNonce[intent.sessionId]
           /\ sessionLastNonce' =
                    [sessionLastNonce EXCEPT ![intent.sessionId] = intent.nonce]
<1>1. /\ intent.sessionId \in SessionIds
      /\ intent.nonce \in 0..MaxUint
      /\ intent.amount \in 0..MaxUint
  BY NumbersAssumption DEF Intents
<1>2. Event(intent) \in Execution
  BY <1>1 DEF Event, Execution, TypeOK
<1>3. executed' = Append(executed, Event(intent))
  BY DEF ExecuteFromAgent, Event
<1>4. intent.nonce > sessionLastNonce[intent.sessionId]
  BY DEF ExecuteFromAgent, Authorized, NonceIsNext
<1>5. sessionLastNonce' = [sessionLastNonce EXCEPT ![intent.sessionId] = intent.nonce]
  BY DEF ExecuteFromAgent
<1>6. QED
  BY <1>1, <1>2, <1>3, <1>4, <1>5, NumbersAssumption

\* An execution keeps the marks above the executed nonces, and so the nonces
\* of a session increasing.
LEMMA ExecuteKeepsNonces ==
    ASSUME IInv, NEW intent \in Intents, NEW signer, ExecuteFromAgent(intent, signer)
    PROVE  NonceIsHighWater' /\ NonceSpentOnce'
<1> DEFINE last == Len(executed) + 1
<1>1. /\ executed \in Seq(Execution)
      /\ sessionLastNonce \in [SessionIds -> Nat]
  BY NumbersAssumption DEF IInv, TypeOK
<1>2. /\ Event(intent) \in Execution
      /\ executed' = Append(executed, Event(intent))
      /\ intent.sessionId \in SessionIds
      /\ intent.nonce \in Nat
      /\ intent.nonce > sessionLastNonce[intent.sessionId]
      /\ sessionLastNonce' = [sessionLastNonce EXCEPT ![intent.sessionId] = intent.nonce]
  BY ExecuteAppends DEF IInv
<1>3. /\ DOMAIN executed = 1..Len(executed)
      /\ Len(executed) \in Nat
      /\ DOMAIN executed' = 1..last
      /\ \A i \in 1..Len(executed) : executed'[i] = executed[i] /\ executed[i] \in Execution
      /\ executed'[last] = Event(intent)
  BY <1>1, <1>2, AppendFacts
<1>4. \A i \in 1..Len(executed) :
          /\ executed'[i] = executed[i]
          /\ executed[i].session \in SessionIds
          /\ executed[i].nonce \in Nat
          /\ executed[i].nonce <= sessionLastNonce[executed[i].session]
  BY <1>3 DEF Execution, IInv, NonceIsHighWater
<1>5. \A id \in SessionIds :
          sessionLastNonce'[id] \in Nat /\ sessionLastNonce[id] \in Nat /\ sessionLastNonce'[id] >= sessionLastNonce[id]
  BY <1>1, <1>2
<1>6. /\ executed'[last].session = intent.sessionId
      /\ executed'[last].nonce = intent.nonce
      /\ sessionLastNonce'[intent.sessionId] = intent.nonce
  BY <1>1, <1>2, <1>3 DEF Event
<1>7. NonceIsHighWater'
  <2> SUFFICES ASSUME NEW i \in DOMAIN executed'
               PROVE  executed'[i].nonce <= sessionLastNonce'[executed'[i].session]
    BY DEF NonceIsHighWater
  <2>1. CASE i = last
    BY <2>1, <1>2, <1>6
  <2>2. CASE i \in 1..Len(executed)
    BY <2>2, <1>4, <1>5
  <2>3. QED
    BY <2>1, <2>2, <1>3
<1>8. NonceSpentOnce'
  <2> SUFFICES ASSUME NEW i \in DOMAIN executed', NEW j \in DOMAIN executed', i < j,
                      executed'[i].session = executed'[j].session
               PROVE  executed'[i].nonce < executed'[j].nonce
    BY DEF NonceSpentOnce
  <2>1. i \in 1..Len(executed)
    BY <1>3
  <2>2. CASE j = last
    BY <2>1, <2>2, <1>1, <1>2, <1>4, <1>6
  <2>3. CASE j \in 1..Len(executed)
    BY <2>1, <2>3, <1>3, <1>4 DEF IInv, NonceSpentOnce
  <2>4. QED
    BY <2>2, <2>3, <1>3
<1>9. QED
  BY <1>7, <1>8

\* Every step preserves the invariant.
LEMMA NextKeepsIInv == IInv /\ [Next]_vars => IInv'
<1> SUFFICES ASSUME IInv, [Next]_vars PROVE IInv'
  OBVIOUS
<1>1. TypeOK'
  BY NextTyped DEF IInv
<1>2. ASSUME UNCHANGED spending PROVE IInv'
  BY <1>1, <1>2 DEF IInv, AccountCeilingHolds, NonceIsHighWater, NonceSpentOnce, spending,
                    accountWindow
<1>3. ASSUME NEW intent \in Intents, NEW signer, ExecuteFromAgent(intent, signer) PROVE IInv'
  <2>1. AccountCeilingHolds'
    BY <1>3 DEF ExecuteFromAgent, WithinCeilings, AccountHasRoom, AccountCeilingHolds
  <2>2. QED
    BY <1>1, <1>3, <2>1, ExecuteKeepsNonces DEF IInv
<1>4. CASE NextBlock
  BY <1>4, <1>2 DEF NextBlock
<1>5. CASE UNCHANGED vars
  BY <1>5, <1>2 DEF vars
<1>6. QED
  BY <1>2, <1>3, <1>4, <1>5, AdministerKeepsSpending DEF Next, Execute

\* The invariant holds in every reachable state.
THEOREM Invariant == Spec => []IInv
<1>1. Init => IInv
  BY InitTyped, NumbersAssumption
     DEF IInv, Init, AccountCeilingHolds, NonceIsHighWater, NonceSpentOnce
<1>2. QED
  BY <1>1, NextKeepsIInv, PTL DEF Spec

\* A signed intent moves money at most once, for any number of sessions.
THEOREM NoncesSingleUse == Spec => []NonceSpentOnce
<1>1. IInv => NonceSpentOnce
  BY DEF IInv
<1>2. QED
  BY <1>1, Invariant, PTL
-----------------------------------------------------------------------------
(* Windows.  That the counters agree with the events takes more than types: *)
(* where the events of a window end, and what was spent the day before.     *)

\* Both windows of an event contain it, or were opened since: the events of a
\* window are those since its start, and none is of now once it is over.
WindowsCover ==
    /\ accountWindowStart <= now
    /\ \A id \in SessionIds : sessionWindowStart[id] <= now
    /\ \A i \in DOMAIN executed :
           /\ executed[i].at <= now
           /\ accountWindowStart # 0 /\ executed[i].at < accountWindowStart + DAY_WINDOW
           /\ LET start == sessionWindowStart[executed[i].session] IN
              start # 0 /\ executed[i].at < start + DAY_WINDOW

\* The day before the window of the account opened belongs to one window at most.
DayBeforeWindow ==
    Total({i \in DOMAIN executed :
              executed[i].at \in (accountWindowStart - DAY_WINDOW)..(accountWindowStart - 1)})
        <= AccountMaxDaily

WInv == TypeOK /\ AccountCeilingHolds /\ CountersMatchEvents /\ TwoCeilingsInAnyDay /\ WindowsCover /\ DayBeforeWindow

\* What an execution adds to the sums over the events.
LEMMA ExecuteTotals ==
    ASSUME TypeOK, NEW intent \in Intents, NEW signer, ExecuteFromAgent(intent, signer),
           NEW n, n = Len(executed) + 1
    PROVE  /\ n \notin DOMAIN executed /\ DOMAIN executed' = DOMAIN executed \cup {n}
           /\ \A i \in DOMAIN executed : executed'[i] = executed[i] /\ executed[i] \in Execution
           /\ executed'[n] = Event(intent) /\ intent.amount \in Nat
           /\ IsFiniteSet(DOMAIN executed') /\ \A i \in DOMAIN executed' : Moved'[i] \in Nat
           /\ \A T \in SUBSET DOMAIN executed :
                  Sum(Moved', T) = Total(T) /\ Sum(Moved', T \cup {n}) = Total(T) + intent.amount
<1>1. /\ DOMAIN executed = 1..Len(executed) /\ Len(executed) \in Nat
      /\ DOMAIN executed' = 1..(Len(executed) + 1)
      /\ \A i \in 1..Len(executed) : executed'[i] = executed[i] /\ executed[i] \in Execution
      /\ executed'[Len(executed) + 1] = Event(intent)
  <2>1. executed \in Seq(Execution)
    BY DEF TypeOK
  <2>2. Event(intent) \in Execution /\ executed' = Append(executed, Event(intent))
    BY ExecuteAppends
  <2>3. QED
    BY <2>1, <2>2, AppendFacts
<1>2. n \notin DOMAIN executed /\ DOMAIN executed' = DOMAIN executed \cup {n}
  BY <1>1
<1>3. IsFiniteSet(DOMAIN executed) /\ IsFiniteSet(DOMAIN executed')
  BY <1>1, FS_Interval
<1>4. intent.amount \in Nat /\ Event(intent).amount = intent.amount
  <2>1. intent.amount \in 0..MaxUint
    BY NumbersAssumption DEF Intents
  <2>2. Event(intent).amount = intent.amount
    BY DEF Event
  <2>3. QED
    BY <2>1, <2>2, NumbersAssumption
<1>5. \A i \in DOMAIN executed : Moved'[i] = Moved[i] /\ Moved[i] \in Nat
  <2>1. \A i \in DOMAIN executed : executed[i].amount \in Nat
    BY <1>1, NumbersAssumption DEF Execution
  <2>2. QED
    BY <1>1, <1>2, <2>1 DEF Moved
<1>6. Moved'[n] = intent.amount
  BY <1>1, <1>2, <1>4 DEF Moved
<1>7. \A i \in DOMAIN executed' : Moved'[i] \in Nat
  BY <1>2, <1>4, <1>5, <1>6
<1>8. ASSUME NEW T \in SUBSET DOMAIN executed
      PROVE  Sum(Moved', T) = Total(T) /\ Sum(Moved', T \cup {n}) = Total(T) + intent.amount
  <2>1. IsFiniteSet(T)
    BY <1>3, FS_Subset
  <2>2. Sum(Moved', T) = Sum(Moved, T)
    BY <1>5, <2>1, SumSame
  <2>3. Sum(Moved', T \cup {n}) = intent.amount + Sum(Moved', T)
    <3>1. \A i \in T \cup {n} : Moved'[i] \in Int
      BY <1>4, <1>5, <1>6
    <3>2. QED
      BY <1>2, <1>6, <2>1, <3>1, SumAdd
  <2>4. Sum(Moved', T) \in Int
    BY <1>5, <2>1, SumInt
  <2>5. Sum(Moved, T) = Total(T)
    BY DEF Sum, Total
  <2>6. QED
    BY <1>4, <2>2, <2>3, <2>4, <2>5
<1>9. QED
  BY <1>1, <1>2, <1>3, <1>4, <1>7, <1>8

\* The window that an execution is charged to, and what was spent in it.
Opened(start) == IF WindowOver(start) THEN now ELSE start
SpentSince(start, spent) == IF WindowOver(start) THEN 0 ELSE spent

\* The events of a counter since a time, and those its window has after event n.
Since(events, start) == {i \in events : executed[i].at >= start}
Later(events, start, n) == {i \in events \cup {n} : executed'[i].at >= Opened(start)}

\* A counter is rolled or not, and charged: it counts its window's events.
LEMMA CounterCounts ==
    ASSUME TypeOK, NEW intent \in Intents, NEW signer, ExecuteFromAgent(intent, signer),
           NEW n, n = Len(executed) + 1,
           NEW events, events \subseteq DOMAIN executed, NEW start \in Nat, start <= now,
           \A i \in events : start # 0 /\ executed[i].at < start + DAY_WINDOW
    PROVE  Sum(Moved', Later(events, start, n)) = SpentSince(start, Total(Since(events, start))) + intent.amount
<1> USE DEF Opened, SpentSince, Since, Later
<1> DEFINE later == Later(events, start, n)
           opened == Opened(start)
           since == {i \in events : executed[i].at >= opened}
<1>1. /\ \A i \in events : i # n /\ executed'[i] = executed[i] /\ executed[i] \in Execution
      /\ executed'[n].at = now /\ intent.amount \in Nat
      /\ \A T \in SUBSET DOMAIN executed : Sum(Moved', T \cup {n}) = Total(T) + intent.amount
  <2>1. /\ n \notin DOMAIN executed /\ executed'[n] = Event(intent) /\ intent.amount \in Nat
        /\ \A i \in DOMAIN executed : executed'[i] = executed[i] /\ executed[i] \in Execution
    BY ExecuteTotals
  <2>2. \A T \in SUBSET DOMAIN executed : Sum(Moved', T \cup {n}) = Total(T) + intent.amount
    BY ExecuteTotals
  <2>3. Event(intent).at = now
    BY DEF Event
  <2>4. QED
    BY <2>1, <2>2, <2>3
<1>2. now \in Nat /\ DAY_WINDOW \in Nat \ {0} /\ \A i \in events : executed[i].at \in Nat
  BY <1>1, NumbersAssumption DEF TypeOK, Execution
<1>3. now >= opened
  BY <1>2
<1>4. later = since \cup {n}
  BY <1>1, <1>3
<1>5. Sum(Moved', later) = Total(since) + intent.amount
  BY <1>1, <1>4
<1>6. CASE WindowOver(start)
  <2>1. since = {}
    BY <1>2, <1>6 DEF WindowOver
  <2>2. Total({}) = 0
    BY SumEmpty DEF Total, Sum
  <2>3. QED
    BY <1>5, <1>6, <2>1, <2>2
<1>7. CASE ~WindowOver(start)
  BY <1>5, <1>7
<1>8. QED
  BY <1>6, <1>7

\* The day before a window opened, a day, and both after event n.
DayBefore(events, start) ==
    {i \in events : executed[i].at \in (start - DAY_WINDOW)..(start - 1)}
DayFrom(events, from) == {i \in events : executed[i].at \in from..(from + DAY_WINDOW - 1)}
LaterDayBefore(events, start, n) ==
    {i \in events \cup {n} : executed'[i].at \in (Opened(start) - DAY_WINDOW)..(Opened(start) - 1)}
LaterDay(events, from, n) == {i \in events \cup {n} : executed'[i].at \in from..(from + DAY_WINDOW - 1)}

\* The day before a window holds one limit's worth at most: it is the day
\* before the same window, or lies in the window that is over.
LEMMA DayBeforeKept ==
    ASSUME TypeOK, NEW intent \in Intents, NEW signer, ExecuteFromAgent(intent, signer),
           NEW n, n = Len(executed) + 1, NEW limit \in Nat,
           NEW events, events \subseteq DOMAIN executed, NEW start \in Nat, start <= now,
           \A i \in events : start # 0 /\ executed[i].at < start + DAY_WINDOW,
           Total(DayBefore(events, start)) <= limit, Total(Since(events, start)) <= limit
    PROVE  Sum(Moved', LaterDayBefore(events, start, n)) <= limit
<1> DEFINE past == DayBefore(events, start)
           since == Since(events, start)
           next == LaterDayBefore(events, start, n)
<1>1. /\ \A i \in events : i # n /\ executed'[i] = executed[i] /\ executed[i] \in Execution
      /\ executed'[n].at = now /\ DOMAIN executed' = DOMAIN executed \cup {n}
      /\ IsFiniteSet(DOMAIN executed') /\ \A i \in DOMAIN executed' : Moved'[i] \in Nat
      /\ \A T \in SUBSET DOMAIN executed : Sum(Moved', T) = Total(T)
  <2>1. /\ n \notin DOMAIN executed /\ executed'[n] = Event(intent)
        /\ \A i \in DOMAIN executed : executed'[i] = executed[i] /\ executed[i] \in Execution
        /\ DOMAIN executed' = DOMAIN executed \cup {n}
        /\ IsFiniteSet(DOMAIN executed') /\ \A i \in DOMAIN executed' : Moved'[i] \in Nat
    BY ExecuteTotals
  <2>2. \A T \in SUBSET DOMAIN executed : Sum(Moved', T) = Total(T)
    BY ExecuteTotals
  <2>3. Event(intent).at = now
    BY DEF Event
  <2>4. QED
    BY <2>1, <2>2, <2>3
<1>2. now \in Nat /\ DAY_WINDOW \in Nat \ {0} /\ \A i \in events : executed[i].at \in Nat
  BY <1>1, NumbersAssumption DEF TypeOK, Execution
<1>3. CASE WindowOver(start)
  <2>1. next \subseteq since
    <3> SUFFICES ASSUME NEW i \in next PROVE i \in since
      OBVIOUS
    <3>1. i # n
      BY <1>1, <1>2, <1>3 DEF LaterDayBefore, Opened
    <3>2. i \in events /\ executed[i].at >= now - DAY_WINDOW
      BY <1>1, <1>2, <1>3, <3>1 DEF LaterDayBefore, Opened
    <3>3. QED
      BY <1>2, <1>3, <3>2 DEF WindowOver, Since
  <2>2. since \subseteq DOMAIN executed
    BY DEF Since
  <2> HIDE DEF next, since
  <2>3. Sum(Moved', since) = Total(since)
    BY <1>1, <2>2
  <2>4. Sum(Moved', next) \in Nat /\ Sum(Moved', next) <= Sum(Moved', since)
    <3>1. IsFiniteSet(since) /\ \A i \in since : Moved'[i] \in Nat
      BY <1>1, <2>2, FS_Subset
    <3>2. QED
      BY <2>1, <3>1, SumPart
  <2>5. Sum(Moved', since) \in Nat
    <3>1. since \in SUBSET DOMAIN executed'
      BY <1>1, <2>2
    <3>2. QED
      BY <1>1, <3>1, SumPart
  <2>6. QED
    BY <2>3, <2>4, <2>5 DEF next, since
<1>4. CASE ~WindowOver(start)
  <2>1. next = past
    BY <1>1, <1>2, <1>4 DEF LaterDayBefore, Opened, DayBefore
  <2>2. past \subseteq DOMAIN executed
    BY DEF DayBefore
  <2> HIDE DEF next, past
  <2>3. Sum(Moved', past) = Total(past)
    BY <1>1, <2>2
  <2>4. QED
    BY <2>1, <2>3 DEF next, past
<1>5. QED
  BY <1>3, <1>4

\* No day holds more than two limits' worth: one with the new event touches
\* the window it is in and the day before that, and no other.
LEMMA DayKept ==
    ASSUME TypeOK, NEW intent \in Intents, NEW signer, ExecuteFromAgent(intent, signer),
           NEW n, n = Len(executed) + 1, NEW limit \in Nat,
           NEW events, events \subseteq DOMAIN executed, NEW start \in Nat, start <= now,
           NEW from \in 1..now, Total(DayFrom(events, from)) <= 2 * limit,
           Sum(Moved', LaterDayBefore(events, start, n)) <= limit,
           Sum(Moved', Later(events, start, n)) <= limit
    PROVE  Sum(Moved', LaterDay(events, from, n)) <= 2 * limit
<1> DEFINE w == Opened(start)
           past == LaterDayBefore(events, start, n)
           since == Later(events, start, n)
           day == LaterDay(events, from, n)
           old == DayFrom(events, from)
           all == past \cup since
<1>1. /\ \A i \in events : i # n /\ executed'[i] = executed[i] /\ executed[i] \in Execution
      /\ executed'[n].at = now /\ DOMAIN executed' = DOMAIN executed \cup {n}
      /\ IsFiniteSet(DOMAIN executed') /\ \A i \in DOMAIN executed' : Moved'[i] \in Nat
      /\ \A T \in SUBSET DOMAIN executed : Sum(Moved', T) = Total(T)
  <2>1. /\ n \notin DOMAIN executed /\ executed'[n] = Event(intent)
        /\ \A i \in DOMAIN executed : executed'[i] = executed[i] /\ executed[i] \in Execution
        /\ DOMAIN executed' = DOMAIN executed \cup {n}
        /\ IsFiniteSet(DOMAIN executed') /\ \A i \in DOMAIN executed' : Moved'[i] \in Nat
    BY ExecuteTotals
  <2>2. \A T \in SUBSET DOMAIN executed : Sum(Moved', T) = Total(T)
    BY ExecuteTotals
  <2>3. Event(intent).at = now
    BY DEF Event
  <2>4. QED
    BY <2>1, <2>2, <2>3
<1>2. now \in Nat /\ DAY_WINDOW \in Nat \ {0} /\ \A i \in events : executed[i].at \in Nat
  <2>1. now \in Nat /\ DAY_WINDOW \in Nat \ {0}
    BY NumbersAssumption DEF TypeOK
  <2>2. \A i \in events : executed[i].at \in Nat
    BY <1>1, NumbersAssumption DEF Execution
  <2>3. QED
    BY <2>1, <2>2
<1>3. CASE n \notin day
  <2>1. day = old
    BY <1>1, <1>3 DEF LaterDay, DayFrom
  <2>2. old \subseteq DOMAIN executed
    BY DEF DayFrom
  <2> HIDE DEF day, old
  <2>3. Sum(Moved', old) = Total(old)
    BY <1>1, <2>2
  <2>4. QED
    BY <2>1, <2>3 DEF day, old
<1>4. CASE n \in day
  <2>1. w \in Nat /\ w <= now /\ now < w + DAY_WINDOW
    BY <1>2 DEF Opened, WindowOver
  <2>2. now <= from + DAY_WINDOW - 1
    BY <1>1, <1>2, <1>4 DEF LaterDay
  <2>3. \A i \in events \cup {n} : executed'[i].at \in Nat
    BY <1>1, <1>2
  <2>4. day \subseteq all
    BY <1>2, <2>1, <2>2, <2>3 DEF LaterDay, LaterDayBefore, Later
  <2>5. all \subseteq DOMAIN executed' /\ past \subseteq all /\ all \ past \subseteq since
    BY <1>1 DEF LaterDayBefore, Later
  <2>6. since \subseteq DOMAIN executed'
    BY <1>1 DEF Later
  <2> HIDE DEF past, since, day, all
  <2>7. IsFiniteSet(all) /\ IsFiniteSet(since) /\ \A i \in all : Moved'[i] \in Nat
    BY <1>1, <2>5, <2>6, FS_Subset
  <2>8. Sum(Moved', day) <= Sum(Moved', all) /\ Sum(Moved', day) \in Nat
    BY <2>4, <2>7, SumPart
  <2>9. Sum(Moved', all) = Sum(Moved', past) + Sum(Moved', all \ past) /\ Sum(Moved', past) \in Int
    <3>1. \A i \in all : Moved'[i] \in Int
      BY <2>7
    <3>2. past \in SUBSET all /\ IsFiniteSet(all)
      BY <2>5, <2>7
    <3>3. QED
      BY <3>1, <3>2, SumSplit
  <2>10. Sum(Moved', all \ past) <= Sum(Moved', since) /\ Sum(Moved', all \ past) \in Nat
    BY <1>1, <2>5, <2>6, <2>7, SumPart
  <2>11. Sum(Moved', since) \in Nat
    BY <1>1, <2>6, SumPart
  <2>12. Sum(Moved', past) <= limit /\ Sum(Moved', since) <= limit
    BY DEF past, since
  <2>13. Sum(Moved', day) <= 2 * limit
    BY <2>8, <2>9, <2>10, <2>11, <2>12
  <2>14. QED
    BY <2>13 DEF day
<1>5. QED
  BY <1>3, <1>4

\* An execution keeps the windows faithful.
LEMMA ExecuteKeepsWindows ==
    ASSUME WInv, NEW intent \in Intents, NEW signer, ExecuteFromAgent(intent, signer)
    PROVE  WInv'
<1> DEFINE id == intent.sessionId
           n == Len(executed) + 1
           before == DOMAIN executed
<1>1. TypeOK' /\ AccountCeilingHolds'
  BY ExecuteTyped DEF WInv, ExecuteFromAgent, WithinCeilings, AccountHasRoom, AccountCeilingHolds
<1>2. TypeOK /\ TypeOK'
  BY <1>1 DEF WInv
<1>3. /\ n \notin before /\ DOMAIN executed' = before \cup {n}
      /\ \A i \in before : executed'[i] = executed[i] /\ executed[i] \in Execution
      /\ executed'[n].at = now /\ executed'[n].session = id /\ intent.amount \in Nat
      /\ IsFiniteSet(DOMAIN executed') /\ \A i \in DOMAIN executed' : Moved'[i] \in Nat
  <2>1. /\ n \notin before /\ DOMAIN executed' = before \cup {n}
        /\ \A i \in before : executed'[i] = executed[i] /\ executed[i] \in Execution
        /\ executed'[n] = Event(intent) /\ intent.amount \in Nat
        /\ IsFiniteSet(DOMAIN executed') /\ \A i \in DOMAIN executed' : Moved'[i] \in Nat
    BY <1>2, ExecuteTotals
  <2>2. QED
    BY <2>1 DEF Event
<1>4. /\ \A T \in SUBSET before : Sum(Moved', T) = Total(T) /\ Sum(Moved', T \cup {n}) = Total(T) + intent.amount
  BY <1>2, ExecuteTotals
<1>5. /\ now \in Nat \ {0} /\ DAY_WINDOW \in Nat \ {0} /\ AccountMaxDaily \in Nat /\ id \in SessionIds
      /\ accountWindowStart \in Nat /\ accountSpentThisWindow \in Nat
      /\ \A s \in SessionIds : sessionWindowStart[s] \in Nat /\ sessionSpentThisWindow[s] \in Nat
      /\ \A i \in before : executed[i].at \in Nat /\ executed[i].session \in SessionIds
  <2>1. /\ now \in Nat \ {0} /\ DAY_WINDOW \in Nat \ {0} /\ AccountMaxDaily \in Nat /\ id \in SessionIds
    BY <1>2, NumbersAssumption DEF TypeOK, Intents
  <2>2. accountWindowStart \in Nat /\ accountSpentThisWindow \in Nat
    BY <1>2, NumbersAssumption DEF TypeOK
  <2>3. \A s \in SessionIds : sessionWindowStart[s] \in Nat /\ sessionSpentThisWindow[s] \in Nat
    BY <1>2, NumbersAssumption DEF TypeOK
  <2>4. \A i \in before : executed[i].at \in Nat /\ executed[i].session \in SessionIds
    BY <1>3, NumbersAssumption DEF Execution
  <2>5. QED
    BY <2>1, <2>2, <2>3, <2>4
<1>6. /\ accountWindowStart' = Opened(accountWindowStart)
      /\ accountSpentThisWindow' = SpentSince(accountWindowStart, accountSpentThisWindow) + intent.amount
      /\ now' = now
  BY DEF ExecuteFromAgent, RolledAccountWindow, Opened, SpentSince
<1> DEFINE opened == Opened(sessionWindowStart[id])
           charged == SpentSince(sessionWindowStart[id], sessionSpentThisWindow[id]) + intent.amount
<1>7. /\ sessionWindowStart' = [sessionWindowStart EXCEPT ![id] = opened]
      /\ sessionSpentThisWindow' = [sessionSpentThisWindow EXCEPT ![id] = charged]
  BY DEF ExecuteFromAgent, RolledSessionWindow, Opened, SpentSince
<1>8. /\ sessionWindowStart'[id] = opened /\ sessionSpentThisWindow'[id] = charged
      /\ \A s \in SessionIds \ {id} :
             sessionWindowStart'[s] = sessionWindowStart[s] /\ sessionSpentThisWindow'[s] = sessionSpentThisWindow[s]
  BY <1>2, <1>5, <1>7 DEF TypeOK
<1>9. WindowsCover
  BY DEF WInv
<1>10. CountersMatchEvents
  BY DEF WInv
<1>11. \A i \in before : i # n
  BY <1>3
<1> HIDE DEF n, before, opened, charged
<1>12. WindowsCover'
  <2>1. accountWindowStart' <= now' /\ \A s \in SessionIds : sessionWindowStart'[s] <= now'
    BY <1>5, <1>6, <1>8, <1>9 DEF WindowsCover, opened, Opened
  <2>2. ASSUME NEW i \in before
        PROVE  /\ executed'[i].at <= now'
               /\ accountWindowStart' # 0 /\ executed'[i].at < accountWindowStart' + DAY_WINDOW
               /\ sessionWindowStart'[executed'[i].session] # 0
               /\ executed'[i].at < sessionWindowStart'[executed'[i].session] + DAY_WINDOW
    <3>1. /\ executed[i].at <= now /\ executed[i].at \in Nat /\ executed[i].session \in SessionIds
          /\ accountWindowStart # 0 /\ executed[i].at < accountWindowStart + DAY_WINDOW
          /\ sessionWindowStart[executed[i].session] # 0
          /\ executed[i].at < sessionWindowStart[executed[i].session] + DAY_WINDOW
      BY <1>5, <1>9 DEF WindowsCover, before
    <3>2. accountWindowStart' # 0 /\ executed[i].at < accountWindowStart' + DAY_WINDOW
      BY <1>5, <1>6, <3>1 DEF Opened
    <3>3. /\ sessionWindowStart'[executed[i].session] # 0
          /\ executed[i].at < sessionWindowStart'[executed[i].session] + DAY_WINDOW
      BY <1>5, <1>8, <3>1 DEF opened, Opened
    <3>4. QED
      BY <1>3, <1>6, <3>1, <3>2, <3>3
  <2>3. /\ accountWindowStart' # 0 /\ now < accountWindowStart' + DAY_WINDOW
        /\ sessionWindowStart'[id] # 0 /\ now < sessionWindowStart'[id] + DAY_WINDOW
    BY <1>5, <1>6, <1>8 DEF WindowOver, opened, Opened
  <2>4. QED
    BY <1>3, <1>5, <1>6, <2>1, <2>2, <2>3 DEF WindowsCover
<1>13. accountSpentThisWindow' = Sum(Moved', {i \in DOMAIN executed' : executed'[i].at >= accountWindowStart'})
  <2>1. accountSpentThisWindow = Total(Since(before, accountWindowStart))
    BY <1>10 DEF CountersMatchEvents, before, Since
  <2>2. \A i \in before : accountWindowStart # 0 /\ executed[i].at < accountWindowStart + DAY_WINDOW
    BY <1>9 DEF WindowsCover, before
  <2>3. before \subseteq DOMAIN executed /\ accountWindowStart <= now /\ n = Len(executed) + 1
    BY <1>9 DEF WindowsCover, before, n
  <2>4. Sum(Moved', Later(before, accountWindowStart, n))
            = SpentSince(accountWindowStart, Total(Since(before, accountWindowStart))) + intent.amount
    BY <1>2, <1>5, <2>2, <2>3, CounterCounts
  <2>5. Later(before, accountWindowStart, n) = {i \in DOMAIN executed' : executed'[i].at >= accountWindowStart'}
    BY <1>3, <1>6 DEF Later
  <2>6. QED
    BY <1>6, <2>1, <2>4, <2>5
<1>14. ASSUME NEW s \in SessionIds
       PROVE  sessionSpentThisWindow'[s] = Sum(Moved', {i \in DOMAIN executed' :
                  executed'[i].session = s /\ executed'[i].at >= sessionWindowStart'[s]})
  <2> DEFINE events == {i \in before : executed[i].session = s}
             old == {i \in before : executed[i].session = s /\ executed[i].at >= sessionWindowStart[s]}
             new == {i \in DOMAIN executed' : executed'[i].session = s /\ executed'[i].at >= sessionWindowStart'[s]}
  <2>1. sessionSpentThisWindow[s] = Total(old)
    BY <1>10 DEF CountersMatchEvents, before
  <2>2. CASE s # id
    <3>1. new = old
      BY <1>3, <1>8, <2>2
    <3>2. old \in SUBSET before
      OBVIOUS
    <3>3. QED
      BY <1>4, <1>8, <2>1, <2>2, <3>1, <3>2
  <2>3. CASE s = id
    <3>1. old = Since(events, sessionWindowStart[id])
      BY <2>3 DEF Since
    <3>2. \A i \in events : sessionWindowStart[id] # 0 /\ executed[i].at < sessionWindowStart[id] + DAY_WINDOW
      BY <1>9, <2>3 DEF WindowsCover, before
    <3>3. events \subseteq DOMAIN executed /\ sessionWindowStart[id] <= now /\ n = Len(executed) + 1
      BY <1>5, <1>9 DEF WindowsCover, before, n
    <3>4. new = Later(events, sessionWindowStart[id], n)
      BY <1>3, <1>8, <2>3 DEF opened, Later
    <3>5. sessionWindowStart[id] \in Nat /\ sessionSpentThisWindow[id] = Total(old)
      BY <1>5, <2>1, <2>3
    <3> HIDE DEF events, new, old
    <3>6. Sum(Moved', Later(events, sessionWindowStart[id], n))
              = SpentSince(sessionWindowStart[id], Total(Since(events, sessionWindowStart[id]))) + intent.amount
      BY <1>2, <3>2, <3>3, <3>5, CounterCounts
    <3>7. QED
      BY <1>8, <2>3, <3>1, <3>4, <3>5, <3>6 DEF new, charged
  <2>4. QED
    BY <2>2, <2>3
<1>15. CountersMatchEvents'
  BY <1>13, <1>14 DEF CountersMatchEvents, Total, Sum
<1>16. before \subseteq DOMAIN executed /\ n = Len(executed) + 1 /\ accountWindowStart <= now
       /\ \A i \in before : accountWindowStart # 0 /\ executed[i].at < accountWindowStart + DAY_WINDOW
  BY <1>9 DEF WindowsCover, before, n
<1>17. DayBeforeWindow'
  <2>1. /\ Total(DayBefore(before, accountWindowStart)) <= AccountMaxDaily
        /\ Total(Since(before, accountWindowStart)) <= AccountMaxDaily
    BY <1>10 DEF WInv, DayBeforeWindow, CountersMatchEvents, AccountCeilingHolds, before, DayBefore, Since
  <2>2. Sum(Moved', LaterDayBefore(before, accountWindowStart, n)) <= AccountMaxDaily
    BY <1>2, <1>5, <1>16, <2>1, DayBeforeKept
  <2>3. QED
    BY <1>3, <1>6, <2>2 DEF DayBeforeWindow, Total, Sum, LaterDayBefore
<1>18. TwoCeilingsInAnyDay'
  <2> SUFFICES ASSUME NEW from \in 1..now
               PROVE  Sum(Moved', {i \in DOMAIN executed' : executed'[i].at \in from..(from + DAY_WINDOW - 1)})
                          <= 2 * AccountMaxDaily
    BY <1>6 DEF TwoCeilingsInAnyDay, Total, Sum
  <2>1. Total(DayFrom(before, from)) <= 2 * AccountMaxDaily
    BY DEF WInv, TwoCeilingsInAnyDay, before, DayFrom
  <2>2. Sum(Moved', LaterDayBefore(before, accountWindowStart, n)) <= AccountMaxDaily
    BY <1>3, <1>6, <1>17 DEF DayBeforeWindow, Total, Sum, LaterDayBefore
  <2>3. Sum(Moved', Later(before, accountWindowStart, n)) <= AccountMaxDaily
    BY <1>1, <1>3, <1>6, <1>13 DEF AccountCeilingHolds, Later
  <2>4. Sum(Moved', LaterDay(before, from, n)) <= 2 * AccountMaxDaily
    BY <1>2, <1>5, <1>16, <2>1, <2>2, <2>3, DayKept
  <2>5. QED
    BY <1>3, <2>4 DEF LaterDay
<1>19. QED
  BY <1>1, <1>2, <1>12, <1>15, <1>17, <1>18 DEF WInv

\* Other steps execute nothing; a block makes one more day to look at.
LEMMA NextKeepsWindows == WInv /\ [Next]_vars => WInv'
<1> SUFFICES ASSUME WInv, [Next]_vars PROVE WInv'
  OBVIOUS
<1>1. TypeOK'
  BY NextTyped DEF WInv
<1>2. CASE UNCHANGED <<now, spending>>
  BY <1>1, <1>2 DEF WInv, AccountCeilingHolds, CountersMatchEvents, TwoCeilingsInAnyDay, WindowsCover,
                    DayBeforeWindow, Total, Moved, spending, accountWindow, sessionWindow
<1>3. ASSUME NEW intent \in Intents, NEW signer, ExecuteFromAgent(intent, signer) PROVE WInv'
  BY <1>3, ExecuteKeepsWindows
<1>4. CASE NextBlock
  <2>1. now \in Nat /\ now' = now + 1 /\ DAY_WINDOW \in Nat \ {0} /\ AccountMaxDaily \in Nat
    BY <1>4, NumbersAssumption DEF NextBlock, WInv, TypeOK
  <2>2. UNCHANGED <<accountSpentThisWindow, accountWindowStart, sessionSpentThisWindow, sessionWindowStart, executed>>
    BY <1>4 DEF NextBlock, spending, accountWindow, sessionWindow
  <2>3. AccountCeilingHolds' /\ CountersMatchEvents' /\ DayBeforeWindow'
    BY <2>2 DEF WInv, AccountCeilingHolds, CountersMatchEvents, DayBeforeWindow, Total, Moved
  <2>4. \A i \in DOMAIN executed : executed[i].at \in Nat /\ executed[i].at <= now
    <3>1. \A i \in DOMAIN executed : executed[i] \in Execution
      BY DEF WInv, TypeOK
    <3>2. QED
      BY <3>1, NumbersAssumption DEF Execution, WInv, WindowsCover
  <2>5. WindowsCover'
    <3>1. accountWindowStart \in Nat /\ \A id \in SessionIds : sessionWindowStart[id] \in Nat
      BY NumbersAssumption DEF WInv, TypeOK
    <3>2. accountWindowStart <= now' /\ \A id \in SessionIds : sessionWindowStart[id] <= now'
      BY <2>1, <3>1 DEF WInv, WindowsCover
    <3>3. \A i \in DOMAIN executed : executed[i].at <= now'
      BY <2>1, <2>4
    <3>4. QED
      BY <2>2, <3>2, <3>3 DEF WInv, WindowsCover
  <2>6. TwoCeilingsInAnyDay'
    <3> SUFFICES ASSUME NEW from \in 1..(now + 1)
                 PROVE  Total({i \in DOMAIN executed : executed[i].at \in from..(from + DAY_WINDOW - 1)})
                            <= 2 * AccountMaxDaily
      BY <2>1, <2>2 DEF TwoCeilingsInAnyDay, Total, Moved
    <3>1. CASE from \in 1..now
      BY <3>1 DEF WInv, TwoCeilingsInAnyDay
    <3>2. CASE from = now + 1
      <4>1. {i \in DOMAIN executed : executed[i].at \in from..(from + DAY_WINDOW - 1)} = {}
        BY <2>1, <2>4, <3>2
      <4>2. Total({}) = 0
        BY SumEmpty DEF Total, Sum
      <4>3. QED
        BY <2>1, <4>1, <4>2
    <3>3. QED
      BY <2>1, <3>1, <3>2
  <2>7. QED
    BY <1>1, <2>3, <2>5, <2>6 DEF WInv
<1>5. CASE UNCHANGED vars
  BY <1>2, <1>5 DEF vars
<1>6. QED
  BY <1>2, <1>3, <1>4, <1>5, AdministerKeepsSpending DEF Next, Execute

\* The invariant of the windows holds in every reachable state.
THEOREM WindowInvariant == Spec => []WInv
<1>1. ASSUME Init PROVE WInv
  <2>1. TypeOK
    BY <1>1, InitTyped
  <2>2. executed = <<>> /\ DOMAIN executed = {}
    BY <1>1 DEF Init
  <2>3. Total({}) = 0
    BY SumEmpty DEF Total, Sum
  <2>4. AccountMaxDaily \in Nat /\ AccountMaxDaily >= 0 /\ 2 * AccountMaxDaily >= 0
    BY NumbersAssumption
  <2>5. CountersMatchEvents
    BY <1>1, <2>2, <2>3 DEF Init, CountersMatchEvents
  <2>6. AccountCeilingHolds /\ WindowsCover
    BY <1>1, <2>2, <2>4 DEF Init, AccountCeilingHolds, WindowsCover
  <2>7. DayBeforeWindow
    BY <2>2, <2>3, <2>4 DEF DayBeforeWindow
  <2>8. TwoCeilingsInAnyDay
    BY <2>2, <2>3, <2>4 DEF TwoCeilingsInAnyDay
  <2>9. QED
    BY <2>1, <2>5, <2>6, <2>7, <2>8 DEF WInv
<1>2. Init => WInv
  BY <1>1
<1>3. QED
  BY <1>2, NextKeepsWindows, PTL DEF Spec

\* The counters that _rollWindow and _rollAccountWindow keep are the sums of
\* what was executed in their windows, and any period as long as a window sees
\* at most two ceilings, for every ceiling, amount and number of sessions.
THEOREM WindowsFaithful == Spec => []WindowsAreFaithful
<1>1. WInv => WindowsAreFaithful
  BY DEF WInv, WindowsAreFaithful
<1>2. QED
  BY <1>1, WindowInvariant, PTL
-----------------------------------------------------------------------------
(* A session's limit that is set, or reduced in the middle of a window: the   *)
(* behaviours are those of the contract, with one history variable.            *)

VARIABLE limitedFrom  \* session -> how many executions there were when its daily limit was last set

limitVars == <<vars, limitedFrom>>

LimitInit == Init /\ limitedFrom = [id \in SessionIds |-> 0]

NoteLimits ==
    limitedFrom' = [id \in SessionIds |->
        IF sessions'[id].maxDaily = sessions[id].maxDaily THEN limitedFrom[id] ELSE Len(executed)]

LimitNext == Next /\ NoteLimits

LimitSpec == LimitInit /\ [][LimitNext]_limitVars

\* What a session executed under the limit it has now.
UnderLimit(id) == {i \in Executions(id) : i > limitedFrom[id]}

\* From the moment a daily limit is set, by a registration or by an emergency
\* reduction in the middle of a window, the session moves at most twice that
\* limit in any 24 hours: what it had moved before does not widen it, and no
\* window that rolls brings the old limit back (emergencyReduceLimit,
\* _rollWindow and step 6 of executeFromAgent).  A limit of 0 is none.
LimitBindsOnceSet ==
    \A id \in SessionIds : sessions[id].maxDaily > 0 =>
        \A from \in 1..now :
            Total({i \in UnderLimit(id) : executed[i].at \in from..(from + DAY_WINDOW - 1)})
                <= 2 * sessions[id].maxDaily

\* The window the session is in and the day before it each hold one limit's
\* worth, counting what was executed under that limit.
LimitedWindows ==
    \A id \in SessionIds : sessions[id].maxDaily > 0 =>
        /\ Total(Since(UnderLimit(id), sessionWindowStart[id])) <= sessions[id].maxDaily
        /\ Total(DayBefore(UnderLimit(id), sessionWindowStart[id])) <= sessions[id].maxDaily

LInv ==
    /\ limitedFrom \in [SessionIds -> Nat] /\ \A id \in SessionIds : limitedFrom[id] <= Len(executed)
    /\ LimitedWindows
    /\ LimitBindsOnceSet

\* An execution keeps a session within the limit it has.
LEMMA ExecuteKeepsLimit ==
    ASSUME WInv, WInv', LInv, NEW intent \in Intents, NEW signer, ExecuteFromAgent(intent, signer),
           NoteLimits
    PROVE  LInv'
<1> DEFINE n == Len(executed) + 1
<1>1. /\ TypeOK /\ n \notin DOMAIN executed /\ DOMAIN executed' = DOMAIN executed \cup {n}
      /\ \A i \in DOMAIN executed : executed'[i] = executed[i]
      /\ executed'[n] = Event(intent) /\ intent.sessionId \in SessionIds
      /\ IsFiniteSet(DOMAIN executed') /\ \A i \in DOMAIN executed' : Moved'[i] \in Nat
      /\ \A T \in SUBSET DOMAIN executed : Sum(Moved', T) = Total(T)
  <2>1. TypeOK /\ intent.sessionId \in SessionIds
    BY DEF WInv, Intents
  <2>2. /\ n \notin DOMAIN executed /\ DOMAIN executed' = DOMAIN executed \cup {n}
        /\ \A i \in DOMAIN executed : executed'[i] = executed[i]
        /\ executed'[n] = Event(intent)
        /\ IsFiniteSet(DOMAIN executed') /\ \A i \in DOMAIN executed' : Moved'[i] \in Nat
    BY <2>1, ExecuteTotals
  <2>3. \A T \in SUBSET DOMAIN executed : Sum(Moved', T) = Total(T)
    BY <2>1, ExecuteTotals
  <2>4. QED
    BY <2>1, <2>2, <2>3
<1>2. /\ DOMAIN executed = 1..Len(executed) /\ Len(executed) \in Nat /\ Len(executed') = n
      /\ Event(intent).session = intent.sessionId
  <2>1. executed \in Seq(Execution) /\ Event(intent) \in Execution
        /\ executed' = Append(executed, Event(intent))
    BY <1>1, ExecuteAppends DEF TypeOK
  <2>2. QED
    BY <2>1, AppendFacts DEF Event
<1>3. now' = now /\ sessions' = sessions /\ limitedFrom' = limitedFrom
  <2>1. now' = now /\ sessions' = sessions
    BY DEF ExecuteFromAgent, registry
  <2>2. QED
    BY <2>1 DEF NoteLimits, LInv
<1> HIDE DEF n
<1>4. \A id \in SessionIds : limitedFrom'[id] <= Len(executed') /\ limitedFrom'[id] < n /\ n \in Nat
  BY <1>2, <1>3 DEF LInv, n
<1>5. ASSUME NEW id \in SessionIds, sessions'[id].maxDaily > 0
      PROVE  /\ Sum(Moved', {i \in UnderLimit(id)' : executed'[i].at >= sessionWindowStart'[id]})
                    <= sessions'[id].maxDaily
             /\ Sum(Moved', {i \in UnderLimit(id)' : executed'[i].at
                                  \in (sessionWindowStart'[id] - DAY_WINDOW)..(sessionWindowStart'[id] - 1)})
                    <= sessions'[id].maxDaily
             /\ \A from \in 1..now : Sum(Moved', {i \in UnderLimit(id)' :
                                            executed'[i].at \in from..(from + DAY_WINDOW - 1)})
                    <= 2 * sessions'[id].maxDaily
  <2> DEFINE start == sessionWindowStart[id]
             limit == sessions[id].maxDaily
             events == UnderLimit(id)
             daysBefore(from) == DayFrom(events, from)
  <2>1. /\ Total(Since(events, start)) <= limit
        /\ Total(DayBefore(events, start)) <= limit
        /\ \A from \in 1..now : Total(DayFrom(events, from)) <= 2 * limit
    <3>1. limit > 0
      BY <1>3, <1>5
    <3>2. \A from \in 1..now : Total(DayFrom(events, from)) <= 2 * limit
      BY <3>1 DEF LInv, LimitBindsOnceSet, DayFrom
    <3>3. /\ Total(Since(events, start)) <= limit
          /\ Total(DayBefore(events, start)) <= limit
      BY <3>1 DEF LInv, LimitedWindows
    <3>4. QED
      BY <3>2, <3>3
  <2>2. limit \in Nat /\ start \in Nat /\ start <= now
    <3>1. sessions[id].maxDaily \in 0..MaxUint /\ sessionWindowStart[id] \in 0..MaxTime
      BY <1>1 DEF TypeOK, Session
    <3>2. start <= now
      BY DEF WInv, WindowsCover
    <3>3. QED
      BY <3>1, <3>2, NumbersAssumption
  <2>3. /\ events \subseteq DOMAIN executed
        /\ \A i \in events : start # 0 /\ executed[i].at < start + DAY_WINDOW
    <3>1. \A i \in events : i \in DOMAIN executed /\ executed[i].session = id
      BY DEF UnderLimit, Executions
    <3>2. QED
      BY <3>1 DEF WInv, WindowsCover
  <2>4. CASE id # intent.sessionId
    <3>1. sessionWindowStart'[id] = start /\ UnderLimit(id)' = events
      <4>1. sessionWindowStart'[id] = start
        BY <1>1, <2>4 DEF ExecuteFromAgent, TypeOK
      <4>2. UnderLimit(id)' = {i \in DOMAIN executed' : executed'[i].session = id /\ i > limitedFrom'[id]}
        BY DEF UnderLimit, Executions
      <4>3. events = {i \in DOMAIN executed : executed[i].session = id /\ i > limitedFrom[id]}
        BY DEF UnderLimit, Executions
      <4>4. QED
        BY <1>1, <1>2, <1>3, <2>4, <4>1, <4>2, <4>3
    <3>2. /\ {i \in events : executed'[i].at >= start} = Since(events, start)
          /\ {i \in events : executed'[i].at \in (start - DAY_WINDOW)..(start - 1)}
                = DayBefore(events, start)
          /\ \A from \in 1..now : {i \in events : executed'[i].at \in from..(from + DAY_WINDOW - 1)}
                = DayFrom(events, from)
      BY <1>1, <2>3 DEF Since, DayBefore, DayFrom
    <3>3. /\ Since(events, start) \subseteq DOMAIN executed
          /\ DayBefore(events, start) \subseteq DOMAIN executed
          /\ \A from \in 1..now : DayFrom(events, from) \subseteq DOMAIN executed
      BY <2>3 DEF Since, DayBefore, DayFrom
    <3> HIDE DEF events, start, limit
    <3>4. /\ Sum(Moved', Since(events, start)) <= limit
          /\ Sum(Moved', DayBefore(events, start)) <= limit
          /\ \A from \in 1..now : Sum(Moved', DayFrom(events, from)) <= 2 * limit
      BY <1>1, <2>1, <3>3
    <3>5. sessions'[id].maxDaily = limit
      BY <1>3 DEF limit
    <3>6. \A from \in 1..now : Sum(Moved', {i \in UnderLimit(id)' :
                executed'[i].at \in from..(from + DAY_WINDOW - 1)}) <= 2 * sessions'[id].maxDaily
      BY <3>1, <3>2, <3>4, <3>5
    <3>7. QED
      BY <3>1, <3>2, <3>4, <3>5, <3>6
  <2>5. CASE id = intent.sessionId
    <3>1. sessionWindowStart'[id] = Opened(start)
      BY <1>1, <2>5 DEF ExecuteFromAgent, RolledSessionWindow, Opened, TypeOK
    <3>2. UnderLimit(id)' = events \cup {n}
      <4>1. UnderLimit(id)' = {i \in DOMAIN executed' : executed'[i].session = id /\ i > limitedFrom'[id]}
        BY DEF UnderLimit, Executions
      <4>2. events = {i \in DOMAIN executed : executed[i].session = id /\ i > limitedFrom[id]}
        BY DEF UnderLimit, Executions
      <4>3. n > limitedFrom'[id]
        BY <1>3, <1>4 DEF LInv
      <4>4. QED
        BY <1>1, <1>2, <1>3, <2>5, <4>1, <4>2, <4>3
    <3>3. Sum(Moved', Later(events, start, n)) <= limit
      <4> DEFINE window == {i \in DOMAIN executed' :
                    executed'[i].session = id /\ executed'[i].at >= sessionWindowStart'[id]}
                 later == Later(events, start, n)
      <4>1. sessionSpentThisWindow'[id] = Sum(Moved', window)
        BY DEF WInv, CountersMatchEvents, Total, Sum
      <4>2. sessionSpentThisWindow'[id] <= limit
        <5>1. RolledSessionWindow(id).spent + intent.amount <= limit
          BY <1>3, <1>5, <2>5 DEF ExecuteFromAgent, WithinCeilings
        <5>2. sessionSpentThisWindow'[id] = RolledSessionWindow(id).spent + intent.amount
          BY <1>1, <2>5 DEF ExecuteFromAgent, TypeOK
        <5>3. QED
          BY <5>1, <5>2
      <4>3. later \subseteq window
        <5>1. \A i \in UnderLimit(id)' : i \in DOMAIN executed' /\ executed'[i].session = id
          BY DEF UnderLimit, Executions
        <5>2. QED
          BY <3>1, <3>2, <5>1 DEF Later
      <4>4. window \subseteq DOMAIN executed'
        OBVIOUS
      <4> HIDE DEF window, later
      <4>5. Sum(Moved', later) <= Sum(Moved', window)
        <5>1. IsFiniteSet(window) /\ \A i \in window : Moved'[i] \in Nat
          BY <1>1, <4>4, FS_Subset
        <5>2. QED
          BY <4>3, <5>1, SumPart
      <4>6. Sum(Moved', later) \in Nat /\ Sum(Moved', window) \in Nat
        <5>1. window \in SUBSET DOMAIN executed' /\ later \in SUBSET DOMAIN executed'
          BY <4>3, <4>4
        <5>2. QED
          BY <1>1, <5>1, SumPart
      <4>7. QED
        BY <2>2, <4>1, <4>2, <4>5, <4>6 DEF later
    <3> HIDE DEF events, start, limit
    <3>4. Sum(Moved', LaterDayBefore(events, start, n)) <= limit
      BY <1>1, <2>1, <2>2, <2>3, DayBeforeKept DEF n
    <3>5. \A from \in 1..now : Sum(Moved', LaterDay(events, from, n)) <= 2 * limit
      BY <1>1, <2>1, <2>2, <2>3, <3>3, <3>4, DayKept DEF n
    <3>6. sessions'[id].maxDaily = limit
      BY <1>3 DEF limit
    <3>7. QED
      BY <3>1, <3>2, <3>3, <3>4, <3>5, <3>6 DEF Later, LaterDayBefore, LaterDay
  <2>6. QED
    BY <2>4, <2>5
<1>6. LimitedWindows'
  BY <1>5 DEF LimitedWindows, Since, DayBefore, Total, Sum
<1>7. LimitBindsOnceSet'
  BY <1>3, <1>5 DEF LimitBindsOnceSet, Total, Sum
<1>8. QED
  BY <1>3, <1>4, <1>6, <1>7 DEF LInv

\* A call that changes a limit starts counting anew; every other call, and a
\* block, leaves what is counted as it is.
LEMMA NextKeepsLimit == WInv /\ WInv' /\ LInv /\ [LimitNext]_limitVars => LInv'
<1> SUFFICES ASSUME WInv, WInv', LInv, [LimitNext]_limitVars PROVE LInv'
  OBVIOUS
<1>1. /\ Len(executed) \in Nat /\ DOMAIN executed = 1..Len(executed)
      /\ now \in Nat /\ DAY_WINDOW \in Nat \ {0}
      /\ \A i \in DOMAIN executed : executed[i].at \in Nat /\ executed[i].at <= now
      /\ \A id \in SessionIds : sessions[id].maxDaily \in Nat /\ sessions'[id].maxDaily \in Nat
  <2>1. executed \in Seq(Execution) /\ now \in Nat /\ DAY_WINDOW \in Nat \ {0}
    BY NumbersAssumption DEF WInv, TypeOK
  <2>2. \A i \in DOMAIN executed : executed[i].at \in Nat /\ executed[i].at <= now
    <3>1. \A i \in DOMAIN executed : executed[i] \in Execution
      BY <2>1
    <3>2. QED
      BY <3>1, NumbersAssumption DEF Execution, WInv, WindowsCover
  <2>3. \A id \in SessionIds : sessions[id].maxDaily \in Nat
    BY NumbersAssumption DEF WInv, TypeOK, Session
  <2>4. \A id \in SessionIds : sessions'[id].maxDaily \in Nat
    BY NumbersAssumption DEF WInv, TypeOK, Session
  <2>5. QED
    BY <2>1, <2>2, <2>3, <2>4, AppendFacts
<1>2. ASSUME UNCHANGED spending, NoteLimits, now' \in {now, now + 1} PROVE LInv'
  <2>1. /\ executed' = executed /\ sessionWindowStart' = sessionWindowStart
        /\ \A events : Total(events)' = Total(events)
    BY <1>2 DEF spending, sessionWindow, Total, Moved
  <2>2. \A id \in SessionIds :
            /\ limitedFrom'[id] \in Nat /\ limitedFrom'[id] <= Len(executed)
            /\ sessions'[id].maxDaily # sessions[id].maxDaily => UnderLimit(id)' = {}
            /\ sessions'[id].maxDaily = sessions[id].maxDaily => UnderLimit(id)' = UnderLimit(id)
    <3> SUFFICES ASSUME NEW id \in SessionIds
                 PROVE  /\ limitedFrom'[id] \in Nat /\ limitedFrom'[id] <= Len(executed)
                        /\ sessions'[id].maxDaily # sessions[id].maxDaily => UnderLimit(id)' = {}
                        /\ sessions'[id].maxDaily = sessions[id].maxDaily => UnderLimit(id)' = UnderLimit(id)
      OBVIOUS
    <3>1. limitedFrom'[id] = IF sessions'[id].maxDaily = sessions[id].maxDaily
                             THEN limitedFrom[id] ELSE Len(executed)
      BY <1>2 DEF NoteLimits
    <3>2. limitedFrom[id] \in Nat /\ limitedFrom[id] <= Len(executed)
      BY DEF LInv
    <3>3. UnderLimit(id)' = {i \in DOMAIN executed : executed[i].session = id /\ i > limitedFrom'[id]}
      BY <2>1 DEF UnderLimit, Executions
    <3>4. UnderLimit(id) = {i \in DOMAIN executed : executed[i].session = id /\ i > limitedFrom[id]}
      BY DEF UnderLimit, Executions
    <3>5. QED
      BY <1>1, <3>1, <3>2, <3>3, <3>4
  <2>3. Total({}) = 0
    BY SumEmpty DEF Total, Sum
  <2>4. LimitedWindows'
    <3> SUFFICES ASSUME NEW id \in SessionIds, sessions'[id].maxDaily > 0
                 PROVE  /\ Total({i \in UnderLimit(id)' : executed[i].at >= sessionWindowStart[id]})
                                <= sessions'[id].maxDaily
                        /\ Total({i \in UnderLimit(id)' : executed[i].at
                                \in (sessionWindowStart[id] - DAY_WINDOW)..(sessionWindowStart[id] - 1)})
                                <= sessions'[id].maxDaily
      BY <2>1 DEF LimitedWindows, Since, DayBefore
    <3>1. CASE sessions'[id].maxDaily # sessions[id].maxDaily
      <4>1. /\ {i \in UnderLimit(id)' : executed[i].at >= sessionWindowStart[id]} = {}
            /\ {i \in UnderLimit(id)' : executed[i].at
                    \in (sessionWindowStart[id] - DAY_WINDOW)..(sessionWindowStart[id] - 1)} = {}
        BY <2>2, <3>1
      <4>2. 0 <= sessions'[id].maxDaily
        BY <1>1
      <4>3. QED
        BY <2>3, <4>1, <4>2
    <3>2. CASE sessions'[id].maxDaily = sessions[id].maxDaily
      BY <2>2, <3>2 DEF LInv, LimitedWindows, Since, DayBefore
    <3>3. QED
      BY <3>1, <3>2
  <2>5. LimitBindsOnceSet'
    <3> SUFFICES ASSUME NEW id \in SessionIds, sessions'[id].maxDaily > 0, NEW from \in 1..now'
                 PROVE  Total({i \in UnderLimit(id)' : executed[i].at \in from..(from + DAY_WINDOW - 1)})
                            <= 2 * sessions'[id].maxDaily
      BY <2>1 DEF LimitBindsOnceSet
    <3> DEFINE day == {i \in UnderLimit(id)' : executed[i].at \in from..(from + DAY_WINDOW - 1)}
    <3>0. day = {} => Total(day) <= 2 * sessions'[id].maxDaily
      <4>1. 0 <= 2 * sessions'[id].maxDaily
        BY <1>1
      <4> HIDE DEF day
      <4>2. QED
        BY <2>3, <4>1
    <3>1. CASE sessions'[id].maxDaily # sessions[id].maxDaily
      <4>1. day = {}
        BY <2>2, <3>1
      <4>2. QED
        BY <3>0, <4>1
    <3>2. CASE sessions'[id].maxDaily = sessions[id].maxDaily /\ from \in 1..now
      BY <2>2, <3>2 DEF LInv, LimitBindsOnceSet
    <3>3. CASE from = now + 1
      <4>1. UnderLimit(id)' \subseteq DOMAIN executed
        BY <2>1 DEF UnderLimit, Executions
      <4>2. day = {}
        BY <1>1, <3>3, <4>1
      <4>3. QED
        BY <3>0, <4>2
    <3>4. QED
      BY <1>1, <1>2, <3>1, <3>2, <3>3
  <2>6. limitedFrom' \in [SessionIds -> Nat]
    BY <1>2, <2>2 DEF NoteLimits
  <2>7. QED
    BY <2>1, <2>2, <2>4, <2>5, <2>6 DEF LInv
<1>3. CASE NextBlock /\ NoteLimits
  BY <1>2, <1>3 DEF NextBlock
<1>4. ASSUME NEW caller, Administer(caller), NoteLimits PROVE LInv'
  BY <1>2, <1>4, AdministerKeepsSpending
<1>5. CASE Execute /\ NoteLimits
  BY <1>5, ExecuteKeepsLimit DEF Execute
<1>6. CASE UNCHANGED limitVars
  <2>1. UNCHANGED <<now, sessions, sessionWindowStart, executed, limitedFrom>>
    BY <1>6 DEF limitVars, vars, registry, spending, sessionWindow
  <2>2. QED
    BY <2>1 DEF LInv, LimitedWindows, LimitBindsOnceSet, Since, DayBefore, UnderLimit, Executions, Total, Moved
<1>7. QED
  BY <1>3, <1>4, <1>5, <1>6 DEF LimitNext, Next

\* From when a session's daily limit is set or reduced, any 24 hours hold at
\* most twice that limit of it, for any limits, amounts and number of sessions.
THEOREM LimitBinds == LimitSpec => []LimitBindsOnceSet
<1>1. LimitInit => Init /\ LInv
  <2> SUFFICES ASSUME LimitInit PROVE LInv
    BY DEF LimitInit
  <2>1. executed = <<>> /\ DOMAIN executed = {} /\ limitedFrom = [id \in SessionIds |-> 0]
    BY DEF LimitInit, Init
  <2>2. \A id \in SessionIds : sessions[id].maxDaily = 0
    BY DEF LimitInit, Init, NoSession
  <2>3. QED
    BY <2>1, <2>2 DEF LInv, LimitedWindows, LimitBindsOnceSet
<1>2. [LimitNext]_limitVars => [Next]_vars
  BY DEF LimitNext, limitVars
<1>3. LimitSpec => []WInv
  BY <1>1, <1>2, WindowInvariant, PTL DEF LimitSpec, Spec
<1>4. LInv => LimitBindsOnceSet
  BY DEF LInv
<1>5. QED
  BY <1>1, <1>3, <1>4, NextKeepsLimit, PTL DEF LimitSpec
-----------------------------------------------------------------------------
(* What a step may never do. *)

\* INV-006 as stored numbers and flags: for keys that differ, no call of the
\* emergency key releases a brake, revives a session, spends or raises a limit.
THEOREM EmergencyBrakes == Spec => EmergencyOnlyBrakes
<1>1. ASSUME TypeOK, EmergencyKey # Owner, Administer(EmergencyKey)
      PROVE  /\ paused => paused'
             /\ frozen => frozen'
             /\ UNCHANGED spending
             /\ \A id \in SessionIds :
                  /\ sessions'[id].agentEvmAddress = sessions[id].agentEvmAddress
                  /\ sessions[id].revoked => sessions'[id].revoked
                  /\ sessions'[id].maxPerTx <= sessions[id].maxPerTx
                  /\ sessions'[id].maxDaily <= sessions[id].maxDaily
  <2>1. \A id \in SessionIds :
            /\ sessions[id].maxPerTx \in Int
            /\ sessions[id].maxDaily \in Int
    BY <1>1, NumbersAssumption DEF TypeOK, Session
  <2>2. CASE Pause(EmergencyKey) \/ Freeze(EmergencyKey)
    BY <2>1, <2>2 DEF Pause, Freeze, registry
  <2>3. ASSUME NEW id \in SessionIds, NEW perTx \in Ceilings, NEW daily \in Ceilings,
               EmergencyReduceLimit(EmergencyKey, id, perTx, daily)
        PROVE  /\ UNCHANGED <<paused, frozen, spending>>
               /\ \A other \in SessionIds :
                    /\ sessions'[other].agentEvmAddress = sessions[other].agentEvmAddress
                    /\ sessions[other].revoked => sessions'[other].revoked
                    /\ sessions'[other].maxPerTx <= sessions[other].maxPerTx
                    /\ sessions'[other].maxDaily <= sessions[other].maxDaily
    BY <1>1, <2>1, <2>3 DEF EmergencyReduceLimit, TypeOK, Session, brakes
  <2>4. QED
    BY <1>1, <2>2, <2>3
       DEF Administer, RegisterSession, RevokeSession, Resume, Unfreeze, Pause, Freeze
<1>2. TypeOK /\ [Next]_vars =>
        [EmergencyKey # Owner /\ Administer(EmergencyKey) =>
            /\ paused => paused'
            /\ frozen => frozen'
            /\ UNCHANGED spending
            /\ \A id \in SessionIds :
                 /\ sessions'[id].agentEvmAddress = sessions[id].agentEvmAddress
                 /\ sessions[id].revoked => sessions'[id].revoked
                 /\ sessions'[id].maxPerTx <= sessions[id].maxPerTx
                 /\ sessions'[id].maxDaily <= sessions[id].maxDaily]_vars
  BY <1>1
<1>3. QED
  BY <1>2, TypeCorrect, PTL DEF Spec, EmergencyOnlyBrakes

\* The views quote at least what an execution then takes, and the account's
\* quote shrinks by exactly that: the three copies of the window test agree.
LEMMA QuoteCoversExecution ==
    ASSUME TypeOK, AccountCeilingHolds, NEW intent \in Intents, NEW signer,
           ExecuteFromAgent(intent, signer)
    PROVE  /\ intent.amount <= SessionMaxLoss(intent.sessionId)
           /\ EstimateMaxLoss' = EstimateMaxLoss - intent.amount
<1> DEFINE id == intent.sessionId
<1>1. /\ id \in SessionIds
      /\ intent.amount \in Nat
      /\ AccountMaxDaily \in Nat
      /\ now \in Nat \ {0}
      /\ DAY_WINDOW \in Nat \ {0}
      /\ sessions[id].maxDaily \in Nat
      /\ accountSpentThisWindow \in Nat
      /\ accountWindowStart \in Nat
      /\ sessionSpentThisWindow[id] \in Nat
      /\ sessionWindowStart[id] \in Nat
  <2>1. id \in SessionIds /\ intent.amount \in 0..MaxUint
    BY NumbersAssumption DEF Intents
  <2>2. sessions[id] \in Session
    BY <2>1 DEF TypeOK
  <2>3. sessions[id].maxDaily \in 0..MaxUint
    BY <2>2 DEF Session
  <2>4. /\ sessionSpentThisWindow[id] \in 0..MaxUint
        /\ sessionWindowStart[id] \in 0..MaxTime
        /\ accountSpentThisWindow \in 0..MaxUint
        /\ accountWindowStart \in 0..MaxTime
        /\ now \in 1..MaxTime
    BY <2>1 DEF TypeOK
  <2>5. /\ MaxUint \in Nat /\ MaxTime \in Nat /\ DAY_WINDOW \in Nat \ {0}
        /\ AccountMaxDaily \in 1..MaxUint
    BY NumbersAssumption
  <2>6. \A x \in 0..MaxUint : x \in Nat
    BY <2>5
  <2>7. \A t \in 0..MaxTime : t \in Nat
    BY <2>5
  <2>8. now \in Nat \ {0} /\ AccountMaxDaily \in Nat
    BY <2>4, <2>5
  <2>9. QED
    BY <2>1, <2>3, <2>4, <2>5, <2>6, <2>7, <2>8
<1>2. /\ RolledAccountWindow.spent = CurrentAccountSpent
      /\ RolledSessionWindow(id).spent = CurrentSessionSpent(id)
      /\ CurrentAccountSpent \in Nat
      /\ CurrentSessionSpent(id) \in Nat
      /\ RolledAccountWindow.start \in Nat \ {0}
      /\ now - RolledAccountWindow.start < DAY_WINDOW
  BY <1>1 DEF RolledAccountWindow, RolledSessionWindow, CurrentAccountSpent, WindowOver,
         CurrentSessionSpent
<1>3. /\ CurrentAccountSpent + intent.amount <= AccountMaxDaily
      /\ sessions[id].maxDaily > 0 =>
            CurrentSessionSpent(id) + intent.amount <= sessions[id].maxDaily
  BY <1>2 DEF ExecuteFromAgent, WithinCeilings, AccountHasRoom
<1>4. intent.amount <= EstimateMaxLoss
  BY <1>1, <1>2, <1>3 DEF EstimateMaxLoss
<1>5. sessions[id].maxDaily > 0 => intent.amount <= SessionRemaining(id)
  BY <1>1, <1>2, <1>3 DEF SessionRemaining
<1>6. intent.amount <= SessionMaxLoss(id)
  BY <1>4, <1>5 DEF SessionMaxLoss, ExecuteFromAgent, Authorized
<1>7. /\ accountSpentThisWindow' = CurrentAccountSpent + intent.amount
      /\ accountWindowStart' = RolledAccountWindow.start
      /\ now' = now
  BY <1>2 DEF ExecuteFromAgent
<1>8. CurrentAccountSpent' = CurrentAccountSpent + intent.amount
  BY <1>1, <1>2, <1>7 DEF CurrentAccountSpent, WindowOver
<1>9. EstimateMaxLoss' = EstimateMaxLoss - intent.amount
  BY <1>1, <1>2, <1>3, <1>8 DEF EstimateMaxLoss
<1>10. QED
  BY <1>6, <1>9

\* The loss the views quote is never less than the next execution.
THEOREM QuoteIsABound == Spec => QuotedLossCoversSpend
<1>1. ASSUME IInv, Next, executed' # executed
      PROVE  LET e == executed'[Len(executed')] IN
             /\ e.amount <= SessionMaxLoss(e.session)
             /\ EstimateMaxLoss' = EstimateMaxLoss - e.amount
  <2>1. PICK intent \in Intents, signer \in Addresses : ExecuteFromAgent(intent, signer)
    BY <1>1, AdministerKeepsSpending DEF Next, Execute, NextBlock, spending
  <2>2. executed' = Append(executed, Event(intent)) /\ Event(intent) \in Execution
    BY <1>1, <2>1, ExecuteAppends DEF IInv
  <2>3. executed'[Len(executed')] = Event(intent)
    BY <1>1, <2>2, AppendFacts DEF IInv, TypeOK
  <2>4. QED
    BY <1>1, <2>1, <2>3, QuoteCoversExecution DEF IInv, Event
<1>2. IInv /\ [Next]_vars =>
        [executed' # executed =>
            LET e == executed'[Len(executed')] IN
            /\ e.amount <= SessionMaxLoss(e.session)
            /\ EstimateMaxLoss' = EstimateMaxLoss - e.amount]_vars
  BY <1>1
<1>3. QED
  BY <1>2, Invariant, PTL DEF Spec, QuotedLossCoversSpend

-----------------------------------------------------------------------------
(* Revocation. *)

\* Nothing a caller other than by executing does revives a revoked session,
\* replaces its key or its binding.
LEMMA AdministerKeepsRevoked ==
    ASSUME TypeOK, NEW caller, Administer(caller), NEW id \in SessionIds,
           IsRegistered(id), sessions[id].revoked
    PROVE  /\ sessions'[id].revoked
           /\ sessions'[id].agentEvmAddress = sessions[id].agentEvmAddress
           /\ sessions'[id].binding = sessions[id].binding
<1>1. sessions \in [SessionIds -> Session]
  BY DEF TypeOK
<1>2. ASSUME NEW other \in SessionIds, NEW agent, NEW binding, NEW perTx, NEW daily, NEW list,
             RegisterSession(caller, other, agent, binding, perTx, daily, list)
      PROVE  sessions'[id] = sessions[id]
  BY <1>1, <1>2 DEF RegisterSession, CanRegister
<1>3. ASSUME NEW other \in SessionIds, RevokeSession(caller, other)
      PROVE  /\ sessions'[id].revoked
             /\ sessions'[id].agentEvmAddress = sessions[id].agentEvmAddress
             /\ sessions'[id].binding = sessions[id].binding
  BY <1>1, <1>3 DEF RevokeSession, Session
<1>4. ASSUME NEW other \in SessionIds, NEW perTx, NEW daily,
             EmergencyReduceLimit(caller, other, perTx, daily)
      PROVE  /\ sessions'[id].revoked
             /\ sessions'[id].agentEvmAddress = sessions[id].agentEvmAddress
             /\ sessions'[id].binding = sessions[id].binding
  BY <1>1, <1>4 DEF EmergencyReduceLimit, Session
<1>5. CASE Pause(caller) \/ Freeze(caller) \/ Resume(caller) \/ Unfreeze(caller)
  BY <1>5 DEF Pause, Freeze, Resume, Unfreeze, registry
<1>6. QED
  BY <1>2, <1>3, <1>4, <1>5 DEF Administer

\* An execution is never one of a revoked session.
LEMMA ExecuteSparesRevoked ==
    ASSUME TypeOK, NEW intent \in Intents, NEW signer, ExecuteFromAgent(intent, signer),
           NEW id \in SessionIds, sessions[id].revoked
    PROVE  Executions(id)' = Executions(id)
<1>1. /\ executed' = Append(executed, Event(intent))
      /\ Event(intent) \in Execution
      /\ executed \in Seq(Execution)
  BY ExecuteAppends DEF TypeOK
<1>2. /\ DOMAIN executed = 1..Len(executed)
      /\ Len(executed) \in Nat
      /\ DOMAIN executed' = 1..(Len(executed) + 1)
      /\ \A i \in 1..Len(executed) : executed'[i] = executed[i]
      /\ executed'[Len(executed) + 1] = Event(intent)
  BY <1>1, AppendFacts
<1>3. intent.sessionId # id
  BY DEF ExecuteFromAgent, Authorized
<1>4. Event(intent).session # id
  BY <1>3 DEF Event
<1>5. Executions(id)' = {i \in DOMAIN executed' : executed'[i].session = id}
  BY DEF Executions
<1>6. Executions(id) = {i \in DOMAIN executed : executed[i].session = id}
  BY DEF Executions
<1>7. QED
  BY <1>2, <1>4, <1>5, <1>6

\* Revoking a registered session is final.
THEOREM Revocation == Spec => RevocationIsFinal
<1>1. ASSUME TypeOK, [Next]_vars, NEW id \in SessionIds,
             IsRegistered(id), sessions[id].revoked
      PROVE  /\ sessions'[id].revoked
             /\ sessions'[id].agentEvmAddress = sessions[id].agentEvmAddress
             /\ sessions'[id].binding = sessions[id].binding
             /\ Executions(id)' = Executions(id)
  <2>1. ASSUME NEW caller, Administer(caller)
        PROVE  Executions(id)' = Executions(id)
    BY <2>1, AdministerKeepsSpending DEF Executions, spending
  <2>2. CASE NextBlock \/ UNCHANGED vars
    BY <1>1, <2>2 DEF NextBlock, vars, registry, spending, Executions
  <2>3. ASSUME NEW intent \in Intents, NEW signer, ExecuteFromAgent(intent, signer)
        PROVE  UNCHANGED registry /\ Executions(id)' = Executions(id)
    BY <1>1, <2>3, ExecuteSparesRevoked DEF ExecuteFromAgent
  <2>4. QED
    BY <1>1, <2>1, <2>2, <2>3, AdministerKeepsRevoked DEF Next, Execute, registry
<1>2. TypeOK /\ [Next]_vars =>
        [\A id \in SessionIds : IsRegistered(id) /\ sessions[id].revoked =>
            /\ sessions'[id].revoked
            /\ sessions'[id].agentEvmAddress = sessions[id].agentEvmAddress
            /\ sessions'[id].binding = sessions[id].binding
            /\ Executions(id)' = Executions(id)]_vars
  BY <1>1
<1>3. QED
  BY <1>2, TypeCorrect, PTL DEF Spec, RevocationIsFinal
-----------------------------------------------------------------------------
(* Refinement. *)

\* The payments the account has made, as BoundedSpender sees them.
Paid == {<<executed[i].session, executed[i].nonce>> : i \in DOMAIN executed}

\* An execution is a payment of the abstract account.
LEMMA ExecutePays ==
    ASSUME IInv, NEW intent \in Intents, NEW signer, ExecuteFromAgent(intent, signer)
    PROVE  Promise!Pay(intent.sessionId, intent.nonce, intent.amount)
<1>1. /\ executed \in Seq(Execution)
      /\ Event(intent) \in Execution
      /\ executed' = Append(executed, Event(intent))
      /\ intent.nonce \in Nat
      /\ intent.nonce > sessionLastNonce[intent.sessionId]
      /\ sessionLastNonce \in [SessionIds -> 0..MaxUint]
      /\ intent.sessionId \in SessionIds
  BY ExecuteAppends DEF IInv, TypeOK
<1>2. /\ DOMAIN executed = 1..Len(executed)
      /\ Len(executed) \in Nat
      /\ DOMAIN executed' = 1..(Len(executed) + 1)
      /\ \A i \in 1..Len(executed) : executed'[i] = executed[i] /\ executed[i] \in Execution
      /\ executed'[Len(executed) + 1] = Event(intent)
  BY <1>1, AppendFacts
<1>3. Promise!Fresh(intent.sessionId, intent.nonce)
  <2>1. ASSUME NEW i \in DOMAIN executed, executed[i].session = intent.sessionId
        PROVE  executed[i].nonce < intent.nonce
    <3>1. executed[i].nonce <= sessionLastNonce[intent.sessionId]
      BY <2>1 DEF IInv, NonceIsHighWater
    <3>2. executed[i].nonce \in 0..MaxUint
      BY <1>2 DEF Execution
    <3>3. sessionLastNonce[intent.sessionId] \in 0..MaxUint
      BY <1>1
    <3>4. QED
      BY <1>1, <3>1, <3>2, <3>3, NumbersAssumption
  <2>2. QED
    BY <2>1 DEF Promise!Fresh
<1>4. Paid' = Paid \cup {<<intent.sessionId, intent.nonce>>}
  <2>1. /\ Event(intent).session = intent.sessionId
        /\ Event(intent).nonce = intent.nonce
    BY DEF Event
  <2>2. Paid' = {<<executed'[i].session, executed'[i].nonce>> : i \in DOMAIN executed'}
    BY DEF Paid
  <2>3. QED
    BY <1>2, <2>1, <2>2 DEF Paid
<1>5. \/ /\ Promise!WindowOver
         /\ accountWindowStart' = now
         /\ accountSpentThisWindow' = intent.amount
      \/ /\ ~Promise!WindowOver
         /\ accountWindowStart' = accountWindowStart
         /\ accountSpentThisWindow' = accountSpentThisWindow + intent.amount
  <2>1. intent.amount \in 0..MaxUint
    BY NumbersAssumption DEF Intents
  <2>2. intent.amount \in Nat
    BY <2>1, NumbersAssumption
  <2>3. QED
    BY <2>2 DEF ExecuteFromAgent, RolledAccountWindow, WindowOver, Promise!WindowOver
<1>6. accountSpentThisWindow' <= AccountMaxDaily
  BY DEF ExecuteFromAgent, WithinCeilings, AccountHasRoom
<1>7. now' = now
  BY DEF ExecuteFromAgent
<1>8. QED
  BY <1>3, <1>4, <1>5, <1>6, <1>7 DEF Promise!Pay, Paid

\* The contract implements BoundedSpender: an administrative call is a stutter,
\* a block is time passing, an execution is one payment.
THEOREM AccountKeepsPromise == Spec => KeepsPromise
<1>1. Init => Promise!Init
  BY DEF Init, Promise!Init
<1>2. ASSUME IInv, [Next]_vars
      PROVE  [Promise!Next]_<<now, Promise!ledger>>
  <2>1. CASE NextBlock
    BY <2>1 DEF NextBlock, spending, accountWindow, Promise!Next, Promise!TimePasses, Promise!ledger
  <2>2. ASSUME UNCHANGED <<now, spending>>
        PROVE  UNCHANGED <<now, Promise!ledger>>
    BY <2>2 DEF spending, accountWindow, Promise!ledger
  <2>3. ASSUME NEW intent \in Intents, NEW signer, ExecuteFromAgent(intent, signer)
        PROVE  Promise!Next
    <3>1. /\ intent.sessionId \in SessionIds /\ intent.nonce \in Nonces
          /\ intent.amount \in Amounts
      BY DEF Intents
    <3>2. QED
      BY <1>2, <2>3, <3>1, ExecutePays DEF Promise!Next
  <2>4. CASE UNCHANGED vars
    BY <2>2, <2>4 DEF vars
  <2>5. QED
    BY <1>2, <2>1, <2>2, <2>3, <2>4, AdministerKeepsSpending DEF Next, Execute
<1>3. QED
  BY <1>1, <1>2, Invariant, PTL DEF Spec, KeepsPromise, Promise!Spec
=============================================================================
