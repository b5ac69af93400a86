---------------------------- MODULE RelayProofs -----------------------------
(***************************************************************************)
(* Proofs about Relay, for any number of calls, instances and retries and  *)
(* any amounts.  RInv accounts for the nonces: what the counter went past  *)
(* is pending, held by one call, or abandoned.  TruthInv accounts for the  *)
(* answers: transactions, ledger rows and receipts speak of the intent of  *)
(* the call that sent them.  BudgetInv says that a bucket covers what the  *)
(* calls of its instance spend.                                            *)
(***************************************************************************)
EXTENDS Relay, SumTheorems, SequenceTheorems, TLAPS

LiveCall ==
    [step: Steps, server: Servers, intent: Intents, day: 0..MaxDay,
     attempt: 1..(MaxRetries + 1), nonce: Nat \cup {None}, issued: BOOLEAN]
DoneCall == [step: {"done"}, server: Servers, intent: Intents, day: 0..MaxDay]

\* Only a call that may try again waits to do so, and what a call sends, or
\* raises the counter to, is a nonce.
StepsOK ==
    \A c \in Live :
        /\ call[c].step \in {"count", "sync", "recheck"} => call[c].attempt <= MaxRetries
        /\ call[c].step \in {"send", "sync"} => call[c].nonce \in Nat

Broadcast == mempool \cup mined
Unsent == {"acquire", "populate", "send"}

\* What an attempt has not sent yet is not on the chain.
AttemptsFresh ==
    \A tx \in Broadcast :
        LET c == tx.hash[1] IN
        /\ call[c] # Idle
        /\ c \in Live =>
               /\ tx.hash[2] <= call[c].attempt
               /\ call[c].step \in Unsent => tx.hash[2] < call[c].attempt

-----------------------------------------------------------------------------
(* Nonces. *)

HeldBy(c) == call[c].step = "send" /\ call[c].issued

\* The counter is past every nonce it issued, and each has one holder, or one
\* transaction, or none.
CounterAhead ==
    /\ \A c \in Calls : HeldBy(c) => call[c].nonce < next /\ call[c].nonce \notin abandoned
    /\ \A tx \in Broadcast : tx.issued => tx.nonce < next /\ tx.nonce \notin abandoned
    /\ \A n \in abandoned : n < next

OneHolder ==
    /\ \A c, d \in Calls : HeldBy(c) /\ HeldBy(d) /\ call[c].nonce = call[d].nonce => c = d
    /\ \A c \in Calls, tx \in Broadcast : HeldBy(c) /\ tx.issued => call[c].nonce # tx.nonce
    /\ \A t, u \in Broadcast : t.issued /\ u.issued /\ t.nonce = u.nonce => t.hash = u.hash

InMempool(n) == \E tx \in mempool : tx.nonce = n
Filled(n) == \A k \in Nat : eoaNonce <= k /\ k < n => InMempool(k)

\* What the counter went past is pending, about to be sent, or abandoned; what
\* the node counted was pending, and leaves the mempool only by being mined.
NoSilentGap ==
    /\ \A k \in Nat : eoaNonce <= k /\ k < next =>
           \/ InMempool(k) \/ k \in abandoned
           \/ \E c \in Calls : HeldBy(c) /\ call[c].nonce = k
    /\ \A c \in Live :
           call[c].step = "sync" \/ (call[c].step = "send" /\ ~call[c].issued) => Filled(call[c].nonce)
    /\ \A tx \in mempool : ~tx.issued => Filled(tx.nonce)

NonceInv == AttemptsFresh /\ CounterAhead /\ OneHolder /\ NoSilentGap

-----------------------------------------------------------------------------
(* Answers. *)

\* A transaction carries the intent of the call that sent it.
OwnIntent ==
    /\ \A tx \in mempool : tx.hash[1] \in Live => tx.intent = call[tx.hash[1]].intent
    /\ \A m \in mined : m.executed /\ m.hash[1] \in Live => call[m.hash[1]].intent \in executed

RowsTrue == \A k \in DOMAIN rows : rows[k].status = "confirmed" => rows[k].intent \in executed

TruthInv == OwnIntent /\ RowsTrue /\ OkMeansExecuted

-----------------------------------------------------------------------------
(* The daily bucket. *)

Started == {c \in Calls : call[c] # Idle}

\* No day is ahead of the calendar, and who spends today is in today's bucket.
DaysPast ==
    /\ \A s \in Servers : used[s].day <= today
    /\ \A c \in Calls : call[c] \notin {Idle, Over} => call[c].day <= today
    /\ \A s \in Servers : Spenders(s) # {} => used[s].day = today

BucketCovers == ~crossed => \A s \in Servers : Spends(s) <= Total(s)

BudgetInv == IsFiniteSet(Started) /\ DaysPast /\ BucketCovers

RInv == TypeOK /\ StepsOK /\ IsFiniteSet(mempool) /\ NonceInv

USE DEF store, chain, vars
-----------------------------------------------------------------------------
(* What the operators of the model compute. *)

\* A finite set of integers that is not empty has a least and a greatest
\* member.
LEMMA Extremes ==
    ASSUME NEW S, IsFiniteSet(S), S \subseteq Int, S # {}
    PROVE  \E low, high \in S : \A n \in S : low <= n /\ n <= high
<1> DEFINE Bounded(T) == \E low, high \in T : \A n \in T : low <= n /\ n <= high
           bad == {T \in SUBSET S : T # {} /\ ~Bounded(T)}
<1>1. SUFFICES ASSUME bad # {} PROVE FALSE
    OBVIOUS
<1>2. PICK M \in bad : \A T \in SUBSET M : T # M => T \notin bad
    <2>1. bad \subseteq SUBSET S
        OBVIOUS
    <2> HIDE DEF bad
    <2> QED
        BY <1>1, <2>1, Smallest
<1>3. PICK x \in M : x \in Int
    OBVIOUS
<1>4. CASE M = {x}
    BY <1>2, <1>3, <1>4
<1>5. CASE M # {x}
    <2> DEFINE rest == M \ {x}
    <2>0. M \in SUBSET S
        BY <1>2
    <2>1. rest \in SUBSET M /\ rest # M /\ rest # {} /\ rest \in SUBSET S /\ M = rest \cup {x}
        <3> HIDE DEF bad, Bounded
        <3> QED
            BY <1>3, <1>5, <2>0
    <2>2. Bounded(rest)
        BY <1>2, <2>1
    <2>3. PICK low \in rest, high \in rest : \A n \in rest : low <= n /\ n <= high
        BY <2>2
    <2>4. low \in Int /\ high \in Int /\ rest \subseteq Int
        BY <2>1
    <2> HIDE DEF rest
    <2> DEFINE l == IF x <= low THEN x ELSE low
               h == IF high <= x THEN x ELSE high
    <2>5. l \in M /\ h \in M /\ \A n \in M : l <= n /\ n <= h
        BY <1>3, <2>1, <2>3, <2>4
    <2>6. Bounded(M)
        BY <2>5
    <2> QED
        BY <1>2, <2>6
<1> QED
    BY <1>4, <1>5

\* The node's count: everything below it is pending.
LEMMA PendingCountFilled ==
    ASSUME eoaNonce \in Nat, IsFiniteSet(mempool)
    PROVE  PendingCount \in Nat /\ Filled(PendingCount)
<1> DEFINE bound == eoaNonce + Cardinality(mempool)
<1>1. bound \in Nat /\ eoaNonce <= bound
    BY FS_CardinalityType
<1>2. eoaNonce \in PendingUpTo
    BY <1>1 DEF PendingUpTo, Gapless
<1>3. PendingUpTo \subseteq eoaNonce..bound
    BY DEF PendingUpTo
<1> HIDE DEF bound
<1>4. PendingUpTo \subseteq Int /\ IsFiniteSet(PendingUpTo)
    <2>1. IsFiniteSet(eoaNonce..bound) /\ eoaNonce..bound \subseteq Int
        BY <1>1, FS_Interval
    <2> QED
        BY <1>3, <2>1, FS_Subset
<1>5. \E n \in PendingUpTo : \A m \in PendingUpTo : m <= n
    BY <1>2, <1>4, Extremes
<1>6. PendingCount \in PendingUpTo
    BY <1>5 DEF PendingCount
<1>7. PendingCount \in Nat /\ Gapless(PendingCount)
    BY <1>1, <1>3, <1>6 DEF PendingUpTo
<1> QED
    BY <1>7 DEF Filled, Gapless, InMempool

RowSet == [intent: Intents, hash: Calls \X Nat, status: {"confirmed", "failed"}]

\* A row that is written joins the others, and replaces none but its like.
LEMMA RecordedRows ==
    ASSUME rows \in Seq(RowSet), NEW intent \in Intents, NEW status \in {"confirmed", "failed"},
           NEW hash, hash = <<>> \/ hash \in Calls \X Nat
    PROVE  /\ Recorded(Row(intent, hash, status)) \in Seq(RowSet)
           /\ \A k \in DOMAIN Recorded(Row(intent, hash, status)) :
                  \/ \E j \in DOMAIN rows : Recorded(Row(intent, hash, status))[k] = rows[j]
                  \/ Recorded(Row(intent, hash, status))[k] = Row(intent, hash, status)
<1> DEFINE row == Row(intent, hash, status)
           kept == DedupeLifecycle(row)
<1>1. kept \in Seq(RowSet) /\ \A k \in DOMAIN kept : \E j \in DOMAIN rows : kept[k] = rows[j]
    <2>1. CASE kept = rows
        BY <2>1
    <2>2. CASE kept # rows
        <3> DEFINE i == CHOOSE k \in DOMAIN rows : rows[k] = row
                   front == SubSeq(rows, 1, i - 1)
                   back == SubSeq(rows, i + 1, Len(rows))
        <3>1. i \in 1..Len(rows) /\ kept = front \o back /\ Len(rows) \in Nat
            BY <2>2, LenProperties DEF DedupeLifecycle, RemoveAt
        <3> HIDE DEF i, kept
        <3>2. \A k \in 1..Len(rows) : rows[k] \in RowSet
            BY ElementOfSeq
        <3>3. /\ front \in Seq(RowSet) /\ Len(front) = i - 1
              /\ \A k \in 1..(i - 1) : front[k] = rows[k]
            BY <3>1, <3>2, SubSeqProperties
        <3>4. /\ back \in Seq(RowSet) /\ Len(back) = Len(rows) - i
              /\ \A k \in 1..(Len(rows) - i) : back[k] = rows[i + k]
            <4>1. i + 1 \in Int /\ Len(rows) \in Int /\ \A k \in (i + 1)..Len(rows) : rows[k] \in RowSet
                BY <3>1, <3>2
            <4>2. /\ back \in Seq(RowSet) /\ Len(back) = IF i + 1 <= Len(rows) THEN Len(rows) - (i + 1) + 1 ELSE 0
                  /\ \A k \in 1..(1 + Len(rows) - (i + 1)) : back[k] = rows[(i + 1) + k - 1]
                BY <4>1, SubSeqProperties
            <4>3. ASSUME NEW k \in 1..(Len(rows) - i) PROVE back[k] = rows[i + k]
                <5>1. k \in 1..(1 + Len(rows) - (i + 1)) /\ (i + 1) + k - 1 = i + k
                    BY <3>1
                <5> QED
                    BY <4>2, <5>1
            <4> QED
                BY <3>1, <4>2, <4>3
        <3> HIDE DEF front, back
        <3>5. /\ kept \in Seq(RowSet) /\ Len(kept) = Len(rows) - 1
              /\ \A k \in 1..(Len(rows) - 1) : kept[k] = IF k <= i - 1 THEN front[k] ELSE back[k - (i - 1)]
            <4>1. /\ front \o back \in Seq(RowSet) /\ Len(front \o back) = Len(front) + Len(back)
                  /\ \A k \in 1..(Len(front) + Len(back)) :
                         (front \o back)[k] = IF k <= Len(front) THEN front[k] ELSE back[k - Len(front)]
                BY <3>3, <3>4, ConcatProperties
            <4>2. Len(front) + Len(back) = Len(rows) - 1
                BY <3>1, <3>3, <3>4
            <4> QED
                BY <3>1, <3>3, <4>1, <4>2
        <3>6. ASSUME NEW k \in DOMAIN kept PROVE \E j \in DOMAIN rows : kept[k] = rows[j]
            <4>1. k \in 1..(Len(rows) - 1) /\ DOMAIN rows = 1..Len(rows)
                BY <3>5, LenProperties
            <4>2. CASE k <= i - 1
                BY <3>1, <3>3, <3>5, <4>1, <4>2
            <4>3. CASE ~(k <= i - 1)
                <5>1. k - (i - 1) \in 1..(Len(rows) - i) /\ i + (k - (i - 1)) \in 1..Len(rows)
                    BY <3>1, <4>1, <4>3
                <5> QED
                    BY <3>4, <3>5, <4>1, <4>3, <5>1
            <4> QED
                BY <4>2, <4>3
        <3> QED
            BY <3>5, <3>6
    <2> QED
        BY <2>1, <2>2
<1>2. CASE ~Kept(row)
    BY <1>2 DEF Recorded
<1>3. CASE Kept(row)
    <2>1. row \in RowSet
        BY <1>3 DEF Kept, Row, RowSet
    <2>2. Recorded(row) = Append(kept, row)
        BY <1>3 DEF Recorded
    <2> HIDE DEF kept, row
    <2>3. /\ Append(kept, row) \in Seq(RowSet) /\ Len(Append(kept, row)) = Len(kept) + 1
          /\ \A k \in 1..Len(kept) : Append(kept, row)[k] = kept[k]
          /\ Append(kept, row)[Len(kept) + 1] = row
        BY <1>1, <2>1, AppendProperties
    <2>4. /\ DOMAIN kept = 1..Len(kept) /\ Len(kept) \in Nat
          /\ DOMAIN Append(kept, row) = 1..(Len(kept) + 1)
        BY <1>1, <2>3, LenProperties
    <2>5. ASSUME NEW k \in DOMAIN Append(kept, row)
          PROVE  (\E j \in DOMAIN rows : Append(kept, row)[k] = rows[j]) \/ Append(kept, row)[k] = row
        <3>1. k \in 1..Len(kept) \/ k = Len(kept) + 1
            BY <2>4
        <3> QED
            BY <1>1, <2>3, <2>4, <3>1
    <2>6. /\ Recorded(row) \in Seq(RowSet)
          /\ \A k \in DOMAIN Recorded(row) :
                 (\E j \in DOMAIN rows : Recorded(row)[k] = rows[j]) \/ Recorded(row)[k] = row
        BY <2>2, <2>3, <2>5
    <2> QED
        BY <2>6 DEF row
<1> QED
    BY <1>2, <1>3

\* The row that answers for an intent is one of its rows.
LEMMA OldestLanded ==
    ASSUME TypeOK, NEW intent, Landed(intent) # {}
    PROVE  Oldest(Landed(intent)) \in Landed(intent)
<1>1. Landed(intent) \subseteq 1..Len(rows) /\ Len(rows) \in Nat
    BY LenProperties DEF Landed, TypeOK
<1>2. IsFiniteSet(Landed(intent)) /\ Landed(intent) \subseteq Int
    <2>1. IsFiniteSet(1..Len(rows))
        BY <1>1, FS_Interval
    <2> QED
        BY <1>1, <2>1, FS_Subset
<1>3. \E k \in Landed(intent) : \A m \in Landed(intent) : k <= m
    BY <1>2, Extremes
<1> QED
    BY <1>3 DEF Oldest

-----------------------------------------------------------------------------
(* What becomes of a call. *)

\* One call moves, to a state that calls have.
OnlyCall(c) == call' \in [Calls -> CallState] /\ \A d \in Calls \ {c} : call'[d] = call[d]

\* A call in progress is a record of its step.
LEMMA LiveShape == ASSUME TypeOK, NEW c \in Live PROVE c \in Calls /\ call[c] \in LiveCall
<1>1. c \in Calls /\ call[c] \in CallState /\ call[c].step \in Steps
    BY DEF Live, TypeOK
<1> QED
    BY <1>1 DEF CallState, Idle, Over, Steps, LiveCall

\* Such a record is of no call that waits or ended.
LEMMA LiveAre == ASSUME NEW c \in Calls PROVE call[c] \in LiveCall => c \in Live /\ call[c] # Idle /\ call[c] # Over
    BY DEF LiveCall, Live, Idle, Over, Steps

\* A call goes on, with all that it knows.
LEMMA Continued ==
    ASSUME TypeOK, NEW c \in Live, NEW step \in Steps, Continues(c, step)
    PROVE  /\ OnlyCall(c) /\ c \in Live' /\ call'[c] \in LiveCall
           /\ call'[c] = [call[c] EXCEPT !.step = step]
<1>1. c \in Calls /\ call[c] \in LiveCall /\ call \in [Calls -> CallState]
    BY LiveShape DEF TypeOK
<1> DEFINE v == [call[c] EXCEPT !.step = step]
<1>2. v \in LiveCall
    BY <1>1 DEF LiveCall
<1>3. v \in CallState
    BY <1>2 DEF CallState, LiveCall
<1>4. call' = [call EXCEPT ![c] = v]
    BY DEF Continues
<1> HIDE DEF v
<1>5. call'[c] = v /\ OnlyCall(c)
    BY <1>1, <1>3, <1>4 DEF OnlyCall
<1>6. c \in Live'
    BY <1>1, <1>2, <1>5 DEF Live, LiveCall
<1> QED
    BY <1>2, <1>5, <1>6 DEF v

\* The next attempt starts without a nonce.
LEMMA Freshened ==
    ASSUME TypeOK, NEW c \in Live, call[c].attempt <= MaxRetries, FreshAttempt(c)
    PROVE  /\ OnlyCall(c) /\ c \in Live' /\ call'[c] \in LiveCall
           /\ call'[c] = [call[c] EXCEPT !.step = FirstStep, !.nonce = None, !.issued = FALSE, !.attempt = @ + 1]
           /\ call'[c].step \in {"acquire", "populate"} /\ call'[c].attempt = call[c].attempt + 1
<1>1. c \in Calls /\ call[c] \in LiveCall /\ call \in [Calls -> CallState]
    BY LiveShape DEF TypeOK
<1> DEFINE v == [call[c] EXCEPT !.step = FirstStep, !.nonce = None, !.issued = FALSE, !.attempt = @ + 1]
<1>2. FirstStep \in {"acquire", "populate"} /\ call[c].attempt + 1 \in 1..(MaxRetries + 1)
    BY <1>1, RelayAssumption DEF FirstStep, LiveCall
<1>3. v \in LiveCall /\ v.step = FirstStep /\ v.attempt = call[c].attempt + 1
    BY <1>1, <1>2 DEF LiveCall, Steps
<1>4. v \in CallState
    BY <1>3 DEF CallState, LiveCall
<1>5. call' = [call EXCEPT ![c] = v]
    BY DEF FreshAttempt
<1> HIDE DEF v
<1>6. call'[c] = v /\ OnlyCall(c)
    BY <1>1, <1>4, <1>5 DEF OnlyCall
<1>7. c \in Live'
    BY <1>1, <1>2, <1>3, <1>6 DEF Live, Steps
<1> QED
    BY <1>2, <1>3, <1>6, <1>7 DEF v

\* An attempt takes a nonce, or a count.
LEMMA Took ==
    ASSUME TypeOK, NEW c \in Live, NEW v \in LiveCall, call' = [call EXCEPT ![c] = v]
    PROVE  OnlyCall(c) /\ c \in Live' /\ call'[c] = v
<1>1. c \in Calls /\ call \in [Calls -> CallState]
    BY LiveShape DEF TypeOK
<1>2. v \in CallState /\ v.step \in Steps
    BY DEF CallState, LiveCall
<1>3. call'[c] = v /\ OnlyCall(c)
    BY <1>1, <1>2 DEF OnlyCall
<1>4. c \in Live'
    BY <1>1, <1>2, <1>3 DEF Live
<1> QED
    BY <1>3, <1>4

\* A call that ends says "executed" only when it was told so, and so does the
\* row it writes.
Settled(c, intent, ok) ==
    /\ OnlyCall(c) /\ c \notin Live' /\ call'[c] # Idle
    /\ call'[c] # Over => ok /\ call'[c].step = "done" /\ call'[c].intent = intent
    /\ rows' \in Seq(RowSet)
    /\ \A k \in DOMAIN rows' :
           \/ \E j \in DOMAIN rows : rows'[k] = rows[j]
           \/ rows'[k].intent = intent /\ (rows'[k].status = "confirmed" => ok)

\* The end of a call, its ledger row written or lost.
LEMMA EndsSettles ==
    ASSUME TypeOK, NEW c \in Calls, NEW s \in Servers, NEW intent \in Intents, NEW day \in 0..MaxDay,
           NEW hash, hash = <<>> \/ hash \in Calls \X Nat, NEW ok \in BOOLEAN,
           Ends(c, s, intent, day, hash, ok)
    PROVE  /\ Settled(c, intent, ok)
           /\ call'[c] # Over => call'[c].server = s /\ call'[c].day = day
<1> DEFINE status == IF ok THEN "confirmed" ELSE "failed"
           row == Row(intent, hash, status)
           v == Done(s, intent, day, ok)
<1>1. call \in [Calls -> CallState] /\ rows \in Seq(RowSet)
    BY DEF TypeOK, RowSet
<1>2. /\ v \in CallState /\ v # Idle /\ v.step \notin Steps
      /\ v # Over => ok /\ v.step = "done" /\ v.intent = intent /\ v.server = s /\ v.day = day
    BY DEF Done, CallState, Over, Idle, Steps
<1>3. Over \in CallState /\ Over # Idle /\ Over.step \notin Steps
    BY DEF CallState, Over, Idle, Steps
<1>4. \/ rows' = Recorded(row) /\ call' = [call EXCEPT ![c] = v]
      \/ rows' = rows /\ call' = [call EXCEPT ![c] = Over]
    BY DEF Ends
<1>5. row.intent = intent /\ (row.status = "confirmed" => ok)
    BY DEF Row
<1> HIDE DEF v
<1>6. /\ OnlyCall(c) /\ call'[c] \in {v, Over}
    BY <1>1, <1>2, <1>3, <1>4 DEF OnlyCall
<1>7. c \notin Live' /\ call'[c] # Idle
    BY <1>2, <1>3, <1>6 DEF Live
<1>8. /\ rows' \in Seq(RowSet)
      /\ \A k \in DOMAIN rows' : (\E j \in DOMAIN rows : rows'[k] = rows[j]) \/ rows'[k] = row
    <2>1. /\ Recorded(row) \in Seq(RowSet)
          /\ \A k \in DOMAIN Recorded(row) :
                 (\E j \in DOMAIN rows : Recorded(row)[k] = rows[j]) \/ Recorded(row)[k] = row
        BY <1>1, RecordedRows
    <2> HIDE DEF row
    <2> QED
        BY <1>1, <1>4, <2>1
<1> HIDE DEF row
<1> QED
    BY <1>2, <1>5, <1>6, <1>7, <1>8 DEF Settled

UsedOK(u) == u \in [Servers -> [day: 0..MaxDay, total: 0..MaxDaily]]

\* What is reserved fits, and what is given back was there.
LEMMA BucketTyped ==
    ASSUME TypeOK, NEW s \in Servers, NEW intent \in Intents
    PROVE  /\ Total(s) \in 0..MaxDaily
           /\ Amount[intent] \in Nat
           /\ UsedOK(GivenBack(s, intent))
           /\ Fits(s, intent) => UsedOK(Reserved(s, intent))
           /\ UsedOK([used EXCEPT ![s] = [day |-> today, total |-> Total(s)]])
<1> USE RelayAssumption
<1>1. /\ used \in [Servers -> [day: 0..MaxDay, total: 0..MaxDaily]] /\ today \in 0..MaxDay
      /\ used[s] \in [day: 0..MaxDay, total: 0..MaxDaily] /\ Amount[intent] \in Nat
    BY DEF TypeOK
<1>2. Total(s) \in 0..MaxDaily
    BY <1>1 DEF Total
<1>3. UsedOK(GivenBack(s, intent))
    <2> DEFINE left == IF used[s].total < Amount[intent] THEN 0 ELSE used[s].total - Amount[intent]
    <2>1. left \in 0..MaxDaily
        BY <1>1
    <2>2. [used[s] EXCEPT !.total = left] \in [day: 0..MaxDay, total: 0..MaxDaily]
        BY <1>1, <2>1
    <2>3. [used EXCEPT ![s].total = left] = [used EXCEPT ![s] = [used[s] EXCEPT !.total = left]]
        OBVIOUS
    <2>4. GivenBack(s, intent) = IF used[s].day # today THEN used ELSE [used EXCEPT ![s].total = left]
        BY DEF GivenBack
    <2> HIDE DEF left
    <2> QED
        BY <1>1, <2>2, <2>3, <2>4 DEF UsedOK
<1>4. ASSUME Fits(s, intent) PROVE UsedOK(Reserved(s, intent))
    <2>1. Total(s) + Amount[intent] \in 0..MaxDaily
        BY <1>1, <1>2, <1>4 DEF Fits
    <2>2. [day |-> today, total |-> Total(s) + Amount[intent]] \in [day: 0..MaxDay, total: 0..MaxDaily]
        BY <1>1, <2>1
    <2> QED
        BY <1>1, <2>2 DEF UsedOK, Reserved
<1>5. UsedOK([used EXCEPT ![s] = [day |-> today, total |-> Total(s)]])
    <2>1. [day |-> today, total |-> Total(s)] \in [day: 0..MaxDay, total: 0..MaxDaily]
        BY <1>1, <1>2
    <2> QED
        BY <1>1, <2>1 DEF UsedOK
<1> QED
    BY <1>1, <1>2, <1>3, <1>4, <1>5

\* An answer settles its call.
LEMMA AnswerSettles ==
    ASSUME TypeOK, NEW c \in Live, NEW hash, hash = <<>> \/ hash = Hash(c), NEW ok \in BOOLEAN,
           Answer(c, hash, ok)
    PROVE  /\ Settled(c, call[c].intent, ok) /\ UsedOK(used') /\ crossed' \in BOOLEAN
           /\ call'[c] # Over => call'[c].server = call[c].server /\ call'[c].day = call[c].day
<1>1. c \in Calls /\ call[c] \in LiveCall
    BY LiveShape
<1>2. /\ call[c].server \in Servers /\ call[c].intent \in Intents /\ call[c].day \in 0..MaxDay
      /\ Hash(c) \in Calls \X Nat
    BY <1>1, RelayAssumption DEF LiveCall, Hash
<1>3. Ends(c, call[c].server, call[c].intent, call[c].day, hash, ok)
    BY DEF Answer
<1>4. UsedOK(used') /\ crossed' \in BOOLEAN
    <2>1. UsedOK(GivenBack(call[c].server, call[c].intent))
        BY <1>2, BucketTyped
    <2> QED
        BY <2>1 DEF Answer, TypeOK, UsedOK
<1> QED
    BY <1>1, <1>2, <1>3, <1>4, EndsSettles

-----------------------------------------------------------------------------
(* The types. *)

\* Of the states of a call, the step tells which are in progress.
LEMMA ShapeOf == ASSUME NEW v \in CallState, v.step \in Steps PROVE v \in LiveCall
    BY DEF CallState, Idle, Over, Steps, LiveCall

\* What a step of one call does to the types.
OneCallTypes(c) ==
    /\ OnlyCall(c)
    /\ c \in Live' =>
           /\ call'[c].step \in {"count", "sync", "recheck"} => call'[c].attempt <= MaxRetries
           /\ call'[c].step \in {"send", "sync"} => call'[c].nonce \in Nat
    /\ next' \in Nat /\ rows' \in Seq(RowSet) /\ UsedOK(used') /\ crossed' \in BOOLEAN
    /\ mempool' \subseteq mempool \cup {Tx(c)}
    /\ mempool' = mempool \/ (c \in Live /\ call[c].step = "send")
    /\ abandoned' = abandoned \/ (c \in Live /\ call[c].step = "send" /\ abandoned' = Forsaken(c))
    /\ UNCHANGED <<coordinated, today, eoaNonce, mined, executed>>

\* Types after a step of one call.
LEMMA TypesStay ==
    ASSUME TypeOK, StepsOK, NEW c \in Calls, OneCallTypes(c)
    PROVE  TypeOK' /\ StepsOK'
<1> USE DEF OneCallTypes
<1>1. c \in Live /\ call[c].step = "send" => call[c].nonce \in Nat /\ call[c] \in LiveCall
    BY LiveShape DEF StepsOK
<1>2. mempool' \subseteq [nonce: Nat, issued: BOOLEAN, intent: Intents, hash: Calls \X Nat]
    <2>1. CASE mempool' = mempool
        BY <2>1 DEF TypeOK
    <2>2. CASE c \in Live /\ call[c].step = "send"
        <3>1. call[c].attempt \in Nat
            BY <1>1, <2>2, RelayAssumption DEF LiveCall
        <3>2. Tx(c) \in [nonce: Nat, issued: BOOLEAN, intent: Intents, hash: Calls \X Nat]
            BY <1>1, <2>2, <3>1 DEF Tx, Hash, LiveCall
        <3> QED
            BY <3>2 DEF TypeOK
    <2> QED
        BY <2>1, <2>2
<1>3. abandoned' \subseteq Nat
    BY <1>1 DEF TypeOK, Forsaken
<1>4. TypeOK'
    BY <1>2, <1>3 DEF TypeOK, OnlyCall, UsedOK, RowSet
<1>5. StepsOK'
    <2> SUFFICES ASSUME NEW d \in Live'
                 PROVE  /\ call'[d].step \in {"count", "sync", "recheck"} => call'[d].attempt <= MaxRetries
                        /\ call'[d].step \in {"send", "sync"} => call'[d].nonce \in Nat
        BY DEF StepsOK
    <2>1. CASE d = c
        BY <2>1
    <2>2. CASE d # c
        BY <2>2 DEF OnlyCall, StepsOK, Live
    <2> QED
        BY <2>1, <2>2
<1> QED
    BY <1>4, <1>5

-----------------------------------------------------------------------------
(* The nonces. *)

\* What a step of one call does to the nonces: what it held is kept track of,
\* and what it holds is new.
Keeps(c) == mempool' = mempool /\ abandoned' = abandoned /\ (HeldBy(c) => ~NonceFree(call[c].nonce))
Sends(c) ==
    /\ c \in Live /\ call[c].step = "send" /\ NonceFree(call[c].nonce)
    /\ mempool' = mempool \cup {Tx(c)} /\ abandoned' = abandoned
Drops(c) == HeldBy(c) /\ mempool' = mempool /\ abandoned' = abandoned \cup {call[c].nonce}

Moves(c) == Keeps(c) \/ Sends(c) \/ Drops(c)

OneCallNonces(c) ==
    /\ OnlyCall(c) /\ call'[c] # Idle /\ call[c] \in LiveCall \cup {Idle}
    /\ UNCHANGED <<eoaNonce, mined>>
    /\ next' \in Nat /\ next <= next'
    /\ Moves(c)
    /\ \A k \in Nat : eoaNonce <= k /\ next <= k /\ k < next' =>
           InMempool(k) \/ (HeldBy(c)' /\ call'[c].nonce = k)
    /\ HeldBy(c)' => call'[c].nonce = next /\ next < next'
    /\ c \in Live' =>
           /\ call[c] # Idle => call[c].attempt <= call'[c].attempt
           /\ call'[c].step \in Unsent =>
                  \/ call[c] = Idle
                  \/ call[c].attempt < call'[c].attempt
                  \/ call[c].step \in {"acquire", "populate"}
           /\ call'[c].step = "sync" \/ (call'[c].step = "send" /\ ~call'[c].issued) => Filled(call'[c].nonce)

\* Nonces after a step of one call: what it raises the counter past is pending
\* or its own.
LEMMA NoncesStay ==
    ASSUME RInv, NEW c \in Calls, OneCallNonces(c), OneCallTypes(c)
    PROVE  NonceInv'
<1> USE DEF OneCallNonces, OnlyCall, RInv, NonceInv, Moves
<1>0. TypeOK /\ TypeOK' /\ StepsOK /\ StepsOK'
    BY TypesStay
<1>1. /\ next \in Nat /\ eoaNonce \in Nat /\ next' \in Nat
      /\ \A tx \in Broadcast : tx.nonce \in Nat /\ tx.issued \in BOOLEAN /\ tx.hash \in Calls \X Nat
      /\ \A n \in abandoned : n \in Nat
    BY <1>0 DEF TypeOK, Broadcast
<1>2. c \in Live => call[c] \in LiveCall /\ call[c].attempt \in Nat
    BY <1>0, LiveShape, RelayAssumption DEF LiveCall
<1>3. c \in Live' => call'[c] \in LiveCall /\ call'[c].attempt \in Nat
    <2>1. call' \in [Calls -> CallState] /\ (c \in Live' => call'[c].step \in Steps)
        BY DEF Live
    <2>2. c \in Live' => call'[c] \in LiveCall
        BY <2>1, ShapeOf
    <2> QED
        BY <2>2, RelayAssumption DEF LiveCall
<1>4. call[c] = Idle \/ c \in Live
    BY LiveAre
<1>5. c \in Live => call[c] # Idle
    BY <1>2, LiveAre
<1>6. HeldBy(c) => c \in Live /\ call[c].nonce \in Nat
    BY <1>0, <1>4 DEF HeldBy, Idle, StepsOK, Live
<1>7. /\ Tx(c).nonce = call[c].nonce /\ Tx(c).issued = call[c].issued
      /\ Tx(c).hash = Hash(c) /\ Hash(c)[1] = c /\ Hash(c)[2] = call[c].attempt
    BY DEF Tx, Hash
<1>8. \A tx \in Broadcast' : tx \in Broadcast \/ (tx = Tx(c) /\ Sends(c))
    BY DEF Broadcast, Keeps, Sends, Drops
<1>9. \A d \in Calls \ {c} : (d \in Live' <=> d \in Live) /\ (HeldBy(d)' <=> HeldBy(d))
    BY DEF Live, HeldBy
<1>10. AttemptsFresh'
    <2> SUFFICES ASSUME NEW tx \in Broadcast', NEW d, d = tx.hash[1]
                 PROVE  /\ call'[d] # Idle
                        /\ d \in Live' =>
                               /\ tx.hash[2] <= call'[d].attempt
                               /\ call'[d].step \in Unsent => tx.hash[2] < call'[d].attempt
        BY DEF AttemptsFresh
    <2>1. CASE tx = Tx(c) /\ Sends(c)
        <3>1. d = c /\ c \in Live /\ call[c].step = "send" /\ tx.hash[2] = call[c].attempt
            BY <1>7, <2>1 DEF Sends
        <3> QED
            BY <1>2, <1>3, <1>5, <3>1 DEF Unsent
    <2>2. CASE tx \in Broadcast
        <3>1. d \in Calls /\ tx.hash[2] \in Nat
            BY <1>1, <2>2
        <3>2. /\ call[d] # Idle
              /\ d \in Live =>
                     /\ tx.hash[2] <= call[d].attempt
                     /\ call[d].step \in Unsent => tx.hash[2] < call[d].attempt
            BY <2>2 DEF AttemptsFresh
        <3>3. CASE d # c
            BY <1>9, <3>1, <3>2, <3>3
        <3>4. CASE d = c
            BY <1>2, <1>3, <1>4, <3>1, <3>2, <3>4 DEF Unsent
        <3> QED
            BY <3>3, <3>4
    <2> QED
        BY <1>8, <2>1, <2>2
<1>11. Sends(c) /\ call[c].issued => HeldBy(c)
    BY DEF Sends, HeldBy
<1>12. CounterAhead'
    <2>1. ASSUME NEW d \in Calls, HeldBy(d)' PROVE call'[d].nonce < next' /\ call'[d].nonce \notin abandoned'
        <3>1. CASE d = c
            <4>1. next \notin abandoned
                BY <1>1 DEF CounterAhead
            <4>2. next \notin abandoned'
                BY <1>1, <4>1 DEF CounterAhead, Keeps, Sends, Drops
            <4> QED
                BY <2>1, <3>1, <4>2
        <3>2. CASE d # c
            <4>1. HeldBy(d) /\ call'[d] = call[d] /\ call[d].nonce < next /\ call[d].nonce \notin abandoned
                BY <1>9, <2>1, <3>2 DEF CounterAhead
            <4>2. call[d].nonce \in Nat
                BY <1>0, <4>1 DEF HeldBy, StepsOK, Live, Steps
            <4>3. HeldBy(c) => call[c].nonce # call[d].nonce
                BY <3>2, <4>1 DEF OneHolder
            <4> QED
                BY <1>1, <4>1, <4>2, <4>3 DEF Keeps, Sends, Drops
        <3> QED
            BY <3>1, <3>2
    <2>2. ASSUME NEW tx \in Broadcast', tx.issued PROVE tx.nonce < next' /\ tx.nonce \notin abandoned'
        <3>1. CASE tx \in Broadcast
            <4>1. tx.nonce < next /\ tx.nonce \notin abandoned /\ tx.nonce \in Nat
                BY <1>1, <2>2, <3>1 DEF CounterAhead
            <4>2. HeldBy(c) => call[c].nonce # tx.nonce
                BY <2>2, <3>1 DEF OneHolder
            <4> QED
                BY <1>1, <4>1, <4>2 DEF Keeps, Sends, Drops
        <3>2. CASE tx = Tx(c) /\ Sends(c)
            <4>1. HeldBy(c) /\ tx.nonce = call[c].nonce /\ abandoned' = abandoned
                BY <1>7, <1>11, <2>2, <3>2 DEF Sends
            <4> QED
                BY <1>1, <1>6, <4>1 DEF CounterAhead
        <3> QED
            BY <1>8, <3>1, <3>2
    <2>3. ASSUME NEW n \in abandoned' PROVE n < next'
        <3>1. n \in abandoned \/ (HeldBy(c) /\ n = call[c].nonce)
            BY DEF Keeps, Sends, Drops
        <3> QED
            BY <1>1, <1>6, <3>1 DEF CounterAhead
    <2> QED
        BY <2>1, <2>2, <2>3 DEF CounterAhead
<1>13. OneHolder'
    <2>1. ASSUME NEW d \in Calls, HeldBy(d)', NEW e \in Calls, HeldBy(e)', call'[d].nonce = call'[e].nonce
          PROVE  d = e
        <3>1. ASSUME NEW f \in Calls, f # c, HeldBy(f)' PROVE call'[f].nonce < next /\ call'[f].nonce \in Nat
            <4>1. HeldBy(f) /\ call'[f] = call[f]
                BY <1>9, <3>1
            <4> QED
                BY <1>0, <4>1 DEF CounterAhead, HeldBy, StepsOK, Live, Steps
        <3>2. CASE d = c /\ e # c
            BY <1>1, <2>1, <3>1, <3>2
        <3>3. CASE e = c /\ d # c
            BY <1>1, <2>1, <3>1, <3>3
        <3>4. CASE d # c /\ e # c
            BY <1>9, <2>1, <3>4 DEF OneHolder
        <3> QED
            BY <3>2, <3>3, <3>4
    <2>2. ASSUME NEW d \in Calls, HeldBy(d)', NEW tx \in Broadcast', tx.issued
          PROVE  call'[d].nonce # tx.nonce
        <3>1. CASE tx \in Broadcast
            <4>1. CASE d = c
                BY <1>1, <2>2, <3>1, <4>1 DEF CounterAhead
            <4>2. CASE d # c
                BY <1>9, <2>2, <3>1, <4>2 DEF OneHolder
            <4> QED
                BY <4>1, <4>2
        <3>2. CASE tx = Tx(c) /\ Sends(c)
            <4>1. HeldBy(c) /\ tx.nonce = call[c].nonce
                BY <1>7, <1>11, <2>2, <3>2
            <4>2. CASE d = c
                BY <1>1, <1>6, <2>2, <4>1, <4>2 DEF CounterAhead
            <4>3. CASE d # c
                BY <1>9, <2>2, <4>1, <4>3 DEF OneHolder
            <4> QED
                BY <4>2, <4>3
        <3> QED
            BY <1>8, <3>1, <3>2
    <2>3. ASSUME NEW t \in Broadcast', NEW u \in Broadcast', t.issued, u.issued, t.nonce = u.nonce
          PROVE  t.hash = u.hash
        <3>1. CASE t \in Broadcast /\ u \in Broadcast
            BY <2>3, <3>1 DEF OneHolder
        <3>2. CASE t \in Broadcast /\ u = Tx(c) /\ Sends(c)
            BY <1>7, <1>11, <2>3, <3>2 DEF OneHolder
        <3>3. CASE u \in Broadcast /\ t = Tx(c) /\ Sends(c)
            BY <1>7, <1>11, <2>3, <3>3 DEF OneHolder
        <3> QED
            BY <1>8, <3>1, <3>2, <3>3
    <2> QED
        BY <2>1, <2>2, <2>3 DEF OneHolder
<1>14. \A k \in Nat : InMempool(k) => InMempool(k)'
    BY DEF InMempool, Keeps, Sends, Drops
<1>15. \A n : Filled(n) => Filled(n)'
    BY <1>14 DEF Filled
<1>16. NoSilentGap'
    <2>1. ASSUME NEW k \in Nat, eoaNonce <= k, k < next'
          PROVE  \/ InMempool(k)' \/ k \in abandoned'
                 \/ \E d \in Calls : HeldBy(d)' /\ call'[d].nonce = k
        <3>1. CASE k < next
            <4>1. abandoned \subseteq abandoned'
                BY DEF Keeps, Sends, Drops
            <4>2. CASE InMempool(k) \/ k \in abandoned
                BY <1>14, <4>1, <4>2
            <4>3. CASE \E d \in Calls : HeldBy(d) /\ call[d].nonce = k
                <5> PICK d \in Calls : HeldBy(d) /\ call[d].nonce = k
                    BY <4>3
                <5>1. CASE d # c
                    BY <1>9, <5>1
                <5>2. CASE d = c /\ Keeps(c)
                    <6>1. ~NonceFree(k)
                        BY <5>2 DEF Keeps
                    <6>2. InMempool(k)
                        BY <1>1, <2>1, <6>1 DEF NonceFree, InMempool
                    <6> QED
                        BY <1>14, <6>2
                <5>3. CASE d = c /\ Sends(c)
                    BY <1>7, <5>3 DEF Sends, InMempool
                <5>4. CASE d = c /\ Drops(c)
                    BY <5>4 DEF Drops
                <5> QED
                    BY <5>1, <5>2, <5>3, <5>4
            <4> QED
                BY <2>1, <3>1, <4>2, <4>3 DEF NoSilentGap
        <3>2. CASE next <= k
            BY <1>14, <2>1, <3>2
        <3> QED
            BY <1>1, <3>1, <3>2
    <2>2. ASSUME NEW d \in Live',
                 call'[d].step = "sync" \/ (call'[d].step = "send" /\ ~call'[d].issued)
          PROVE  Filled(call[d].nonce)'
        <3>1. CASE d = c
            <4>1. Filled(call'[d].nonce)
                BY <2>2, <3>1
            <4> QED
                BY <1>14, <4>1 DEF Filled
        <3>2. CASE d # c
            <4>1. d \in Calls /\ d \in Live /\ call'[d] = call[d]
                BY <2>2, <3>2, <1>9 DEF Live
            <4>2. Filled(call[d].nonce)
                BY <2>2, <4>1 DEF NoSilentGap
            <4> QED
                BY <1>14, <4>1, <4>2 DEF Filled
        <3> QED
            BY <3>1, <3>2
    <2>3. ASSUME NEW tx \in mempool', ~tx.issued PROVE Filled(tx.nonce)'
        <3>1. CASE tx \in mempool
            BY <1>15, <2>3, <3>1 DEF NoSilentGap
        <3>2. CASE tx = Tx(c) /\ Sends(c)
            BY <1>7, <1>15, <2>3, <3>2 DEF NoSilentGap, Sends
        <3> QED
            BY <3>1, <3>2 DEF Keeps, Sends, Drops
    <2> QED
        BY <2>1, <2>2, <2>3 DEF NoSilentGap
<1> QED
    BY <1>10, <1>12, <1>13, <1>16

-----------------------------------------------------------------------------
(* The steps of a call. *)

\* What a call that moves leaves alone.
Aside == UNCHANGED <<coordinated, today, eoaNonce, mined, executed>>

\* What is sent, or dropped, is what a call is about to send.
LEMMA MovesTypes ==
    ASSUME RInv, NEW c \in Calls, Moves(c)
    PROVE  /\ mempool' \subseteq mempool \cup {Tx(c)}
           /\ mempool' = mempool \/ (c \in Live /\ call[c].step = "send")
           /\ abandoned' = abandoned \/ (c \in Live /\ call[c].step = "send" /\ abandoned' = Forsaken(c))
<1>1. HeldBy(c) => c \in Live /\ call[c].step = "send" /\ call[c].issued
    BY DEF HeldBy, Live, Steps
<1> QED
    BY <1>1 DEF Moves, Keeps, Sends, Drops, Forsaken

\* A call that goes on takes no nonce.
LEMMA ContinuesSteps ==
    ASSUME RInv, NEW c \in Live, NEW step \in {"populate", "wait", "count", "recheck"}, Continues(c, step),
           Moves(c), Aside, UNCHANGED <<next, rows, used, crossed>>,
           step = "populate" => call[c].step = "acquire",
           step \in {"count", "recheck"} => call[c].attempt <= MaxRetries
    PROVE  OneCallTypes(c) /\ OneCallNonces(c)
<1> USE DEF Aside
<1>1. step \in Steps /\ TypeOK
    BY DEF Steps, RInv
<1>2. /\ OnlyCall(c) /\ c \in Live' /\ call'[c] \in LiveCall
      /\ call'[c] = [call[c] EXCEPT !.step = step]
    BY <1>1, Continued
<1>3. c \in Calls /\ call[c] \in LiveCall
    BY <1>1, LiveShape
<1>4. call'[c].step = step /\ call'[c].attempt = call[c].attempt
    BY <1>2, <1>3 DEF LiveCall
<1>5. call'[c] # Idle
    BY <1>2 DEF LiveCall, Idle
<1>6. next \in Nat /\ rows \in Seq(RowSet) /\ UsedOK(used) /\ crossed \in BOOLEAN
    BY <1>1 DEF TypeOK, RowSet, UsedOK
<1>7. ~HeldBy(c)'
    BY <1>4 DEF HeldBy
<1>8. call[c].attempt \in Nat
    BY <1>3, RelayAssumption DEF LiveCall
<1>9. OneCallTypes(c)
    BY <1>2, <1>3, <1>4, <1>6, MovesTypes DEF OneCallTypes
<1>10. OneCallNonces(c)
    BY <1>2, <1>3, <1>4, <1>5, <1>6, <1>7, <1>8 DEF OneCallNonces, Unsent
<1> QED
    BY <1>9, <1>10

\* The next attempt has no nonce yet.
LEMMA FreshSteps ==
    ASSUME RInv, NEW c \in Live, call[c].attempt <= MaxRetries, FreshAttempt(c), Moves(c), Aside,
           UNCHANGED <<rows, used, crossed>>, next' \in Nat, next <= next',
           \A k \in Nat : eoaNonce <= k /\ next <= k /\ k < next' => InMempool(k)
    PROVE  OneCallTypes(c) /\ OneCallNonces(c)
<1> USE DEF Aside
<1>1. TypeOK
    BY DEF RInv
<1>2. /\ OnlyCall(c) /\ c \in Live' /\ call'[c] \in LiveCall
      /\ call'[c].step \in {"acquire", "populate"} /\ call'[c].attempt = call[c].attempt + 1
    BY <1>1, Freshened
<1>3. c \in Calls /\ call[c] \in LiveCall
    BY <1>1, LiveShape
<1>5. call'[c] # Idle
    BY <1>2 DEF LiveCall, Idle
<1>6. rows \in Seq(RowSet) /\ UsedOK(used) /\ crossed \in BOOLEAN
    BY <1>1 DEF TypeOK, RowSet, UsedOK
<1>7. ~HeldBy(c)'
    BY <1>2 DEF HeldBy
<1>8. call[c].attempt \in Nat
    BY <1>3, RelayAssumption DEF LiveCall
<1>9. OneCallTypes(c)
    BY <1>2, <1>3, <1>6, MovesTypes DEF OneCallTypes
<1>10. OneCallNonces(c)
    BY <1>2, <1>3, <1>5, <1>7, <1>8 DEF OneCallNonces, Unsent
<1> QED
    BY <1>9, <1>10

\* A call that ends holds nothing any more.
LEMMA AnswerSteps ==
    ASSUME RInv, NEW c \in Live, NEW hash, hash = <<>> \/ hash = Hash(c), NEW ok \in BOOLEAN,
           Answer(c, hash, ok), Moves(c), Aside, UNCHANGED next
    PROVE  OneCallTypes(c) /\ OneCallNonces(c)
<1> USE DEF Aside
<1>1. TypeOK
    BY DEF RInv
<1>2. /\ Settled(c, call[c].intent, ok) /\ UsedOK(used') /\ crossed' \in BOOLEAN
    BY <1>1, AnswerSettles
<1>3. c \in Calls /\ call[c] \in LiveCall
    BY <1>1, LiveShape
<1>4. OnlyCall(c) /\ c \notin Live' /\ call'[c] # Idle /\ rows' \in Seq(RowSet)
    BY <1>2 DEF Settled
<1>5. ~HeldBy(c)'
    BY <1>3, <1>4 DEF HeldBy, Live, Steps
<1>6. next \in Nat
    BY <1>1 DEF TypeOK
<1>7. OneCallTypes(c)
    BY <1>2, <1>3, <1>4, <1>6, MovesTypes DEF OneCallTypes
<1>8. OneCallNonces(c)
    BY <1>3, <1>4, <1>5, <1>6 DEF OneCallNonces
<1> QED
    BY <1>7, <1>8

\* Whichever way a nonce is let go, it is accounted for.
LEMMA LetGo ==
    ASSUME RInv, NEW c \in Calls, call[c].step = "send"
    PROVE  /\ mempool' = mempool /\ abandoned' = Forsaken(c) => Moves(c)
           /\ NonceFree(call[c].nonce) /\ mempool' = mempool \cup {Tx(c)} /\ abandoned' = abandoned => Moves(c)
           /\ ~NonceFree(call[c].nonce) /\ mempool' = mempool /\ abandoned' = abandoned => Moves(c)
<1>1. c \in Live
    BY DEF Live, Steps
<1>2. CASE call[c].issued
    BY <1>1, <1>2 DEF Moves, Keeps, Sends, Drops, HeldBy, Forsaken
<1>3. CASE ~call[c].issued
    BY <1>1, <1>3 DEF Moves, Keeps, Sends, Drops, HeldBy, Forsaken
<1> QED
    BY <1>2, <1>3

OneCall(c) == OneCallTypes(c) /\ OneCallNonces(c)

\* The gate, the reservation and the dedupe touch no nonce.
LEMMA StartSteps ==
    ASSUME RInv, NEW c \in Calls, NEW s \in Servers, NEW intent \in Intents, Start(c, s, intent)
    PROVE  OneCall(c)
<1>1. TypeOK
    BY DEF RInv
<1>2. /\ call[c] = Idle /\ Fits(s, intent) /\ UNCHANGED <<coordinated, next, today, chain, abandoned, crossed>>
    BY DEF Start
<1>3. c \notin Live /\ ~HeldBy(c) /\ call[c] \notin LiveCall
    BY <1>2 DEF Live, HeldBy, Idle, Steps, LiveCall
<1>4. Keeps(c)
    BY <1>2, <1>3 DEF Keeps
<1>5. /\ UsedOK(Reserved(s, intent)) /\ UsedOK([used EXCEPT ![s] = [day |-> today, total |-> Total(s)]])
    BY <1>1, <1>2, BucketTyped
<1>6. next \in Nat /\ crossed \in BOOLEAN /\ rows \in Seq(RowSet) /\ call \in [Calls -> CallState] /\ today \in 0..MaxDay
    BY <1>1 DEF TypeOK, RowSet
<1>7. CASE /\ call' = [call EXCEPT ![c] =
                [step |-> FirstStep, server |-> s, intent |-> intent, day |-> today, attempt |-> 1, nonce |-> None, issued |-> FALSE]]
           /\ used' = Reserved(s, intent) /\ UNCHANGED rows
    <2> DEFINE v == [step |-> FirstStep, server |-> s, intent |-> intent, day |-> today, attempt |-> 1, nonce |-> None, issued |-> FALSE]
    <2>1. v \in LiveCall /\ v.step \in {"acquire", "populate"}
        BY <1>6, RelayAssumption DEF LiveCall, FirstStep, Steps
    <2>2. v \in CallState /\ v # Idle
        BY <2>1 DEF LiveCall, CallState, Idle
    <2> HIDE DEF v
    <2>3. OnlyCall(c) /\ call'[c] = v
        BY <1>6, <1>7, <2>2 DEF OnlyCall, v
    <2>4. ~HeldBy(c)'
        BY <2>1, <2>3 DEF HeldBy
    <2>5. OneCallTypes(c)
        BY <1>2, <1>4, <1>5, <1>6, <1>7, <2>1, <2>3 DEF OneCallTypes, Keeps
    <2>6. OneCallNonces(c)
        BY <1>2, <1>4, <1>6, <2>1, <2>2, <2>3, <2>4 DEF OneCallNonces, Moves
    <2> QED
        BY <2>5, <2>6 DEF OneCall
<1>8. CASE /\ call' = [call EXCEPT ![c] = Over] /\ used' = Reserved(s, intent) /\ UNCHANGED rows
    <2>1. Over \in CallState /\ Over # Idle /\ Over.step \notin Steps
        BY DEF Over, Idle, CallState, Steps
    <2>2. OnlyCall(c) /\ call'[c] = Over
        BY <1>6, <1>8, <2>1 DEF OnlyCall
    <2>3. ~HeldBy(c)' /\ c \notin Live'
        BY <2>1, <2>2 DEF HeldBy, Live, Steps
    <2>4. OneCallTypes(c)
        BY <1>2, <1>4, <1>5, <1>6, <1>8, <2>2, <2>3 DEF OneCallTypes, Keeps
    <2>5. OneCallNonces(c)
        BY <1>2, <1>4, <1>6, <2>1, <2>2, <2>3 DEF OneCallNonces, Moves
    <2> QED
        BY <2>4, <2>5 DEF OneCall
<1>9. CASE /\ Landed(intent) # {}
           /\ LET row == rows[Oldest(Landed(intent))]
                  ok == row.status = "confirmed"
              IN  /\ Ends(c, s, intent, today, row.hash, ok)
                  /\ used' = IF ok THEN Reserved(s, intent) ELSE [used EXCEPT ![s] = [day |-> today, total |-> Total(s)]]
    <2> DEFINE row == rows[Oldest(Landed(intent))]
               ok == row.status = "confirmed"
    <2>1. Oldest(Landed(intent)) \in Landed(intent)
        BY <1>1, <1>9, OldestLanded
    <2>2. row \in RowSet
        BY <1>6, <2>1, ElementOfSeq DEF Landed
    <2>3. row.hash \in Calls \X Nat /\ ok \in BOOLEAN
        BY <2>2 DEF RowSet
    <2>4. Ends(c, s, intent, today, row.hash, ok) /\ UsedOK(used')
        BY <1>5, <1>9
    <2> HIDE DEF row, ok
    <2>5. Settled(c, intent, ok)
        BY <1>1, <1>6, <2>3, <2>4, EndsSettles
    <2>6. OnlyCall(c) /\ c \notin Live' /\ call'[c] # Idle /\ rows' \in Seq(RowSet)
        BY <2>5 DEF Settled
    <2>7. ~HeldBy(c)'
        BY <2>6 DEF HeldBy, Live, Steps
    <2>8. OneCallTypes(c)
        BY <1>2, <1>4, <1>6, <2>4, <2>6 DEF OneCallTypes, Keeps
    <2>9. OneCallNonces(c)
        BY <1>2, <1>4, <1>6, <2>6, <2>7 DEF OneCallNonces, Moves
    <2> QED
        BY <2>8, <2>9 DEF OneCall
<1> QED
    BY <1>7, <1>8, <1>9 DEF Start
\* The counter hands out the nonce that it was at.
LEMMA AcquireSteps == ASSUME RInv, NEW c \in Calls, Acquire(c) PROVE OneCall(c)
<1>1. TypeOK /\ c \in Live /\ call[c].step = "acquire"
    BY DEF RInv, Acquire, Live, Steps
<1>2. ~HeldBy(c) /\ Moves(c) /\ Aside
    BY <1>1 DEF Acquire, HeldBy, Moves, Keeps, Aside
<1>3. /\ next \in Nat /\ rows \in Seq(RowSet) /\ UsedOK(used) /\ crossed \in BOOLEAN
      /\ call[c] \in LiveCall
    BY <1>1, LiveShape DEF TypeOK, RowSet, UsedOK
<1>4. CASE Continues(c, "populate") /\ UNCHANGED next
    BY <1>1, <1>2, <1>4, ContinuesSteps DEF OneCall, Acquire
<1>5. CASE /\ call' = [call EXCEPT ![c].step = "send", ![c].nonce = next, ![c].issued = TRUE]
           /\ next' = next + 1
    <2> DEFINE v == [call[c] EXCEPT !.step = "send", !.nonce = next, !.issued = TRUE]
    <2>1. /\ v \in LiveCall /\ v.step = "send" /\ v.nonce = next /\ v.issued = TRUE
          /\ v.attempt = call[c].attempt
        BY <1>3 DEF LiveCall, Steps
    <2>2. call' = [call EXCEPT ![c] = v]
        BY <1>5
    <2> HIDE DEF v
    <2>3. /\ OnlyCall(c) /\ c \in Live' /\ call'[c] = v
        BY <1>1, <2>1, <2>2, Took
    <2>4. call'[c] # Idle /\ call[c] # Idle
        BY <1>3, <2>1, <2>3 DEF LiveCall, Idle
    <2>5. HeldBy(c)' /\ call[c].attempt \in Nat
        BY <1>3, <2>1, <2>3, RelayAssumption DEF HeldBy, LiveCall
    <2>6. OneCallTypes(c)
        BY <1>1, <1>3, <1>5, <2>1, <2>3 DEF OneCallTypes, Acquire
    <2>7. next < next' /\ next' \in Nat /\ \A k \in Nat : next <= k /\ k < next' => call'[c].nonce = k
        BY <1>3, <1>5, <2>1, <2>3
    <2>8. c \in Live' =>
              /\ call[c] # Idle => call[c].attempt <= call'[c].attempt
              /\ ~(call'[c].step = "sync" \/ (call'[c].step = "send" /\ ~call'[c].issued))
        BY <2>1, <2>3, <2>5
    <2>9. OneCallNonces(c)
        BY <1>1, <1>2, <1>3, <2>1, <2>3, <2>4, <2>5, <2>7, <2>8 DEF OneCallNonces, Aside
    <2> QED
        BY <2>6, <2>9 DEF OneCall
<1> QED
    BY <1>4, <1>5 DEF Acquire, WriteAtomically

\* What the node counted is filled.
LEMMA CountedSteps ==
    ASSUME RInv, NEW c \in Live, NEW step \in {"send", "sync"},
           step = "send" => call[c].step = "populate",
           step = "sync" => call[c].step = "count",
           call' = [call EXCEPT ![c].step = step, ![c].nonce = PendingCount, ![c].issued = FALSE],
           UNCHANGED <<coordinated, store, used, today, chain, abandoned, crossed>>
    PROVE  OneCall(c)
<1>1. TypeOK
    BY DEF RInv
<1>2. ~HeldBy(c) /\ Moves(c)
    BY DEF HeldBy, Moves, Keeps
<1>3. /\ next \in Nat /\ rows \in Seq(RowSet) /\ UsedOK(used) /\ crossed \in BOOLEAN
      /\ call[c] \in LiveCall /\ c \in Calls
    BY <1>1, LiveShape DEF TypeOK, RowSet, UsedOK
<1>4. PendingCount \in Nat /\ Filled(PendingCount)
    BY <1>1, PendingCountFilled DEF TypeOK, RInv
<1> DEFINE v == [call[c] EXCEPT !.step = step, !.nonce = PendingCount, !.issued = FALSE]
<1>5. v \in LiveCall /\ v.step = step /\ v.nonce = PendingCount /\ v.issued = FALSE /\ v.attempt = call[c].attempt
    BY <1>3, <1>4 DEF LiveCall, Steps
<1>6. call' = [call EXCEPT ![c] = v]
    OBVIOUS
<1> HIDE DEF v
<1>7. OnlyCall(c) /\ c \in Live' /\ call'[c] = v
    BY <1>1, <1>5, <1>6, Took
<1>8. call'[c] # Idle
    BY <1>5, <1>7 DEF LiveCall, Idle
<1>9. ~HeldBy(c)' /\ call[c].attempt \in Nat
    BY <1>3, <1>5, <1>7, RelayAssumption DEF HeldBy, LiveCall
<1>10. step = "sync" => call[c].attempt <= MaxRetries
    BY DEF StepsOK, RInv
<1>11. OneCallTypes(c)
    BY <1>3, <1>4, <1>5, <1>7, <1>10 DEF OneCallTypes
<1>12. OneCallNonces(c)
    BY <1>2, <1>3, <1>4, <1>5, <1>7, <1>8, <1>9 DEF OneCallNonces, Unsent
<1> QED
    BY <1>11, <1>12 DEF OneCall

\* Without the counter the node's count is the nonce.
LEMMA PopulateSteps == ASSUME RInv, NEW c \in Calls, Populate(c) PROVE OneCall(c)
<1>1. c \in Live
    BY DEF Populate, Live, Steps
<1> QED
    BY <1>1, CountedSteps DEF Populate

\* The count that the counter is to be raised to.
LEMMA ReadCountSteps == ASSUME RInv, NEW c \in Calls, ReadCount(c) PROVE OneCall(c)
<1>1. c \in Live
    BY DEF ReadCount, Live, Steps
<1> QED
    BY <1>1, CountedSteps DEF ReadCount

\* What the counter is raised past is pending.
LEMMA SyncSteps == ASSUME RInv, NEW c \in Calls, Sync(c) PROVE OneCall(c)
<1>1. c \in Live /\ call[c].step = "sync"
    BY DEF Sync, Live, Steps
<1>2. Moves(c) /\ Aside
    BY <1>1 DEF Sync, Moves, Keeps, HeldBy, Aside
<1>3. call[c].nonce \in Nat /\ Filled(call[c].nonce) /\ call[c].attempt <= MaxRetries /\ next \in Nat
    BY <1>1 DEF RInv, StepsOK, NonceInv, NoSilentGap, TypeOK
<1>4. next' \in Nat /\ next <= next' /\ \A k \in Nat : next <= k /\ k < next' => k < call[c].nonce
    BY <1>3 DEF Sync, WriteAtomically, Synced
<1>5. \A k \in Nat : eoaNonce <= k /\ next <= k /\ k < next' => InMempool(k)
    BY <1>3, <1>4 DEF Filled
<1> QED
    BY <1>1, <1>2, <1>3, <1>4, <1>5, FreshSteps DEF OneCall, Sync

\* A step that leaves the counter alone raises it past nothing.
LEMMA CounterAlone == ASSUME RInv, UNCHANGED next
                      PROVE  /\ next' \in Nat /\ next <= next'
                             /\ \A k \in Nat : ~(next <= k /\ k < next')
    BY DEF RInv, TypeOK

\* A resync that fails changes no counter.
LEMMA SyncFailsSteps == ASSUME RInv, NEW c \in Calls, SyncFails(c) PROVE OneCall(c)
<1>1. c \in Live /\ call[c].attempt <= MaxRetries /\ FreshAttempt(c) /\ Aside
    BY DEF SyncFails, Live, Steps, RInv, StepsOK, Aside
<1>2. Moves(c) /\ UNCHANGED <<next, rows, used, crossed>>
    BY <1>1 DEF SyncFails, Moves, Keeps, HeldBy
<1> QED
    BY <1>1, <1>2, FreshSteps, CounterAlone DEF OneCall

\* A nonce whose transaction the contract would refuse is abandoned.
LEMMA RejectedSteps == ASSUME RInv, NEW c \in Calls, Rejected(c) PROVE OneCall(c)
<1>1. c \in Live /\ call[c].step = "send" /\ Answer(c, <<>>, FALSE) /\ Aside /\ UNCHANGED next
    BY DEF Rejected, Live, Steps, Aside
<1>2. Moves(c)
    BY <1>1, LetGo DEF Rejected
<1> QED
    BY <1>1, <1>2, AnswerSteps DEF OneCall

\* A conflict: the nonce is another's, on the chain or pending.
LEMMA NonceConflictSteps == ASSUME RInv, NEW c \in Calls, NonceConflict(c) PROVE OneCall(c)
<1>1. c \in Live /\ call[c].step = "send" /\ Aside /\ UNCHANGED next
    BY DEF NonceConflict, Live, Steps, Aside
<1>2. Moves(c)
    BY <1>1, LetGo DEF NonceConflict
<1>3. \/ MayRetry(c) /\ Continues(c, "count") /\ UNCHANGED <<rows, used, crossed>>
      \/ MayRetry(c) /\ FreshAttempt(c) /\ UNCHANGED <<rows, used, crossed>>
      \/ Answer(c, <<>>, FALSE)
    BY DEF NonceConflict, Retry, Again
<1>4. CASE MayRetry(c) /\ Continues(c, "count") /\ UNCHANGED <<rows, used, crossed>>
    BY <1>1, <1>2, <1>4, ContinuesSteps DEF OneCall, MayRetry
<1>5. CASE MayRetry(c) /\ FreshAttempt(c) /\ UNCHANGED <<rows, used, crossed>>
    BY <1>1, <1>2, <1>5, FreshSteps, CounterAlone DEF OneCall, MayRetry
<1>6. CASE Answer(c, <<>>, FALSE)
    BY <1>1, <1>2, <1>6, AnswerSteps DEF OneCall
<1> QED
    BY <1>3, <1>4, <1>5, <1>6

\* What is broadcast had a nonce that was free.
LEMMA SendSteps == ASSUME RInv, NEW c \in Calls, Send(c) PROVE OneCall(c)
<1>1. c \in Live /\ call[c].step = "send" /\ Aside /\ UNCHANGED <<next, rows, used, crossed>>
    BY DEF Send, Live, Steps, Aside
<1>2. Moves(c)
    BY <1>1, LetGo DEF Send
<1>3. Continues(c, "wait")
    BY DEF Send
<1> QED
    BY <1>1, <1>2, <1>3, ContinuesSteps DEF OneCall

\* A broadcast that fails abandons its nonce, or lost only the answer.
LEMMA SendFailsSteps == ASSUME RInv, NEW c \in Calls, SendFails(c) PROVE OneCall(c)
<1>1. c \in Live /\ call[c].step = "send" /\ Aside /\ UNCHANGED next
    BY DEF SendFails, Live, Steps, Aside
<1>2. Moves(c)
    BY <1>1, LetGo DEF SendFails
<1>3. CASE MayRetry(c) /\ FreshAttempt(c) /\ UNCHANGED <<rows, used, crossed>>
    BY <1>1, <1>2, <1>3, FreshSteps, CounterAlone DEF OneCall, MayRetry
<1>4. CASE Answer(c, <<>>, FALSE)
    BY <1>1, <1>2, <1>4, AnswerSteps DEF OneCall
<1> QED
    BY <1>3, <1>4 DEF SendFails, Again

\* A receipt changes no nonce.
LEMMA ConfirmedSteps == ASSUME RInv, NEW c \in Calls, Confirmed(c) PROVE OneCall(c)
<1>1. c \in Live /\ call[c].step # "send" /\ Aside /\ UNCHANGED <<next, mempool, abandoned>>
    BY DEF Confirmed, Live, Steps, Aside
<1>2. Moves(c)
    BY <1>1 DEF Moves, Keeps, HeldBy
<1>3. PICK receipt \in Outcome(Hash(c)) : Answer(c, Hash(c), Success(receipt))
    BY DEF Confirmed
<1>4. Success(receipt) \in BOOLEAN
    BY <1>3 DEF Success, Outcome, RInv, TypeOK
<1> QED
    BY <1>1, <1>2, <1>3, <1>4, AnswerSteps DEF OneCall

\* Nor does a receipt that does not come,
LEMMA WaitFailsSteps == ASSUME RInv, NEW c \in Calls, WaitFails(c) PROVE OneCall(c)
<1>1. c \in Live /\ call[c].step # "send" /\ Aside /\ UNCHANGED <<next, mempool, abandoned>>
    BY DEF WaitFails, Live, Steps, Aside
<1>2. Moves(c)
    BY <1>1 DEF Moves, Keeps, HeldBy
<1>3. CASE MayRetry(c) /\ Continues(c, "recheck") /\ UNCHANGED <<rows, used, crossed>>
    BY <1>1, <1>2, <1>3, ContinuesSteps DEF OneCall, MayRetry
<1>4. CASE Answer(c, Hash(c), FALSE)
    BY <1>1, <1>2, <1>4, AnswerSteps DEF OneCall
<1> QED
    BY <1>3, <1>4 DEF WaitFails, Retry

\* or is looked for again.
LEMMA NotFoundSteps == ASSUME RInv, NEW c \in Calls, NotFound(c) PROVE OneCall(c)
<1>1. c \in Live /\ call[c].step = "recheck" /\ FreshAttempt(c) /\ Aside /\ UNCHANGED <<store, used, crossed, mempool, abandoned>>
    BY DEF NotFound, Live, Steps, Aside
<1>2. Moves(c) /\ call[c].attempt <= MaxRetries
    BY <1>1 DEF Moves, Keeps, HeldBy, RInv, StepsOK
<1> QED
    BY <1>1, <1>2, FreshSteps, CounterAlone DEF OneCall

-----------------------------------------------------------------------------
(* The chain, the calendar, and processes that stop. *)

\* The nonce that is mined is the account's next, below which nothing is
\* missing.
LEMMA MineKeeps == ASSUME RInv, Mine PROVE RInv'
<1> USE DEF RInv, NonceInv
<1>1. PICK tx \in mempool :
          /\ tx.nonce = eoaNonce
          /\ mempool' = mempool \ {tx}
          /\ mined' = mined \cup {[hash |-> tx.hash, nonce |-> tx.nonce, issued |-> tx.issued, executed |-> Acceptable(tx.intent)]}
          /\ executed' = IF Acceptable(tx.intent) THEN executed \cup {tx.intent} ELSE executed
    BY DEF Mine
<1>2. eoaNonce' = eoaNonce + 1 /\ UNCHANGED <<coordinated, next, rows, call, used, today, abandoned, crossed>>
    BY DEF Mine
<1>3. eoaNonce \in Nat /\ next \in Nat /\ tx \in [nonce: Nat, issued: BOOLEAN, intent: Intents, hash: Calls \X Nat]
    BY DEF TypeOK
<1> DEFINE m == [hash |-> tx.hash, nonce |-> tx.nonce, issued |-> tx.issued, executed |-> Acceptable(tx.intent)]
<1>4. m.hash = tx.hash /\ m.nonce = tx.nonce /\ m.issued = tx.issued /\ m.executed \in BOOLEAN
    BY DEF Acceptable
<1>5. TypeOK'
    <2>1. m \in [hash: Calls \X Nat, nonce: Nat, issued: BOOLEAN, executed: BOOLEAN]
        BY <1>3, <1>4
    <2> HIDE DEF m
    <2>2. mined' \subseteq [hash: Calls \X Nat, nonce: Nat, issued: BOOLEAN, executed: BOOLEAN]
        BY <1>1, <2>1 DEF TypeOK, m
    <2>3. executed' \subseteq Intents /\ eoaNonce' \in Nat
        BY <1>1, <1>2, <1>3 DEF TypeOK
    <2> QED
        BY <1>1, <1>2, <2>2, <2>3 DEF TypeOK
<1>6. StepsOK' /\ IsFiniteSet(mempool)'
    BY <1>1, <1>2, FS_Subset DEF StepsOK, Live
<1> HIDE DEF m
<1>7. \A t \in Broadcast' : t \in Broadcast \/ t = m
    BY <1>1 DEF Broadcast, m
<1>8. tx \in Broadcast
    BY DEF Broadcast
<1>9. Live' = Live /\ \A c \in Calls : HeldBy(c)' <=> HeldBy(c)
    BY <1>2 DEF Live, HeldBy
<1>10. AttemptsFresh'
    BY <1>2, <1>4, <1>7, <1>8, <1>9 DEF AttemptsFresh
<1>11. CounterAhead'
    BY <1>2, <1>4, <1>7, <1>8, <1>9 DEF CounterAhead
<1>12. OneHolder'
    BY <1>2, <1>4, <1>7, <1>8, <1>9 DEF OneHolder
<1>13. \A k \in Nat : InMempool(k) /\ k # eoaNonce => InMempool(k)'
    BY <1>1 DEF InMempool
<1>14. \A n : Filled(n) => Filled(n)'
    BY <1>2, <1>3, <1>13 DEF Filled
<1>15. NoSilentGap'
    <2>1. ASSUME NEW k \in Nat, eoaNonce' <= k, k < next'
          PROVE  InMempool(k)' \/ k \in abandoned' \/ \E c \in Calls : HeldBy(c)' /\ call'[c].nonce = k
        <3>1. eoaNonce <= k /\ k # eoaNonce /\ k < next
            BY <1>2, <1>3, <2>1
        <3> QED
            BY <1>2, <1>9, <1>13, <3>1 DEF NoSilentGap
    <2>2. ASSUME NEW c \in Live', call'[c].step = "sync" \/ (call'[c].step = "send" /\ ~call'[c].issued)
          PROVE  Filled(call[c].nonce)'
        <3>1. Filled(call[c].nonce)
            BY <1>2, <1>9, <2>2 DEF NoSilentGap
        <3>2. Filled(call[c].nonce) => Filled(call[c].nonce)'
            BY <1>2, <1>3, <1>13 DEF Filled
        <3> QED
            BY <3>1, <3>2
    <2>3. ASSUME NEW t \in mempool', ~t.issued PROVE Filled(t.nonce)'
        BY <1>1, <1>14, <2>3 DEF NoSilentGap
    <2> QED
        BY <2>1, <2>2, <2>3 DEF NoSilentGap
<1> QED
    BY <1>5, <1>6, <1>10, <1>11, <1>12, <1>15

\* A step that leaves the calls, the chain and the counter alone.
LEMMA NoncesAlone ==
    ASSUME NonceInv, StepsOK, UNCHANGED <<call, next, chain, abandoned>>
    PROVE  NonceInv' /\ StepsOK'
<1>1. Broadcast' = Broadcast /\ Live' = Live /\ \A c \in Calls : HeldBy(c)' <=> HeldBy(c)
    BY DEF Broadcast, Live, HeldBy
<1>2. AttemptsFresh' /\ CounterAhead' /\ OneHolder' /\ StepsOK'
    BY <1>1 DEF NonceInv, AttemptsFresh, CounterAhead, OneHolder, StepsOK
<1>3. NoSilentGap'
    BY <1>1 DEF NonceInv, NoSilentGap, Filled, InMempool
<1> QED
    BY <1>2, <1>3 DEF NonceInv

\* The calendar touches no nonce.
LEMMA MidnightKeeps == ASSUME RInv, Midnight PROVE RInv'
<1>1. UNCHANGED <<coordinated, next, rows, call, used, chain, abandoned, crossed>> /\ today' \in 0..MaxDay
    BY RelayAssumption DEF Midnight, RInv, TypeOK
<1>2. TypeOK' /\ IsFiniteSet(mempool)'
    BY <1>1 DEF RInv, TypeOK
<1> QED
    BY <1>1, <1>2, NoncesAlone DEF RInv

\* A step of nobody.
LEMMA StutterKeeps == ASSUME RInv, UNCHANGED vars PROVE RInv'
<1>1. TypeOK' /\ IsFiniteSet(mempool)'
    BY DEF RInv, TypeOK
<1> QED
    BY <1>1, NoncesAlone DEF RInv

\* The nonces of an instance that stops are abandoned.
LEMMA CrashKeeps == ASSUME RInv, NEW s \in Servers, Crash(s) PROVE RInv'
<1> USE DEF RInv, NonceInv
<1> DEFINE lost == {c \in Calls : call[c] \notin {Idle, Over} /\ call[c].server = s}
           dropped == {call[c].nonce : c \in {d \in lost : call[d].step = "send" /\ call[d].issued}}
<1>1. /\ call' = [c \in Calls |-> IF c \in lost THEN Over ELSE call[c]]
      /\ used' = [used EXCEPT ![s] = [day |-> today, total |-> 0]]
      /\ abandoned' = abandoned \cup dropped
      /\ UNCHANGED <<coordinated, store, today, chain, crossed>>
    BY DEF Crash
<1>2. Over \in CallState /\ Over # Idle /\ Over.step \notin Steps
    BY DEF Over, Idle, CallState, Steps
<1>3. lost \subseteq Calls
    OBVIOUS
<1>4. \A n \in dropped : \E c \in lost : HeldBy(c) /\ call[c].nonce = n
    BY DEF HeldBy
<1>5. \A c \in lost : HeldBy(c) => call[c].nonce \in dropped
    BY DEF HeldBy
<1> HIDE DEF lost, dropped
<1>6. \A c \in Calls : /\ c \in lost => call'[c] = Over /\ c \notin Live' /\ ~HeldBy(c)'
                       /\ c \notin lost => call'[c] = call[c] /\ (c \in Live' <=> c \in Live) /\ (HeldBy(c)' <=> HeldBy(c))
    BY <1>1, <1>2 DEF Live, HeldBy, Steps
<1>7. \A c \in Calls : HeldBy(c) => call[c].nonce \in Nat
    BY DEF HeldBy, StepsOK, Live, Steps
<1>8. TypeOK'
    <2>1. call' \in [Calls -> CallState]
        BY <1>1, <1>2 DEF TypeOK
    <2>2. UsedOK(used')
        <3>1. [day |-> today, total |-> 0] \in [day: 0..MaxDay, total: 0..MaxDaily]
            BY RelayAssumption DEF TypeOK
        <3> QED
            BY <1>1, <3>1 DEF TypeOK, UsedOK
    <2>3. abandoned' \subseteq Nat
        BY <1>1, <1>3, <1>4, <1>7 DEF TypeOK
    <2> QED
        BY <1>1, <2>1, <2>2, <2>3 DEF TypeOK, UsedOK
<1>9. StepsOK' /\ IsFiniteSet(mempool)' /\ Broadcast' = Broadcast
    BY <1>1, <1>6 DEF StepsOK, Broadcast, Live
<1>10. AttemptsFresh'
    <2>1. \A tx \in Broadcast : tx.hash[1] \in Calls
        BY DEF Broadcast, TypeOK
    <2>2. \A c \in Calls : call[c] # Idle => call'[c] # Idle
        BY <1>2, <1>6
    <2> QED
        BY <1>6, <1>9, <2>1, <2>2 DEF AttemptsFresh
<1>11. CounterAhead'
    <2>1. ASSUME NEW c \in Calls, HeldBy(c)' PROVE call'[c].nonce < next' /\ call'[c].nonce \notin abandoned'
        <3>1. c \notin lost /\ HeldBy(c) /\ call'[c] = call[c]
            BY <1>6, <2>1
        <3>2. call[c].nonce \notin dropped
            BY <1>3, <1>4, <3>1 DEF OneHolder
        <3> QED
            BY <1>1, <3>1, <3>2 DEF CounterAhead
    <2>2. ASSUME NEW tx \in Broadcast, tx.issued PROVE tx.nonce < next' /\ tx.nonce \notin abandoned'
        <3>1. tx.nonce \notin dropped
            BY <1>3, <1>4, <2>2 DEF OneHolder
        <3> QED
            BY <1>1, <2>2, <3>1 DEF CounterAhead
    <2>3. ASSUME NEW n \in abandoned' PROVE n < next'
        BY <1>1, <1>3, <1>4, <2>3 DEF CounterAhead
    <2> QED
        BY <1>9, <2>1, <2>2, <2>3 DEF CounterAhead
<1>12. OneHolder'
    BY <1>6, <1>9 DEF OneHolder
<1>13. NoSilentGap'
    <2>1. \A k : InMempool(k)' <=> InMempool(k)
        BY <1>1 DEF InMempool
    <2>2. \A n : Filled(n)' <=> Filled(n)
        BY <1>1, <2>1 DEF Filled
    <2>3. ASSUME NEW k \in Nat, eoaNonce' <= k, k < next'
          PROVE  InMempool(k)' \/ k \in abandoned' \/ \E c \in Calls : HeldBy(c)' /\ call'[c].nonce = k
        BY <1>1, <1>5, <1>6, <2>1, <2>3 DEF NoSilentGap
    <2>4. ASSUME NEW c \in Live', call'[c].step = "sync" \/ (call'[c].step = "send" /\ ~call'[c].issued)
          PROVE  Filled(call[c].nonce)'
        <3>1. c \in Live /\ call'[c] = call[c]
            BY <1>6, <2>4 DEF Live
        <3>2. Filled(call[c].nonce)
            BY <2>4, <3>1 DEF NoSilentGap
        <3>3. Filled(call[c].nonce) => Filled(call[c].nonce)'
            BY <1>1, <2>1, <3>1 DEF Filled
        <3> QED
            BY <3>2, <3>3
    <2>5. ASSUME NEW tx \in mempool', ~tx.issued PROVE Filled(tx.nonce)'
        BY <1>1, <2>2, <2>5 DEF NoSilentGap
    <2> QED
        BY <2>3, <2>4, <2>5 DEF NoSilentGap
<1> QED
    BY <1>8, <1>9, <1>10, <1>11, <1>12, <1>13

-----------------------------------------------------------------------------
(* The first invariant. *)

\* At first nothing is issued, and the counter is behind the account.
LEMMA InitNonces == ASSUME Init PROVE RInv
<1>1. TypeOK
    <2>1. call \in [Calls -> CallState]
        BY DEF Init, CallState
    <2>2. used \in [Servers -> [day: 0..MaxDay, total: 0..MaxDaily]]
        BY RelayAssumption DEF Init
    <2>3. rows \in Seq([intent: Intents, hash: Calls \X Nat, status: {"confirmed", "failed"}])
        BY EmptySeq DEF Init
    <2>4. coordinated \in BOOLEAN /\ crossed \in BOOLEAN
        BY RelayAssumption, Zenon DEF Init
    <2>5. /\ next \in Nat /\ today \in 0..MaxDay /\ eoaNonce \in Nat
          /\ mempool = {} /\ mined = {} /\ executed = {} /\ abandoned = {}
        BY RelayAssumption DEF Init
    <2> QED
        BY <2>1, <2>2, <2>3, <2>4, <2>5 DEF TypeOK
<1>2. Live = {} /\ Broadcast = {} /\ mempool = {} /\ \A c \in Calls : ~HeldBy(c)
    BY DEF Init, Live, Broadcast, HeldBy, Idle, Steps
<1>3. StepsOK /\ IsFiniteSet(mempool)
    BY <1>2, FS_EmptySet DEF StepsOK
<1>4. NonceInv
    <2>1. AttemptsFresh /\ CounterAhead /\ OneHolder
        BY <1>2 DEF AttemptsFresh, CounterAhead, OneHolder, Init
    <2>2. \A k \in Nat : ~(eoaNonce <= k /\ k < next)
        BY <1>1 DEF Init, TypeOK
    <2>3. NoSilentGap
        BY <1>2, <2>2 DEF NoSilentGap
    <2> QED
        BY <2>1, <2>3 DEF NonceInv
<1> QED
    BY <1>1, <1>3, <1>4 DEF RInv

\* A transaction more leaves the mempool finite.
LEMMA OneCallKeeps == ASSUME RInv, NEW c \in Calls, OneCall(c) PROVE RInv'
<1>1. TypeOK' /\ StepsOK'
    BY TypesStay DEF RInv, OneCall
<1>2. NonceInv'
    BY NoncesStay DEF OneCall
<1>3. IsFiniteSet(mempool)'
    <2>1. IsFiniteSet(mempool \cup {Tx(c)})
        BY FS_AddElement DEF RInv
    <2> QED
        BY <2>1, FS_Subset DEF OneCall, OneCallTypes
<1> QED
    BY <1>1, <1>2, <1>3 DEF RInv

\* Whatever a call does, it is one call's step.
LEMMA CallSteps == ASSUME RInv, NEW c \in Calls, Proceed(c) \/ Fault(c) PROVE OneCall(c)
    BY AcquireSteps, PopulateSteps, ReadCountSteps, SyncSteps, RejectedSteps, NonceConflictSteps, SendSteps,
       ConfirmedSteps, NotFoundSteps, SendFailsSteps, WaitFailsSteps, SyncFailsSteps
       DEF Proceed, Fault

\* The inductive invariant of the nonces, step by step.
THEOREM NoncesInvariant == Spec => []RInv
<1>1. RInv /\ [Next]_vars => RInv'
    <2> SUFFICES ASSUME RInv, [Next]_vars PROVE RInv'
        OBVIOUS
    <2>1. ASSUME NEW c \in Calls, NEW s \in Servers, NEW intent \in Intents, Start(c, s, intent) PROVE RInv'
        BY <2>1, StartSteps, OneCallKeeps
    <2>2. ASSUME NEW c \in Calls, Proceed(c) \/ Fault(c) PROVE RInv'
        BY <2>2, CallSteps, OneCallKeeps
    <2>3. ASSUME NEW s \in Servers, Crash(s) PROVE RInv'
        BY <2>3, CrashKeeps
    <2>4. CASE Mine
        BY <2>4, MineKeeps
    <2>5. CASE Midnight
        BY <2>5, MidnightKeeps
    <2>6. CASE UNCHANGED vars
        BY <2>6, StutterKeeps
    <2> QED
        BY <2>1, <2>2, <2>3, <2>4, <2>5, <2>6 DEF Next
<1>2. Init => RInv
    BY InitNonces
<1> QED
    BY <1>1, <1>2, PTL DEF Spec

\* Every nonce that the counter handed out is one attempt's, one transaction's,
\* or abandoned.
LEMMA OneOwner == ASSUME RInv PROVE IssuedOnce
<1> USE DEF RInv, NonceInv
<1> DEFINE held == {<<Hash(c), call[c].nonce>> : c \in {d \in Live : call[d].step = "send" /\ call[d].issued}}
           sent == {<<tx.hash, tx.nonce>> : tx \in {t \in mempool \cup mined : t.issued}}
<1>1. \A p \in held : \E c \in Calls : HeldBy(c) /\ p = <<Hash(c), call[c].nonce>>
    BY DEF HeldBy, Live
<1>2. \A p \in sent : \E tx \in Broadcast : tx.issued /\ p = <<tx.hash, tx.nonce>>
    BY DEF Broadcast
<1> HIDE DEF held, sent
<1>3. ASSUME NEW p \in held \cup sent, NEW q \in held \cup sent, p[2] = q[2] PROVE p = q
    <2>1. CASE p \in held /\ q \in held
        BY <1>1, <1>3, <2>1 DEF OneHolder
    <2>2. CASE p \in held /\ q \in sent
        BY <1>1, <1>2, <1>3, <2>2 DEF OneHolder
    <2>3. CASE p \in sent /\ q \in held
        BY <1>1, <1>2, <1>3, <2>3 DEF OneHolder
    <2>4. CASE p \in sent /\ q \in sent
        BY <1>2, <1>3, <2>4 DEF OneHolder
    <2> QED
        BY <2>1, <2>2, <2>3, <2>4
<1>4. ASSUME NEW p \in held \cup sent PROVE p[2] \notin abandoned
    <2>1. CASE p \in held
        BY <1>1, <2>1 DEF CounterAhead
    <2>2. CASE p \in sent
        BY <1>2, <2>2 DEF CounterAhead
    <2> QED
        BY <2>1, <2>2
<1> QED
    BY <1>3, <1>4 DEF IssuedOnce, held, sent

\* What is missing below a pending transaction was issued, and is held or
\* abandoned.
LEMMA NoGap == ASSUME RInv PROVE GapsAreAbandoned
<1> USE DEF RInv, NonceInv
<1> SUFFICES ASSUME NEW n \in Missing PROVE n \in Held \cup abandoned
    BY DEF GapsAreAbandoned
<1>1. PICK tx \in mempool : n \in eoaNonce..tx.nonce /\ ~InMempool(n)
    BY DEF Missing, InMempool
<1>2. tx.nonce \in Nat /\ eoaNonce \in Nat /\ next \in Nat /\ n \in Nat /\ eoaNonce <= n /\ n <= tx.nonce
    BY <1>1 DEF TypeOK
<1>3. InMempool(tx.nonce)
    BY DEF InMempool
<1>4. n < tx.nonce
    BY <1>1, <1>2, <1>3
<1>5. CASE ~tx.issued
    <2>1. Filled(tx.nonce)
        BY <1>5 DEF NoSilentGap
    <2> QED
        BY <1>1, <1>2, <1>4, <2>1 DEF Filled
<1>6. CASE tx.issued
    <2>1. n < next
        BY <1>2, <1>4, <1>6 DEF CounterAhead, Broadcast
    <2>2. n \in abandoned \/ \E c \in Calls : HeldBy(c) /\ call[c].nonce = n
        BY <1>1, <1>2, <2>1 DEF NoSilentGap
    <2> QED
        BY <2>2 DEF Held, HeldBy, Live, Steps
<1>7. tx.issued \in BOOLEAN
    BY DEF TypeOK
<1> QED
    BY <1>5, <1>6, <1>7

\* relayer-coordinator.js and the retry loop: the shared counter hands a nonce
\* to one attempt only, and a nonce that keeps others from being mined is held
\* or was abandoned.
THEOREM EveryNonceAccounted == Spec => []NoncesAccounted
<1>1. RInv => NoncesAccounted
    BY OneOwner, NoGap DEF NoncesAccounted, RInv
<1> QED
    BY <1>1, NoncesInvariant, PTL

-----------------------------------------------------------------------------
(* What callers are told. *)

\* A call that goes on stays the call it is, and its bucket and the ledger are
\* left alone.
GoesOn(c) ==
    /\ c \in Live'
    /\ call'[c].server = call[c].server /\ call'[c].intent = call[c].intent /\ call'[c].day = call[c].day
    /\ UNCHANGED <<rows, used, crossed>>

Answers(c) ==
    \E hash \in {<<>>, Hash(c)}, ok \in BOOLEAN :
        /\ Answer(c, hash, ok)
        /\ ok => \E receipt \in mined : receipt.executed /\ receipt.hash = Hash(c)

\* Two ways to go on: a step further, or a fresh attempt,
LEMMA GoesOnWhen ==
    ASSUME RInv, NEW c \in Live, UNCHANGED <<rows, used, crossed>>,
           \/ \E step \in Steps : Continues(c, step)
           \/ call[c].attempt <= MaxRetries /\ FreshAttempt(c)
    PROVE  GoesOn(c)
<1>1. TypeOK /\ call[c] \in LiveCall
    BY LiveShape DEF RInv
<1>2. CASE \E step \in Steps : Continues(c, step)
    <2> PICK step \in Steps : Continues(c, step)
        BY <1>2
    <2>1. c \in Live' /\ call'[c] = [call[c] EXCEPT !.step = step]
        BY <1>1, Continued
    <2> QED
        BY <1>1, <2>1 DEF GoesOn, LiveCall
<1>3. CASE call[c].attempt <= MaxRetries /\ FreshAttempt(c)
    <2>1. c \in Live' /\ call'[c] = [call[c] EXCEPT !.step = FirstStep, !.nonce = None, !.issued = FALSE, !.attempt = @ + 1]
        BY <1>1, <1>3, Freshened
    <2> QED
        BY <1>1, <2>1 DEF GoesOn, LiveCall
<1> QED
    BY <1>2, <1>3

\* and a third: with a nonce or a count.
LEMMA TakesGoesOn ==
    ASSUME RInv, NEW c \in Live, UNCHANGED <<rows, used, crossed>>, NEW step \in Steps, NEW n \in Nat,
           NEW issued, issued \in BOOLEAN,
           call' = [call EXCEPT ![c].step = step, ![c].nonce = n, ![c].issued = issued]
    PROVE  GoesOn(c)
<1>1. TypeOK /\ call[c] \in LiveCall
    BY LiveShape DEF RInv
<1> DEFINE v == [call[c] EXCEPT !.step = step, !.nonce = n, !.issued = issued]
<1>2. v \in LiveCall /\ v.server = call[c].server /\ v.intent = call[c].intent /\ v.day = call[c].day
    BY <1>1 DEF LiveCall
<1>3. call' = [call EXCEPT ![c] = v]
    OBVIOUS
<1> HIDE DEF v
<1>4. c \in Live' /\ call'[c] = v
    BY <1>1, <1>2, <1>3, Took
<1> QED
    BY <1>2, <1>4 DEF GoesOn

\* A call takes a step on its way, or answers; it says "executed" when the
\* receipt of its transaction says so.
LEMMA GoesOnOrAnswers ==
    ASSUME RInv, NEW c \in Calls, Proceed(c) \/ Fault(c)
    PROVE  c \in Live /\ (GoesOn(c) \/ Answers(c))
<1>0. TypeOK /\ StepsOK
    BY DEF RInv
<1>1. c \in Live
    BY DEF Proceed, Fault, Acquire, Populate, ReadCount, Sync, Rejected, NonceConflict, Send, Confirmed,
           NotFound, SendFails, WaitFails, SyncFails, Live, Steps
<1>2. PendingCount \in Nat /\ next \in Nat
    BY <1>0, PendingCountFilled DEF RInv, TypeOK
<1>3. \A step \in {"send", "sync", "populate", "wait", "count", "recheck"} : step \in Steps
    BY DEF Steps
<1>4. ASSUME Answer(c, <<>>, FALSE) \/ Answer(c, Hash(c), FALSE) PROVE Answers(c)
    BY <1>4, Zenon DEF Answers
<1>5. CASE Acquire(c)
    <2>1. UNCHANGED <<rows, used, crossed>>
        BY <1>5 DEF Acquire
    <2>2. CASE Continues(c, "populate")
        BY <1>1, <1>3, <2>1, <2>2, GoesOnWhen
    <2>3. CASE call' = [call EXCEPT ![c].step = "send", ![c].nonce = next, ![c].issued = TRUE]
        <3>1. TRUE \in BOOLEAN
            OBVIOUS
        <3> QED
            BY <1>1, <1>2, <1>3, <2>1, <2>3, <3>1, TakesGoesOn, Zenon
    <2> QED
        BY <1>5, <2>2, <2>3 DEF Acquire
<1>6. CASE Populate(c) \/ ReadCount(c)
    <2>1. UNCHANGED <<rows, used, crossed>>
        BY <1>6 DEF Populate, ReadCount
    <2>2. \E step \in Steps : call' = [call EXCEPT ![c].step = step, ![c].nonce = PendingCount, ![c].issued = FALSE]
        BY <1>3, <1>6 DEF Populate, ReadCount
    <2>3. FALSE \in BOOLEAN
        OBVIOUS
    <2> QED
        BY <1>1, <1>2, <2>1, <2>2, <2>3, TakesGoesOn, Zenon
<1>7. CASE Sync(c) \/ SyncFails(c) \/ NotFound(c)
    <2>1. UNCHANGED <<rows, used, crossed>> /\ FreshAttempt(c) /\ call[c].attempt <= MaxRetries
        BY <1>0, <1>1, <1>7 DEF Sync, SyncFails, NotFound, StepsOK
    <2> QED
        BY <1>1, <2>1, GoesOnWhen
<1>8. CASE Rejected(c)
    BY <1>1, <1>4, <1>8 DEF Rejected
<1>9. CASE NonceConflict(c)
    <2>1. \/ UNCHANGED <<rows, used, crossed>> /\ Continues(c, "count")
          \/ UNCHANGED <<rows, used, crossed>> /\ FreshAttempt(c) /\ call[c].attempt <= MaxRetries
          \/ Answer(c, <<>>, FALSE)
        BY <1>9 DEF NonceConflict, Retry, Again, MayRetry
    <2> QED
        BY <1>1, <1>3, <1>4, <2>1, GoesOnWhen
<1>10. CASE Send(c)
    <2>1. UNCHANGED <<rows, used, crossed>> /\ Continues(c, "wait")
        BY <1>10 DEF Send
    <2> QED
        BY <1>1, <1>3, <2>1, GoesOnWhen
<1>11. CASE SendFails(c)
    <2>1. \/ UNCHANGED <<rows, used, crossed>> /\ FreshAttempt(c) /\ call[c].attempt <= MaxRetries
          \/ Answer(c, <<>>, FALSE)
        BY <1>11 DEF SendFails, Again, MayRetry
    <2> QED
        BY <1>1, <1>4, <2>1, GoesOnWhen
<1>12. CASE WaitFails(c)
    <2>1. \/ UNCHANGED <<rows, used, crossed>> /\ Continues(c, "recheck")
          \/ Answer(c, Hash(c), FALSE)
        BY <1>12 DEF WaitFails, Retry
    <2> QED
        BY <1>1, <1>3, <1>4, <2>1, GoesOnWhen
<1>13. CASE Confirmed(c)
    <2>1. PICK receipt \in Outcome(Hash(c)) : Answer(c, Hash(c), Success(receipt))
        BY <1>13 DEF Confirmed
    <2>2. receipt \in mined /\ receipt.hash = Hash(c) /\ Success(receipt) = receipt.executed
        BY <2>1 DEF Outcome, Success
    <2>3. Success(receipt) \in BOOLEAN
        BY <1>0, <2>2 DEF TypeOK
    <2>4. Hash(c) \in {<<>>, Hash(c)}
        OBVIOUS
    <2> QED
        BY <1>1, <2>1, <2>2, <2>3, <2>4, Zenon DEF Answers
<1> QED
    BY <1>1, <1>5, <1>6, <1>7, <1>8, <1>9, <1>10, <1>11, <1>12, <1>13 DEF Proceed, Fault

\* What a step of one call does to what is known.
Tells(c) ==
    /\ c \in Live' => call[c] = Idle \/ (c \in Live /\ call'[c].intent = call[c].intent)
    /\ call'[c].step = "done" => call'[c].intent \in executed
    /\ \A k \in DOMAIN rows' :
           \/ \E j \in DOMAIN rows : rows'[k] = rows[j]
           \/ rows'[k].status = "confirmed" => rows'[k].intent \in executed

\* A call that ends tells what it was told.
LEMMA TellsSettled ==
    ASSUME NEW c \in Calls, NEW intent, NEW ok, ok \in BOOLEAN, Settled(c, intent, ok), ok => intent \in executed
    PROVE  Tells(c)
<1>1. Over.step # "done"
    BY DEF Over
<1> QED
    BY <1>1 DEF Settled, Tells

\* After a step of one call, what is told is still true.
LEMMA TruthTold ==
    ASSUME RInv, TruthInv, NEW c \in Calls, OneCall(c), Tells(c)
    PROVE  TruthInv'
<1> USE DEF TruthInv, Tells
<1>1. /\ OnlyCall(c) /\ UNCHANGED <<mined, executed>>
      /\ mempool' \subseteq mempool \cup {Tx(c)} /\ (mempool' = mempool \/ c \in Live)
    BY DEF OneCall, OneCallTypes
<1>2. Tx(c).intent = call[c].intent /\ Tx(c).hash[1] = c
    BY DEF Tx, Hash
<1>3. /\ \A tx \in mempool : tx.hash[1] \in Calls /\ call[tx.hash[1]] # Idle
      /\ \A m \in mined : m.hash[1] \in Calls /\ call[m.hash[1]] # Idle
    BY DEF RInv, NonceInv, AttemptsFresh, Broadcast, TypeOK
<1>4. \A d \in Calls \ {c} : call'[d] = call[d] /\ (d \in Live' <=> d \in Live)
    BY <1>1 DEF OnlyCall, Live
<1>5. OwnIntent'
    <2>1. ASSUME NEW tx \in mempool', tx.hash[1] \in Live' PROVE tx.intent = call'[tx.hash[1]].intent
        <3>1. CASE tx \in mempool /\ tx.hash[1] # c
            BY <1>3, <1>4, <2>1, <3>1 DEF OwnIntent
        <3>2. CASE tx \in mempool /\ tx.hash[1] = c
            BY <1>3, <2>1, <3>2 DEF OwnIntent
        <3>3. CASE tx = Tx(c) /\ c \in Live
            <4>1. call[c] # Idle
                BY <3>3 DEF Live, Idle, Steps
            <4> QED
                BY <1>2, <2>1, <3>3, <4>1
        <3> QED
            BY <1>1, <3>1, <3>2, <3>3
    <2>2. ASSUME NEW m \in mined', m.executed, m.hash[1] \in Live' PROVE call'[m.hash[1]].intent \in executed'
        <3>1. m \in mined /\ executed' = executed
            BY <1>1
        <3>2. CASE m.hash[1] # c
            BY <1>3, <1>4, <2>2, <3>1, <3>2 DEF OwnIntent
        <3>3. CASE m.hash[1] = c
            BY <1>3, <2>2, <3>1, <3>3 DEF OwnIntent
        <3> QED
            BY <3>2, <3>3
    <2> QED
        BY <2>1, <2>2 DEF OwnIntent
<1>6. RowsTrue'
    BY <1>1 DEF RowsTrue
<1>7. OkMeansExecuted'
    BY <1>1, <1>4 DEF OkMeansExecuted
<1> QED
    BY <1>5, <1>6, <1>7

\* A call that finds its intent landed says what the row says.
LEMMA StartTells ==
    ASSUME RInv, TruthInv, NEW c \in Calls, NEW s \in Servers, NEW intent \in Intents, Start(c, s, intent)
    PROVE  Tells(c)
<1>1. TypeOK /\ call \in [Calls -> CallState] /\ rows \in Seq(RowSet) /\ today \in 0..MaxDay
    BY DEF RInv, TypeOK, RowSet
<1>2. call[c] = Idle
    BY DEF Start
<1>3. CASE /\ UNCHANGED rows
           /\ \/ call' = [call EXCEPT ![c] = Over]
              \/ call' = [call EXCEPT ![c] =
                     [step |-> FirstStep, server |-> s, intent |-> intent, day |-> today, attempt |-> 1, nonce |-> None, issued |-> FALSE]]
    BY <1>1, <1>2, <1>3 DEF Tells, Over, FirstStep
<1>4. CASE /\ Landed(intent) # {}
           /\ Ends(c, s, intent, today, rows[Oldest(Landed(intent))].hash, rows[Oldest(Landed(intent))].status = "confirmed")
    <2> DEFINE row == rows[Oldest(Landed(intent))]
               ok == row.status = "confirmed"
    <2>1. Oldest(Landed(intent)) \in Landed(intent)
        BY <1>1, <1>4, OldestLanded
    <2>2. row \in RowSet /\ row.intent = intent /\ (ok => row.intent \in executed)
        BY <1>1, <2>1, ElementOfSeq DEF Landed, TruthInv, RowsTrue
    <2>3. row.hash \in Calls \X Nat /\ ok \in BOOLEAN
        BY <2>2 DEF RowSet
    <2>4. Ends(c, s, intent, today, row.hash, ok)
        BY <1>4
    <2> HIDE DEF row, ok
    <2>5. Settled(c, intent, ok)
        BY <1>1, <2>3, <2>4, EndsSettles
    <2> QED
        BY <2>2, <2>3, <2>5, TellsSettled
<1> QED
    BY <1>3, <1>4 DEF Start

\* On its way a call says "executed" from its own receipt only.
LEMMA CallTells == ASSUME RInv, TruthInv, NEW c \in Calls, Proceed(c) \/ Fault(c) PROVE Tells(c)
<1>1. c \in Live /\ call[c] \in LiveCall /\ TypeOK /\ OnlyCall(c)
    BY GoesOnOrAnswers, CallSteps, LiveShape DEF RInv, OneCall, OneCallTypes
<1>2. CASE GoesOn(c)
    <2>1. call'[c].step # "done"
        BY <1>2 DEF GoesOn, Live, Steps
    <2> QED
        BY <1>1, <1>2, <2>1 DEF GoesOn, Tells
<1>3. CASE Answers(c)
    <2>1. PICK hash \in {<<>>, Hash(c)}, ok \in BOOLEAN :
              /\ Answer(c, hash, ok)
              /\ ok => \E receipt \in mined : receipt.executed /\ receipt.hash = Hash(c)
        BY <1>3, Zenon DEF Answers
    <2>2. Settled(c, call[c].intent, ok)
        BY <1>1, <2>1, AnswerSettles
    <2>3. Hash(c)[1] = c
        BY DEF Hash
    <2>4. ok => call[c].intent \in executed
        BY <1>1, <2>1, <2>3 DEF TruthInv, OwnIntent
    <2> QED
        BY <2>2, <2>4, TellsSettled
<1> QED
    BY <1>2, <1>3, GoesOnOrAnswers

\* What the contract executes is the intent of the call that sent it.
LEMMA MineTells == ASSUME RInv, TruthInv, Mine PROVE TruthInv'
<1> USE DEF TruthInv
<1>1. PICK tx \in mempool :
          /\ mempool' = mempool \ {tx}
          /\ mined' = mined \cup {[hash |-> tx.hash, nonce |-> tx.nonce, issued |-> tx.issued, executed |-> Acceptable(tx.intent)]}
          /\ executed' = IF Acceptable(tx.intent) THEN executed \cup {tx.intent} ELSE executed
    BY DEF Mine
<1>2. UNCHANGED <<rows, call>> /\ Live' = Live /\ executed \subseteq executed'
    BY <1>1 DEF Mine, Live
<1> DEFINE m == [hash |-> tx.hash, nonce |-> tx.nonce, issued |-> tx.issued, executed |-> Acceptable(tx.intent)]
<1>3. m.hash = tx.hash /\ (m.executed => tx.intent \in executed')
    BY <1>1
<1> HIDE DEF m
<1>4. \A r \in mined' : r \in mined \/ r = m
    BY <1>1 DEF m
<1>5. OwnIntent'
    BY <1>1, <1>2, <1>3, <1>4 DEF OwnIntent
<1>6. RowsTrue' /\ OkMeansExecuted'
    BY <1>2 DEF RowsTrue, OkMeansExecuted
<1> QED
    BY <1>5, <1>6

\* A process that stops tells nobody anything.
LEMMA CrashTells == ASSUME RInv, TruthInv, NEW s \in Servers, Crash(s) PROVE TruthInv'
<1> DEFINE lost == {c \in Calls : call[c] \notin {Idle, Over} /\ call[c].server = s}
<1>1. call' = [c \in Calls |-> IF c \in lost THEN Over ELSE call[c]] /\ UNCHANGED <<rows, mempool, mined, executed>>
    BY DEF Crash
<1>2. Over.step \notin Steps /\ Over.step # "done"
    BY DEF Over, Steps
<1> HIDE DEF lost
<1>3. \A c \in Calls : /\ c \in Live' => c \in Live /\ call'[c] = call[c]
                       /\ call'[c].step = "done" => call'[c] = call[c]
    BY <1>1, <1>2 DEF Live
<1>4. OwnIntent'
    <2>1. \A c \in Live' : c \in Calls
        BY DEF Live
    <2> QED
        BY <1>1, <1>3, <2>1 DEF TruthInv, OwnIntent
<1>5. RowsTrue' /\ OkMeansExecuted'
    BY <1>1, <1>3 DEF TruthInv, RowsTrue, OkMeansExecuted
<1> QED
    BY <1>4, <1>5 DEF TruthInv

\* The inductive invariant of the answers, on top of that of the nonces.
THEOREM TruthInvariant == Spec => []TruthInv
<1>1. Init => TruthInv
    BY DEF Init, TruthInv, OwnIntent, RowsTrue, OkMeansExecuted, Idle
<1>2. RInv /\ TruthInv /\ [Next]_vars => TruthInv'
    <2> SUFFICES ASSUME RInv, TruthInv, [Next]_vars PROVE TruthInv'
        OBVIOUS
    <2>1. ASSUME NEW c \in Calls, NEW s \in Servers, NEW intent \in Intents, Start(c, s, intent) PROVE TruthInv'
        BY <2>1, StartSteps, StartTells, TruthTold
    <2>2. ASSUME NEW c \in Calls, Proceed(c) \/ Fault(c) PROVE TruthInv'
        BY <2>2, CallSteps, CallTells, TruthTold
    <2>3. ASSUME NEW s \in Servers, Crash(s) PROVE TruthInv'
        BY <2>3, CrashTells
    <2>4. CASE Mine
        BY <2>4, MineTells
    <2>5. CASE Midnight \/ UNCHANGED vars
        <3>1. UNCHANGED <<rows, call, mempool, mined, executed>>
            BY <2>5 DEF Midnight
        <3> QED
            BY <3>1 DEF TruthInv, OwnIntent, RowsTrue, OkMeansExecuted, Live
    <2> QED
        BY <2>1, <2>2, <2>3, <2>4, <2>5 DEF Next
<1> QED
    BY <1>1, <1>2, NoncesInvariant, PTL DEF Spec

\* executeRelayerOperation: a call that reports success, by its receipt or by a
\* ledger row, had its intent executed by the contract.
THEOREM ToldTheTruth == Spec => []OkMeansExecuted
<1>1. TruthInv => OkMeansExecuted
    BY DEF TruthInv
<1> QED
    BY <1>1, TruthInvariant, PTL

-----------------------------------------------------------------------------
(* The daily bucket. *)

\* Spenders and Spends, of given calls and a given day.
SpendersOf(calls, day, s) ==
    {c \in Calls : calls[c] \notin {Idle, Over} /\ calls[c].server = s /\ calls[c].day = day}
Weights(calls) == [c \in Calls |-> Amount[calls[c].intent]]
SpentBy(calls, day, s) == Sum(Weights(calls), SpendersOf(calls, day, s))
StartedOf(calls) == {c \in Calls : calls[c] # Idle}

\* What calls spend are numbers, and there are finitely many of them.
LEMMA WeightsNat ==
    ASSUME NEW calls \in [Calls -> CallState], NEW day, NEW s, IsFiniteSet(StartedOf(calls))
    PROVE  /\ IsFiniteSet(SpendersOf(calls, day, s))
           /\ \A c \in SpendersOf(calls, day, s) : /\ Weights(calls)[c] \in Nat
                                                   /\ Weights(calls)[c] = Amount[calls[c].intent]
           /\ SpentBy(calls, day, s) \in Int
<1>1. IsFiniteSet(SpendersOf(calls, day, s))
    <2>1. SpendersOf(calls, day, s) \subseteq StartedOf(calls)
        BY DEF SpendersOf, StartedOf
    <2> QED
        BY <2>1, FS_Subset
<1>2. ASSUME NEW c \in SpendersOf(calls, day, s)
      PROVE  Weights(calls)[c] \in Nat /\ Weights(calls)[c] = Amount[calls[c].intent]
    <2>1. c \in Calls /\ calls[c] \in CallState /\ calls[c] # Idle /\ calls[c] # Over
        BY DEF SpendersOf
    <2>2. calls[c].intent \in Intents
        BY <2>1 DEF CallState
    <2> QED
        BY <2>1, <2>2, RelayAssumption DEF Weights
<1>3. SpentBy(calls, day, s) \in Int
    <2>1. \A c \in SpendersOf(calls, day, s) : Weights(calls)[c] \in Int
        BY <1>2
    <2> QED
        BY <1>1, <2>1, SumInt DEF SpentBy
<1> QED
    BY <1>1, <1>2, <1>3

\* The model's sum is the one that is reasoned about.
LEMMA SpendsAre ==
    ASSUME NEW calls \in [Calls -> CallState], NEW day, NEW s, IsFiniteSet(StartedOf(calls))
    PROVE  SumFunctionOnSet([c \in SpendersOf(calls, day, s) |-> Amount[calls[c].intent]], SpendersOf(calls, day, s))
               = SpentBy(calls, day, s)
<1> DEFINE S == SpendersOf(calls, day, s)
           g == [c \in S |-> Amount[calls[c].intent]]
<1>1. IsFiniteSet(S) /\ \A c \in S : Weights(calls)[c] = Amount[calls[c].intent]
    BY WeightsNat
<1>2. \A c \in S : g[c] = Weights(calls)[c]
    BY <1>1
<1> HIDE DEF g, S
<1>3. Sum(g, S) = Sum(Weights(calls), S)
    BY <1>1, <1>2, SumSame
<1> QED
    BY <1>3 DEF Sum, SpentBy, g, S

\* One call stops spending, and what the others spend remains.
LEMMA SpentWithout ==
    ASSUME NEW calls \in [Calls -> CallState], NEW later \in [Calls -> CallState], NEW day, NEW s,
           NEW c \in SpendersOf(calls, day, s), c \notin SpendersOf(later, day, s),
           \A d \in Calls \ {c} : later[d] = calls[d],
           IsFiniteSet(StartedOf(calls)), IsFiniteSet(StartedOf(later))
    PROVE  SpentBy(calls, day, s) = Amount[calls[c].intent] + SpentBy(later, day, s)
<1> DEFINE S == SpendersOf(calls, day, s)
           T == SpendersOf(later, day, s)
<1>1. T = S \ {c}
    BY DEF SpendersOf
<1>2. /\ IsFiniteSet(S) /\ IsFiniteSet(T)
      /\ \A d \in S : Weights(calls)[d] \in Int /\ Weights(calls)[d] = Amount[calls[d].intent]
      /\ \A d \in T : Weights(later)[d] = Amount[later[d].intent]
    BY WeightsNat
<1>3. \A d \in T : later[d] = calls[d] /\ d \in S
    BY <1>1 DEF SpendersOf
<1>4. \A d \in T : Weights(later)[d] = Weights(calls)[d]
    BY <1>2, <1>3
<1> HIDE DEF S, T
<1>5. Sum(Weights(later), T) = Sum(Weights(calls), T)
    BY <1>2, <1>4, SumSame
<1>6. Sum(Weights(calls), S) = Weights(calls)[c] + Sum(Weights(calls), S \ {c})
    BY <1>2, SumTakeOut DEF S
<1> QED
    BY <1>1, <1>2, <1>5, <1>6 DEF SpentBy, S, T

\* A call that spends what it spent, or nothing as before.
LEMMA SpentSame ==
    ASSUME NEW calls \in [Calls -> CallState], NEW later \in [Calls -> CallState], NEW day, NEW s,
           SpendersOf(calls, day, s) = SpendersOf(later, day, s),
           \A d \in SpendersOf(calls, day, s) : later[d].intent = calls[d].intent,
           IsFiniteSet(StartedOf(calls)), IsFiniteSet(StartedOf(later))
    PROVE  SpentBy(calls, day, s) = SpentBy(later, day, s)
<1> DEFINE S == SpendersOf(calls, day, s)
<1>1. /\ IsFiniteSet(S)
      /\ \A d \in S : Weights(calls)[d] = Amount[calls[d].intent]
      /\ \A d \in S : Weights(later)[d] = Amount[later[d].intent]
    BY WeightsNat
<1>2. \A d \in S : Weights(later)[d] = Weights(calls)[d]
    BY <1>1
<1> HIDE DEF S
<1>3. Sum(Weights(later), S) = Sum(Weights(calls), S)
    BY <1>1, <1>2, SumSame
<1> QED
    BY <1>3 DEF SpentBy, S

\* The buckets after a step of one call, given what it does to its instance.
LEMMA BucketsStay ==
    ASSUME RInv, BudgetInv, NEW c \in Calls, OneCall(c), NEW s \in Servers,
           \A t \in Servers \ {s} : used'[t] = used[t] /\ c \notin Spenders(t) /\ c \notin SpendersOf(call', today, t),
           used'[s].day \in {used[s].day, today},
           SpendersOf(call', today, s) # {} => used'[s].day = today,
           call'[c] \notin {Idle, Over} => call'[c].day <= today,
           IsFiniteSet(StartedOf(call')) => 
               (~crossed' => ~crossed /\ SpentBy(call', today, s) <= (IF used'[s].day = today THEN used'[s].total ELSE 0))
    PROVE  BudgetInv'
<1> USE DEF BudgetInv
<1>1. /\ OnlyCall(c) /\ today' = today /\ call' \in [Calls -> CallState] /\ call \in [Calls -> CallState]
      /\ today \in Nat /\ \A t \in Servers : used[t].day \in Nat
    BY RelayAssumption DEF RInv, TypeOK, OneCall, OneCallTypes, OnlyCall
<1>2. IsFiniteSet(StartedOf(call')) /\ IsFiniteSet(StartedOf(call))
    <2>1. Started = StartedOf(call)
        BY DEF Started, StartedOf
    <2>2. StartedOf(call') \subseteq Started \cup {c}
        BY <1>1 DEF OnlyCall, StartedOf, Started
    <2>3. IsFiniteSet(Started \cup {c})
        BY FS_AddElement
    <2> QED
        BY <2>1, <2>2, <2>3, FS_Subset
<1>3. Started' = StartedOf(call') /\ \A t \in Servers : Spenders(t)' = SpendersOf(call', today, t) /\ Spenders(t) = SpendersOf(call, today, t)
    BY <1>1 DEF Started, StartedOf, Spenders, SpendersOf
<1>4. DaysPast'
    <2>1. \A t \in Servers : used'[t].day <= today
        BY <1>1 DEF DaysPast
    <2>2. \A d \in Calls : call'[d] \notin {Idle, Over} => call'[d].day <= today
        BY <1>1 DEF DaysPast, OnlyCall
    <2>3. ASSUME NEW t \in Servers, SpendersOf(call', today, t) # {} PROVE used'[t].day = today
        <3>1. CASE t # s
            <4>1. SpendersOf(call', today, t) \subseteq Spenders(t)
                BY <1>1, <3>1 DEF OnlyCall, SpendersOf, Spenders
            <4> QED
                BY <2>3, <3>1, <4>1 DEF DaysPast
        <3> QED
            BY <2>3, <3>1
    <2> QED
        BY <1>1, <1>3, <2>1, <2>2, <2>3 DEF DaysPast
<1>5. BucketCovers'
    <2> SUFFICES ASSUME ~crossed', NEW t \in Servers PROVE Spends(t)' <= Total(t)'
        BY DEF BucketCovers
    <2>1. Spends(t)' = SpentBy(call', today, t)
        BY <1>1, <1>2, <1>3, SpendsAre DEF Spends
    <2>2. Spends(t) = SpentBy(call, today, t)
        BY <1>1, <1>2, <1>3, SpendsAre DEF Spends
    <2>3. Total(t)' = IF used'[t].day = today THEN used'[t].total ELSE 0
        BY <1>1 DEF Total
    <2>4. CASE t = s
        BY <1>2, <2>1, <2>3, <2>4
    <2>5. CASE t # s
        <3>1. SpendersOf(call, today, t) = SpendersOf(call', today, t)
            BY <1>1, <1>3, <2>5 DEF OnlyCall, SpendersOf
        <3>2. c \notin SpendersOf(call, today, t)
            BY <1>3, <2>5
        <3>3. \A d \in SpendersOf(call, today, t) : call'[d].intent = call[d].intent
            BY <1>1, <3>2 DEF OnlyCall, SpendersOf
        <3>4. SpentBy(call, today, t) = SpentBy(call', today, t)
            BY <1>1, <1>2, <3>1, <3>3, SpentSame
        <3>5. Spends(t) <= Total(t)
            BY <1>2 DEF BucketCovers
        <3>6. Total(t)' = Total(t)
            BY <1>1, <2>3, <2>5 DEF Total
        <3> QED
            BY <2>1, <2>2, <3>4, <3>5, <3>6
    <2> QED
        BY <2>4, <2>5
<1> QED
    BY <1>2, <1>3, <1>4, <1>5

\* What Spends and Total are now, and where a call that spends is.
LEMMA BucketNow ==
    ASSUME RInv, BudgetInv, NEW s \in Servers
    PROVE  /\ Spends(s) = SpentBy(call, today, s) /\ SpentBy(call, today, s) \in Int
           /\ Spenders(s) = SpendersOf(call, today, s)
           /\ ~crossed => SpentBy(call, today, s) <= Total(s)
           /\ Total(s) \in Nat /\ Total(s) <= MaxDaily /\ IsFiniteSet(StartedOf(call))
<1>1. call \in [Calls -> CallState] /\ IsFiniteSet(StartedOf(call)) /\ Spenders(s) = SpendersOf(call, today, s)
    BY DEF RInv, TypeOK, BudgetInv, Started, StartedOf, Spenders, SpendersOf
<1>2. Spends(s) = SpentBy(call, today, s) /\ SpentBy(call, today, s) \in Int
    BY <1>1, SpendsAre, WeightsNat DEF Spends
<1>3. Total(s) \in 0..MaxDaily
    BY RelayAssumption DEF Total, RInv, TypeOK
<1> QED
    BY <1>1, <1>2, <1>3, RelayAssumption DEF BudgetInv, BucketCovers

\* A call that goes on keeps its reservation.
LEMMA GoesOnBudget ==
    ASSUME RInv, BudgetInv, NEW c \in Live, OneCall(c), GoesOn(c)
    PROVE  BudgetInv'
<1>1. /\ c \in Calls /\ call[c] \in LiveCall /\ call[c] \notin {Idle, Over} /\ OnlyCall(c)
      /\ call \in [Calls -> CallState] /\ call' \in [Calls -> CallState]
    BY LiveShape, LiveAre DEF RInv, TypeOK, OneCall, OneCallTypes, OnlyCall
<1> DEFINE s == call[c].server
<1>2. s \in Servers
    BY <1>1 DEF LiveCall
<1>3. /\ call'[c] \notin {Idle, Over} /\ call'[c].server = s /\ call'[c].intent = call[c].intent
      /\ call'[c].day = call[c].day /\ UNCHANGED <<used, crossed>>
    BY DEF GoesOn, Live, Idle, Over, Steps
<1>4. \A t \in Servers : SpendersOf(call', today, t) = SpendersOf(call, today, t)
    BY <1>1, <1>3 DEF OnlyCall, SpendersOf
<1>5. \A t \in Servers \ {s} : c \notin Spenders(t) /\ c \notin SpendersOf(call', today, t)
    BY <1>3, <1>4 DEF Spenders, SpendersOf
<1>6. \A d \in SpendersOf(call, today, s) : call'[d].intent = call[d].intent
    BY <1>1, <1>3 DEF OnlyCall, SpendersOf
<1> HIDE DEF s
<1>7. ASSUME IsFiniteSet(StartedOf(call')) PROVE SpentBy(call', today, s) = SpentBy(call, today, s)
    BY <1>1, <1>2, <1>4, <1>6, <1>7, BucketNow, SpentSame
<1>8. SpendersOf(call', today, s) # {} => used'[s].day = today
    BY <1>2, <1>3, <1>4, BucketNow DEF BudgetInv, DaysPast
<1>9. call'[c].day <= today
    BY <1>1, <1>3 DEF BudgetInv, DaysPast
<1>10. IsFiniteSet(StartedOf(call')) => (~crossed' => ~crossed /\ SpentBy(call', today, s) <= (IF used'[s].day = today THEN used'[s].total ELSE 0))
    BY <1>2, <1>3, <1>7, BucketNow DEF Total
<1> QED
    BY <1>1, <1>2, <1>3, <1>5, <1>8, <1>9, <1>10, BucketsStay

\* A call that fails gives its amount back to today's bucket, and one that
\* succeeds leaves it there.
LEMMA AnswerBudget ==
    ASSUME RInv, BudgetInv, NEW c \in Live, OneCall(c), Answers(c)
    PROVE  BudgetInv'
<1>1. /\ c \in Calls /\ call[c] \in LiveCall /\ call[c] \notin {Idle, Over} /\ OnlyCall(c) /\ TypeOK
      /\ call \in [Calls -> CallState] /\ call' \in [Calls -> CallState]
    BY LiveShape, LiveAre DEF RInv, TypeOK, OneCall, OneCallTypes, OnlyCall
<1>2. PICK hash \in {<<>>, Hash(c)}, ok \in BOOLEAN : Answer(c, hash, ok)
    BY Zenon DEF Answers
<1> DEFINE s == call[c].server
<1>3. s \in Servers /\ call[c].intent \in Intents
    BY <1>1 DEF LiveCall
<1>4. /\ Settled(c, call[c].intent, ok)
      /\ call'[c] # Over => call'[c].server = s /\ call'[c].day = call[c].day
    BY <1>1, <1>2, AnswerSettles
<1>5. /\ call'[c] # Idle
      /\ call'[c] # Over => ok /\ call'[c].intent = call[c].intent
    BY <1>4 DEF Settled
<1>6. /\ used' = IF ok THEN used ELSE GivenBack(s, call[c].intent)
      /\ crossed' = (crossed \/ (~ok /\ call[c].day # today /\ used[s].day = today))
    BY <1>2 DEF Answer
<1>7. used \in [Servers -> [day: 0..MaxDay, total: 0..MaxDaily]] /\ Amount[call[c].intent] \in Nat /\ today \in Nat
    <2>1. today \in 0..MaxDay /\ used \in [Servers -> [day: 0..MaxDay, total: 0..MaxDaily]]
        BY <1>1 DEF TypeOK
    <2>2. Amount[call[c].intent] \in Nat
        BY <1>3, RelayAssumption
    <2> QED
        BY <2>1, <2>2, RelayAssumption
<1>8. \A t \in Servers \ {s} : c \notin Spenders(t) /\ c \notin SpendersOf(call', today, t)
    BY <1>4 DEF Spenders, SpendersOf
<1> HIDE DEF s
<1>9. /\ \A t \in Servers \ {s} : used'[t] = used[t]
      /\ used'[s].day = used[s].day
    BY <1>3, <1>6, <1>7 DEF GivenBack
<1>10. SpendersOf(call', today, s) \subseteq SpendersOf(call, today, s)
    BY <1>1, <1>4 DEF OnlyCall, SpendersOf, s
<1>11. SpendersOf(call', today, s) # {} => used'[s].day = today
    BY <1>3, <1>9, <1>10, BucketNow DEF BudgetInv, DaysPast
<1>12. call'[c] \notin {Idle, Over} => call'[c].day <= today
    BY <1>1, <1>4 DEF BudgetInv, DaysPast
<1>13. /\ SpentBy(call, today, s) \in Int /\ IsFiniteSet(StartedOf(call))
       /\ ~crossed => SpentBy(call, today, s) <= Total(s)
    BY <1>3, BucketNow
<1>14. ASSUME IsFiniteSet(StartedOf(call')), ~crossed'
       PROVE  ~crossed /\ SpentBy(call', today, s) <= (IF used'[s].day = today THEN used'[s].total ELSE 0)
    <2>1. ~crossed /\ SpentBy(call, today, s) <= Total(s) /\ SpentBy(call', today, s) \in Int
        BY <1>1, <1>6, <1>13, <1>14, WeightsNat
    <2>2. CASE SpendersOf(call', today, s) = SpendersOf(call, today, s)
        <3>1. \A d \in SpendersOf(call, today, s) : call'[d].intent = call[d].intent
            BY <1>1, <1>5, <2>2 DEF OnlyCall, SpendersOf
        <3>2. SpentBy(call', today, s) = SpentBy(call, today, s)
            BY <1>1, <1>13, <1>14, <2>2, <3>1, SpentSame
        <3>3. CASE ok
            BY <1>6, <2>1, <3>2, <3>3 DEF Total
        <3>4. CASE ~ok
            <4>1. call'[c] = Over
                BY <1>5, <3>4
            <4>2. c \notin SpendersOf(call, today, s)
                BY <2>2, <4>1 DEF SpendersOf
            <4>3. call[c].day # today
                BY <1>1, <4>2 DEF SpendersOf, s
            <4>4. used' = used
                BY <1>6, <1>14, <3>4, <4>3 DEF GivenBack
            <4> QED
                BY <2>1, <3>2, <4>4 DEF Total
        <3> QED
            BY <3>3, <3>4
    <2>3. CASE SpendersOf(call', today, s) # SpendersOf(call, today, s)
        <3>1. c \in SpendersOf(call, today, s) /\ c \notin SpendersOf(call', today, s)
            BY <1>1, <1>10, <2>3 DEF OnlyCall, SpendersOf
        <3>2. \A d \in Calls \ {c} : call'[d] = call[d]
            BY <1>1 DEF OnlyCall
        <3>3. SpentBy(call, today, s) = Amount[call[c].intent] + SpentBy(call', today, s)
            BY <1>1, <1>13, <1>14, <3>1, <3>2, SpentWithout
        <3>4. used[s].day = today
            BY <1>3, <3>1, BucketNow DEF BudgetInv, DaysPast
        <3>5. used[s].total \in Nat
            BY <1>3, <1>7, RelayAssumption
        <3>6. used'[s].day = today /\ (used'[s].total = used[s].total \/ used'[s].total = IF used[s].total < Amount[call[c].intent] THEN 0 ELSE used[s].total - Amount[call[c].intent])
            BY <1>3, <1>6, <1>7, <1>9, <3>4 DEF GivenBack
        <3>7. SpentBy(call, today, s) <= used[s].total
            BY <2>1, <3>4 DEF Total
        <3> QED
            BY <1>7, <2>1, <3>3, <3>5, <3>6, <3>7, <1>13
    <2> QED
        BY <2>2, <2>3
<1> QED
    BY <1>1, <1>3, <1>8, <1>9, <1>11, <1>12, <1>14, BucketsStay

\* What starts, or turns out to be landed, is reserved if it fits.
LEMMA StartBudget ==
    ASSUME RInv, BudgetInv, NEW c \in Calls, NEW s \in Servers, NEW intent \in Intents, Start(c, s, intent)
    PROVE  BudgetInv'
<1> DEFINE started == [step |-> FirstStep, server |-> s, intent |-> intent, day |-> today, attempt |-> 1, nonce |-> None, issued |-> FALSE]
           row == rows[Oldest(Landed(intent))]
           ok == row.status = "confirmed"
<1>1. /\ OneCall(c) /\ OnlyCall(c) /\ TypeOK /\ crossed' = crossed
      /\ call \in [Calls -> CallState] /\ call' \in [Calls -> CallState] /\ rows \in Seq(RowSet)
    BY StartSteps DEF RInv, TypeOK, OneCall, OneCallTypes, OnlyCall, Start, RowSet
<1>2. call[c] = Idle
    BY DEF Start
<1>3. used \in [Servers -> [day: 0..MaxDay, total: 0..MaxDaily]] /\ Amount[intent] \in Nat /\ today \in Nat /\ today \in 0..MaxDay
    BY <1>1, RelayAssumption DEF TypeOK
<1>4. Total(s) \in Nat
    BY BucketNow
<1>5. \/ call' = [call EXCEPT ![c] = started] /\ used' = Reserved(s, intent)
      \/ call' = [call EXCEPT ![c] = Over] /\ used' = Reserved(s, intent)
      \/ /\ Landed(intent) # {} /\ Ends(c, s, intent, today, row.hash, ok)
         /\ used' = IF ok THEN Reserved(s, intent) ELSE [used EXCEPT ![s] = [day |-> today, total |-> Total(s)]]
    BY DEF Start
<1>6. started.server = s /\ started.intent = intent /\ started.day = today /\ started.step # "idle"
    BY DEF FirstStep
<1> HIDE DEF started
<1>7. /\ call'[c] # Over => call'[c].server = s /\ call'[c].intent = intent /\ call'[c].day = today
      /\ call'[c] # Idle
      /\ \/ used' = Reserved(s, intent)
         \/ call'[c] = Over /\ used' = [used EXCEPT ![s] = [day |-> today, total |-> Total(s)]]
    <2>1. CASE call' = [call EXCEPT ![c] = started] /\ used' = Reserved(s, intent)
        <3>1. call'[c] = started /\ started # Idle
            BY <1>1, <1>6, <2>1 DEF Idle
        <3> QED
            BY <1>6, <2>1, <3>1
    <2>2. CASE call' = [call EXCEPT ![c] = Over] /\ used' = Reserved(s, intent)
        BY <1>1, <2>2 DEF Over, Idle
    <2>3. CASE /\ Landed(intent) # {} /\ Ends(c, s, intent, today, row.hash, ok)
               /\ used' = IF ok THEN Reserved(s, intent) ELSE [used EXCEPT ![s] = [day |-> today, total |-> Total(s)]]
        <3>0. Oldest(Landed(intent)) \in 1..Len(rows)
            BY <1>1, <2>3, OldestLanded, LenProperties DEF Landed
        <3>1. row \in RowSet
            BY <1>1, <3>0, ElementOfSeq
        <3>2. row.hash \in Calls \X Nat /\ ok \in BOOLEAN
            BY <3>1 DEF RowSet
        <3> HIDE DEF row, ok
        <3>3. Settled(c, intent, ok) /\ (call'[c] # Over => call'[c].server = s /\ call'[c].day = today)
            BY <1>1, <1>3, <2>3, <3>2, EndsSettles
        <3> QED
            BY <2>3, <3>3 DEF Settled
    <2> QED
        BY <1>5, <2>1, <2>2, <2>3
<1> HIDE DEF row, ok
<1>8. /\ \A t \in Servers \ {s} : used'[t] = used[t] /\ c \notin Spenders(t) /\ c \notin SpendersOf(call', today, t)
      /\ c \notin SpendersOf(call, today, s)
    BY <1>2, <1>3, <1>7 DEF Spenders, SpendersOf, Reserved
<1>9. used'[s].day = today /\ \/ used'[s].total = Total(s) + Amount[intent]
                              \/ call'[c] = Over /\ used'[s].total = Total(s)
    BY <1>3, <1>7 DEF Reserved
<1>10. call'[c] \notin {Idle, Over} => call'[c].day <= today
    BY <1>3, <1>7
<1>11. ASSUME IsFiniteSet(StartedOf(call')), ~crossed'
       PROVE  ~crossed /\ SpentBy(call', today, s) <= (IF used'[s].day = today THEN used'[s].total ELSE 0)
    <2>1. ~crossed /\ SpentBy(call, today, s) <= Total(s) /\ SpentBy(call, today, s) \in Int /\ IsFiniteSet(StartedOf(call))
        BY <1>1, <1>11, BucketNow
    <2>2. CASE call'[c] = Over
        <3>1. SpendersOf(call', today, s) = SpendersOf(call, today, s)
            BY <1>1, <1>2, <2>2 DEF OnlyCall, SpendersOf
        <3>2. \A d \in SpendersOf(call, today, s) : call'[d].intent = call[d].intent
            BY <1>1, <1>8 DEF OnlyCall, SpendersOf
        <3>3. SpentBy(call', today, s) = SpentBy(call, today, s)
            BY <1>1, <1>11, <2>1, <3>1, <3>2, SpentSame
        <3> QED
            BY <1>3, <1>4, <1>9, <2>1, <3>3
    <2>3. CASE call'[c] # Over
        <3>1. c \in SpendersOf(call', today, s)
            BY <1>7, <2>3 DEF SpendersOf
        <3>2. \A d \in Calls \ {c} : call[d] = call'[d]
            BY <1>1 DEF OnlyCall
        <3>3. SpentBy(call', today, s) = Amount[call'[c].intent] + SpentBy(call, today, s)
            BY <1>1, <1>8, <1>11, <2>1, <3>1, <3>2, SpentWithout
        <3> QED
            BY <1>3, <1>4, <1>7, <1>9, <2>1, <2>3, <3>3
    <2> QED
        BY <2>2, <2>3
<1> QED
    BY <1>1, <1>8, <1>9, <1>10, <1>11, BucketsStay

\* Nobody has spent on a day that begins.
LEMMA MidnightBudget == ASSUME RInv, BudgetInv, Midnight PROVE BudgetInv'
<1> USE DEF BudgetInv
<1>1. today \in Nat /\ today' = today + 1 /\ UNCHANGED <<call, used, crossed>>
      /\ \A t \in Servers : used[t].day \in Nat /\ used[t].day <= today
    BY RelayAssumption DEF RInv, TypeOK, Midnight, DaysPast
<1>2. /\ \A s \in Servers : used'[s].day < today'
      /\ \A c \in Calls : call'[c] \notin {Idle, Over} => call'[c].day < today'
    <2>1. ASSUME NEW c \in Calls, call[c] \notin {Idle, Over} PROVE call[c].day \in Nat /\ call[c].day <= today
        <3>1. call[c] \in CallState
            BY DEF RInv, TypeOK
        <3>2. call[c].day \in 0..MaxDay
            BY <2>1, <3>1 DEF CallState
        <3> QED
            BY <2>1, <3>2, RelayAssumption DEF DaysPast
    <2> QED
        BY <1>1, <2>1
<1>3. \A s \in Servers : Spenders(s)' = {}
    <2>1. ASSUME NEW c \in Calls, call'[c] \notin {Idle, Over} PROVE call'[c].day # today'
        <3>1. call'[c].day < today'
            BY <1>2, <2>1
        <3>2. call'[c].day \in Int
            <4>1. call[c] \in CallState
                BY DEF RInv, TypeOK
            <4>2. call[c].day \in 0..MaxDay
                BY <1>1, <2>1, <4>1 DEF CallState
            <4> QED
                BY <1>1, <4>2, RelayAssumption
        <3> QED
            BY <1>1, <3>1, <3>2
    <2> QED
        BY <2>1 DEF Spenders
<1>4. Started' = Started
    BY <1>1 DEF Started
<1>5. DaysPast'
    <2>1. \A s \in Servers : used'[s].day <= today'
        BY <1>1
    <2>2. ASSUME NEW c \in Calls, call'[c] \notin {Idle, Over} PROVE call'[c].day <= today'
        <3>1. call[c] \in CallState
            BY DEF RInv, TypeOK
        <3>2. call[c].day \in 0..MaxDay /\ call[c].day <= today
            BY <1>1, <2>2, <3>1 DEF CallState, DaysPast
        <3> QED
            BY <1>1, <3>2, RelayAssumption
    <2> QED
        BY <1>3, <2>1, <2>2 DEF DaysPast
<1>6. BucketCovers'
    <2> SUFFICES ASSUME NEW s \in Servers PROVE Spends(s)' <= Total(s)'
        BY DEF BucketCovers
    <2>1. Total(s)' = 0
        BY <1>1 DEF Total
    <2>2. Spends(s)' = 0
        BY <1>3, SumEmpty DEF Spends, Sum
    <2> QED
        BY <2>1, <2>2
<1> QED
    BY <1>4, <1>5, <1>6

\* An instance that stops has spent nothing that it knows of.
LEMMA CrashBudget == ASSUME RInv, BudgetInv, NEW s \in Servers, Crash(s) PROVE BudgetInv'
<1> USE DEF BudgetInv
<1> DEFINE lost == {c \in Calls : call[c] \notin {Idle, Over} /\ call[c].server = s}
<1>1. /\ call' = [c \in Calls |-> IF c \in lost THEN Over ELSE call[c]]
      /\ used' = [used EXCEPT ![s] = [day |-> today, total |-> 0]]
      /\ today' = today /\ crossed' = crossed
    BY DEF Crash
<1>2. RInv' /\ today \in Nat /\ used \in [Servers -> [day: 0..MaxDay, total: 0..MaxDaily]]
    <2>1. RInv'
        BY CrashKeeps
    <2>2. TypeOK
        BY DEF RInv
    <2>3. today \in Nat /\ used \in [Servers -> [day: 0..MaxDay, total: 0..MaxDaily]]
        BY ONLY <2>2, RelayAssumption DEF TypeOK
    <2> QED
        BY <2>1, <2>3
<1>3. /\ call' \in [Calls -> CallState] /\ call \in [Calls -> CallState] /\ Started' = StartedOf(call')
      /\ Started = StartedOf(call)
    BY <1>2 DEF RInv, TypeOK, Started, StartedOf
<1>4. StartedOf(call') = Started
    BY <1>1 DEF Started, StartedOf, Over, Idle
<1>5. \A t \in Servers : /\ Spenders(t)' = SpendersOf(call', today, t)
                         /\ Spenders(t) = SpendersOf(call, today, t)
    BY <1>1 DEF Spenders, SpendersOf
<1>6. SpendersOf(call', today, s) = {}
    BY <1>1 DEF SpendersOf
<1>7. \A t \in Servers \ {s} : \A c \in SpendersOf(call, today, t) : c \notin lost
    BY DEF SpendersOf
<1>8. \A t \in Servers \ {s} : /\ SpendersOf(call', today, t) = SpendersOf(call, today, t)
                               /\ \A c \in SpendersOf(call, today, t) : call'[c] = call[c]
    BY <1>1, <1>7 DEF SpendersOf
<1>9. DaysPast'
    <2>1. \A t \in Servers : used'[t].day <= today
        BY <1>1, <1>2 DEF DaysPast
    <2>2. \A c \in Calls : call'[c] \notin {Idle, Over} => call'[c].day <= today
        BY <1>1 DEF DaysPast
    <2>3. \A t \in Servers : Spenders(t)' # {} => used'[t].day = today
        BY <1>1, <1>2, <1>5, <1>6, <1>8 DEF DaysPast
    <2> QED
        BY <1>1, <2>1, <2>2, <2>3 DEF DaysPast
<1> HIDE DEF lost
<1>10. BucketCovers'
    <2> SUFFICES ASSUME ~crossed', NEW t \in Servers PROVE Spends(t)' <= Total(t)'
        BY DEF BucketCovers
    <2>1. CASE t = s
        <3>1. Spends(t)' = 0
            BY <1>5, <1>6, <2>1, SumEmpty DEF Spends, Sum
        <3>2. Total(t)' = 0
            BY <1>1, <1>2, <2>1 DEF Total
        <3> QED
            BY <3>1, <3>2
    <2>2. CASE t # s
        <3>1. Spends(t)' = SpentBy(call', today, t)
            BY <1>3, <1>4, <1>5, SpendsAre DEF Spends
        <3>2. SpentBy(call', today, t) = SpentBy(call, today, t)
            BY <1>3, <1>4, <1>8, <2>2, SpentSame
        <3>3. SpentBy(call, today, t) <= Total(t)
            BY <1>1, BucketNow
        <3>4. Total(t)' = Total(t)
            BY <1>1, <1>2, <2>2 DEF Total
        <3> QED
            BY <3>1, <3>2, <3>3, <3>4
    <2> QED
        BY <2>1, <2>2
<1> QED
    BY <1>3, <1>4, <1>9, <1>10

\* Buckets start empty.
LEMMA InitBudget == ASSUME Init PROVE BudgetInv
<1>1. Started = {} /\ \A s \in Servers : Spenders(s) = {}
    BY DEF Init, Started, Spenders
<1>2. IsFiniteSet(Started)
    BY <1>1, FS_EmptySet
<1>3. DaysPast
    BY <1>1 DEF Init, DaysPast
<1>4. BucketCovers
    <2> SUFFICES ASSUME NEW s \in Servers PROVE Spends(s) <= Total(s)
        BY DEF BucketCovers
    <2>1. Spends(s) = 0
        BY <1>1, SumEmpty DEF Spends, Sum
    <2>2. Total(s) = 0
        BY DEF Init, Total
    <2> QED
        BY <2>1, <2>2
<1> QED
    BY <1>2, <1>3, <1>4 DEF BudgetInv

\* The inductive invariant of the buckets, on top of that of the nonces.
THEOREM BucketInvariant == Spec => []BudgetInv
<1>1. RInv /\ BudgetInv /\ [Next]_vars => BudgetInv'
    <2> SUFFICES ASSUME RInv, BudgetInv, [Next]_vars PROVE BudgetInv'
        OBVIOUS
    <2>1. ASSUME NEW c \in Calls, NEW s \in Servers, NEW intent \in Intents, Start(c, s, intent) PROVE BudgetInv'
        BY <2>1, StartBudget
    <2>2. ASSUME NEW c \in Calls, Proceed(c) \/ Fault(c) PROVE BudgetInv'
        BY <2>2, CallSteps, GoesOnOrAnswers, GoesOnBudget, AnswerBudget
    <2>3. ASSUME NEW s \in Servers, Crash(s) PROVE BudgetInv'
        BY <2>3, CrashBudget
    <2>4. CASE Midnight
        BY <2>4, MidnightBudget
    <2>5. CASE Mine \/ UNCHANGED vars
        <3>1. UNCHANGED <<call, used, today, crossed>>
            BY <2>5 DEF Mine
        <3>2. Started' = Started /\ DaysPast' /\ \A s \in Servers : Spenders(s)' = Spenders(s)
            BY <3>1 DEF BudgetInv, Started, DaysPast, Spenders
        <3>3. BucketCovers'
            BY <3>1, <3>2 DEF BudgetInv, BucketCovers, Spends, Total
        <3> QED
            BY <3>2, <3>3 DEF BudgetInv
    <2> QED
        BY <2>1, <2>2, <2>3, <2>4, <2>5 DEF Next
<1>2. Init => BudgetInv
    BY InitBudget
<1> QED
    BY <1>1, <1>2, NoncesInvariant, PTL DEF Spec

\* evaluatePolicy and createDailyCumulativeStore: the calls of one instance spend
\* no more on a day than the policy allows, unless an amount was given back on
\* another day than it was reserved on.
THEOREM SoftCeilingKept == Spec => []SoftCeilingHolds
<1>1. RInv /\ BudgetInv => SoftCeilingHolds
    <2> SUFFICES ASSUME RInv, BudgetInv, ~crossed, NEW s \in Servers PROVE Spends(s) <= MaxDaily
        BY DEF SoftCeilingHolds
    <2>1. /\ Spends(s) = SpentBy(call, today, s) /\ SpentBy(call, today, s) \in Int
          /\ SpentBy(call, today, s) <= Total(s) /\ Total(s) \in Nat /\ Total(s) <= MaxDaily
        BY BucketNow
    <2> QED
        BY <2>1, RelayAssumption
<1> QED
    BY <1>1, NoncesInvariant, BucketInvariant, PTL
=============================================================================
