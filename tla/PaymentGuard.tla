----------------------------- MODULE PaymentGuard ----------------------------
(***************************************************************************)
(* The x402 guardrail (packages/guardrail-x402/src/index.js): evaluation   *)
(* of payments that wait at every await, the ledger of reservations, the   *)
(* single use of a signed snapshot; and the mandates that guardrail-ap2    *)
(* binds to snapshots.                                                     *)
(*                                                                         *)
(* Abstractions.  One agent.  A hash and a signature are what they cover.  *)
(* A payment's recipient, asset and chain are one name each.  The ledger   *)
(* keeps amounts and expiries only; here a reservation is the payment that *)
(* made it, whose amount and expiry it has, and what the ledger does never *)
(* asks for more than these two.                                           *)
(***************************************************************************)
EXTENDS SpendPolicy, FiniteSets, Functions

CONSTANTS
    Payments,     \* evaluations, each of one payment; its id is its nonce
    Offers,       \* what may be asked for: amount and scope
    Policies,     \* what the policy provider may return: policy and lists
    Checks,       \* calls of verifySnapshot
    Mandates,
    Ttl,          \* snapshotTtlMs, which is also the reservations' lifetime
    DayLength, LastTime

ASSUME GuardAssumption == Ttl \in Nat \ {0} /\ DayLength \in Nat \ {0}

ASSUME PaymentsAssumption == IsFiniteSet(Payments)

\* What checkSpendAllowedTiered can read: amounts, limits that parse.
ASSUME OffersAssumption == \A o \in Offers : o.amount \in SpendAmounts

ASSUME ProviderAssumption == \A policy \in Policies : policy.config \in SpendConfigs(PolicyTypes)

Scopes == {"recipient", "asset", "chain"}
Anything == {"*"}     \* a list that is not configured

VARIABLES
    now,
    settled,      \* payments that have been made, with their day
    held,         \* the ledger: whose reservations it holds
    eval,         \* of a payment: stage, and what it has read
    consumed,     \* nonce -> when the registry may forget it
    check,        \* of a verification: stage and snapshot
    mandate,
    late          \* something outlasted the lifetime of a reservation or snapshot

guard == <<settled, held, eval>>
verifier == <<consumed, check>>
guardVars == <<now, guard, verifier, mandate, late>>

NoEval == [stage |-> "idle", amount |-> Absent, config |-> NoPolicy, spent |-> 0, read |-> 0,
           pending |-> 0, until |-> 0]
NoCheck == [stage |-> "idle", of |-> 0]
NoMandate == [stage |-> "none", kind |-> "none", total |-> Absent, of |-> 0]

GuardInit ==
    /\ now = 1
    /\ settled = {}
    /\ held = {}
    /\ eval = [p \in Payments |-> NoEval]
    /\ consumed = <<>>
    /\ check = [c \in Checks |-> NoCheck]
    /\ mandate = [m \in Mandates |-> NoMandate]
    /\ late = FALSE

Stage(p) == eval[p].stage
To(p, notes) == eval' = [eval EXCEPT ![p] = notes]
Ends(p, stage) == To(p, [eval[p] EXCEPT !.stage = stage])

-----------------------------------------------------------------------------
(* The ledger. *)

Worth == [p \in Payments |-> eval[p].amount.n]

Live(list) == {q \in list : eval[q].until > now}
TotalOf(list) == SumFunctionOnSet(Worth, list)

\* Mutant: only what was settled counts.
ReserveBeside(config, spent, amount) ==
    config.maxDaily > 0 => spent + amount <= config.maxDaily

\* What is held counts, whatever the verdict was based on.
MayReserve(config, spent, amount) ==
    config.maxDaily > 0 => spent + TotalOf(Live(held)) + amount <= config.maxDaily

\* Mutant: everything of that amount is given back.
ReleaseAll(list, amount) == {q \in list : Worth[q] # amount}

\* The list is in the order the entries were made, and so of their expiry.
First(of) == CHOOSE q \in of : \A r \in of : eval[q].until <= eval[r].until

\* The first entry of the amount, whoever made it.
Release(list, amount) ==
    LET of == {q \in list : Worth[q] = amount} IN
    IF of = {} THEN list ELSE list \ {First(of)}

-----------------------------------------------------------------------------
(* evaluatePayment, one action for what happens between two awaits; what    *)
(* comes before the first reads only the arguments.                         *)

\* A list that is configured, an empty one too, is enforced.
InScope(lists, offer) ==
    \A s \in Scopes : lists[s] = Anything \/ offer[s] \in lists[s]

\* resolvePolicy: the provider answers what it will; checkScoping.
ReadPolicy(p) ==
    /\ Stage(p) = "idle"
    /\ \E o \in Offers, policy \in Policies :
           To(p, [eval[p] EXCEPT !.stage = IF InScope(policy.lists, o) THEN "scoped" ELSE "denied",
                                 !.config = policy.config, !.amount = o.amount])
    /\ UNCHANGED <<now, settled, held, verifier, mandate, late>>

Today == now \div DayLength
SettledOn(day) == {p \in Payments : [of |-> p, day |-> day] \in settled}
SpentOn(day) == SumFunctionOnSet(Worth, SettledOn(day))

ReadSpent(p) ==
    /\ Stage(p) = "scoped"
    /\ To(p, [eval[p] EXCEPT !.stage = "spent", !.spent = SpentOn(Today), !.read = now])
    /\ UNCHANGED <<now, settled, held, verifier, mandate, late>>

ReadPending(p) ==
    /\ Stage(p) = "spent"
    /\ To(p, [eval[p] EXCEPT !.stage = "summed", !.pending = TotalOf(Live(held))])
    /\ held' = Live(held)
    /\ UNCHANGED <<now, settled, verifier, mandate, late>>

\* A reservation that counted when the evaluation read what was spent has
\* lapsed: if its payment was made since, it counts nowhere.
LapsedSince(read) ==
    \/ \E q \in Payments : read < eval[q].until /\ eval[q].until <= now
    \/ read \div DayLength # Today

\* The verdict; in the same turn of the default ledger the reservation, the
\* snapshot, and the call of the signer.
Decide(p) ==
    /\ Stage(p) = "summed"
    /\ LET e == eval[p]
           verdict == CheckSpendAllowedTiered(e.config, e.amount, e.spent + e.pending)
           limited == e.config.type = "limit"
       IN  IF verdict = "allow" /\ (limited => MayReserve(e.config, e.spent, e.amount.n))
           THEN /\ To(p, [e EXCEPT !.stage = "signing", !.until = now + Ttl])
                /\ held' = IF limited THEN Live(held) \cup {p} ELSE held
                /\ late' = (late \/ LapsedSince(e.read))
           ELSE /\ Ends(p, CASE verdict = "timelock" -> "hold"
                             [] verdict = "approval" -> "approval-required"
                             [] OTHER -> "denied")
                /\ held' = IF verdict = "allow" THEN Live(held) ELSE held
                /\ late' = late
    /\ UNCHANGED <<now, settled, verifier, mandate>>

Outlasted(p) == now >= eval[p].until

\* The signer answers, or fails and the headroom is given back.
EndSign(p) ==
    /\ Stage(p) = "signing"
    /\ \/ Ends(p, "allow") /\ held' = held
       \/ /\ Ends(p, "failed")
          /\ held' = IF eval[p].config.type = "limit"
                     THEN Release(held, eval[p].amount.n) ELSE held
    /\ late' = (late \/ Outlasted(p))
    /\ UNCHANGED <<now, settled, verifier, mandate>>

\* withGuardrail: the payment is made or fails; its reservation stays.
DoPayment(p) ==
    /\ Stage(p) = "allow"
    /\ \/ /\ Ends(p, "paid")
          /\ settled' = settled \cup {[of |-> p, day |-> Today]}
       \/ Ends(p, "unpaid") /\ settled' = settled
    /\ late' = (late \/ Outlasted(p))
    /\ UNCHANGED <<now, held, verifier, mandate>>

-----------------------------------------------------------------------------
(* verifySnapshot: the expiry is read before the signature is verified, the *)
(* nonce is consumed after.                                                 *)

Signed(p) == Stage(p) \in {"allow", "paid", "unpaid"}

BeginVerify(c, p) ==
    /\ check[c].stage = "idle" /\ Signed(p)
    /\ check' = [check EXCEPT ![c] = [stage |-> IF eval[p].until > now THEN "verifying" ELSE "ended",
                                      of |-> p]]
    /\ UNCHANGED <<now, guard, consumed, mandate, late>>

Unforgotten == {n \in DOMAIN consumed : consumed[n] > now}

\* Mutant: the registry answers before it records.
SeenOnly(p) == [n \in Unforgotten |-> consumed[n]]

Consumed(p) ==
    [n \in Unforgotten \cup {p} |->
        IF n # p THEN consumed[n] ELSE IF eval[p].until > now THEN eval[p].until ELSE now + Ttl]

EndVerify(c) ==
    /\ check[c].stage = "verifying"
    /\ LET p == check[c].of
           fresh == p \notin Unforgotten
       IN  /\ consumed' = IF fresh THEN Consumed(p) ELSE [n \in Unforgotten |-> consumed[n]]
           /\ check' = [check EXCEPT ![c].stage = IF fresh THEN "accepted" ELSE "ended"]
           /\ late' = (late \/ (fresh /\ now >= eval[p].until))
    /\ UNCHANGED <<now, guard, mandate>>

-----------------------------------------------------------------------------
(* Mandates. *)

\* bind: only a signed snapshot that allows and has not expired; the total
\* of a checkout may be given by the caller.
Bind(m, p, kind, total) ==
    /\ mandate[m].stage = "none"
    /\ Signed(p) /\ eval[p].until > now
    /\ kind = "payment" => total = eval[p].amount
    /\ mandate' = [mandate EXCEPT ![m] =
           [stage |-> "cosigned", kind |-> kind, total |-> total, of |-> p]]
    /\ UNCHANGED <<now, guard, verifier, late>>

\* Mutant: only the binding to a snapshot is compared.
BoundTo(m, p, total) == mandate[m].of = p

Unmodified(m, p, total) == mandate[m].of = p /\ mandate[m].total = total

\* verifyCosignature: a mandate is data in the hands of others, and may come
\* back with another total.
VerifyCosignature(m, p, total) ==
    /\ mandate[m].stage = "cosigned"
    /\ Signed(p) /\ eval[p].until > now
    /\ Unmodified(m, p, total)
    /\ mandate' = [mandate EXCEPT ![m].stage = "verified", ![m].total = total]
    /\ UNCHANGED <<now, guard, verifier, late>>

Tick ==
    /\ now < LastTime
    /\ now' = now + 1
    /\ UNCHANGED <<guard, verifier, mandate, late>>

Amounts == {o.amount : o \in Offers}

Evaluate(p) ==
    \/ ReadPolicy(p) \/ ReadSpent(p) \/ ReadPending(p)
    \/ Decide(p) \/ EndSign(p) \/ DoPayment(p)

GuardNext ==
    \/ \E p \in Payments : Evaluate(p)
    \/ \E c \in Checks, p \in Payments : BeginVerify(c, p)
    \/ \E c \in Checks : EndVerify(c)
    \/ \E m \in Mandates, p \in Payments, kind \in {"checkout", "payment"}, k \in Amounts :
           Bind(m, p, kind, k)
    \/ \E m \in Mandates, p \in Payments, k \in Amounts : VerifyCosignature(m, p, k)
    \/ Tick

GuardSpec == GuardInit /\ [][GuardNext]_guardVars

-----------------------------------------------------------------------------
(* Properties. *)

CeilingOf(p) == eval[p].config.maxDaily

\* Payments that were judged by a daily ceiling.
Limited == {p \in Payments : eval[p].config.type = "limit" /\ CeilingOf(p) > 0}

\* P0-4: evaluations that overlap at every await do not together pay more in
\* a day than a ceiling that one of them was judged by, as long as none
\* outlasts the lifetime of its reservation or reads yesterday's total.
DayWithinCeiling ==
    ~late => \A s \in settled :
        LET paid == SettledOn(s.day) \cap Limited IN
        paid # {} => \E t \in paid : SumFunctionOnSet(Worth, paid) <= CeilingOf(t)

InFlight(k) ==
    {p \in Payments : /\ Stage(p) \in {"signing", "allow"}
                      /\ eval[p].config.type = "limit"
                      /\ eval[p].amount.n = k /\ ~Outlasted(p)}

\* A payment under way keeps its headroom until its reservation expires: a
\* failed signing gives back no other evaluation's.
HeadroomKept ==
    ~late => \A p \in Payments :
        LET k == eval[p].amount.n IN
        Cardinality(InFlight(k)) <= Cardinality({q \in Live(held) : Worth[q] = k})

Twice ==
    \E c, d \in Checks :
        c # d /\ check[c] = check[d] /\ check[c].stage = "accepted"

\* D6: a snapshot is honoured once, however its verifications overlap, unless
\* one of them ends after the snapshot has expired.
HonouredOnceInTime == ~late => ~Twice

\* verifySnapshot: "the nonce has never been consumed -> replay denied".
HonouredOnce == ~Twice

\* A payment mandate that verifies pays what a signed decision allowed.
MandateCovered ==
    \A m \in Mandates :
        mandate[m].stage = "verified" /\ mandate[m].kind = "payment" =>
            mandate[m].total = eval[mandate[m].of].amount
=============================================================================
