--------------------------- MODULE BoundedSpender ---------------------------
(***************************************************************************)
(* What an account promises whoever funds it, with no word on how: money   *)
(* leaves in payments, a payment is identified by the session and nonce it *)
(* was authorised with and happens at most once, a session's nonces only   *)
(* go up, and the payments of one window never total more than Ceiling.    *)
(* A window lasts for Window time units from its first payment, and the    *)
(* next one opens no sooner.                                               *)
(***************************************************************************)
EXTENDS Integers

CONSTANTS SessionNames, PaymentNonces, PaymentAmounts, Ceiling, Window

VARIABLES
    clock,
    windowStart,   \* 0 before the first payment
    windowSpent,
    paid           \* the set of <<session, nonce>> paid so far

ledger == <<windowStart, windowSpent, paid>>

Init ==
    /\ clock = 1
    /\ windowStart = 0
    /\ windowSpent = 0
    /\ paid = {}

WindowOver == windowStart = 0 \/ clock - windowStart >= Window

Fresh(session, nonce) == \A p \in paid : p[1] = session => p[2] < nonce

Pay(session, nonce, amount) ==
    /\ Fresh(session, nonce)
    /\ paid' = paid \cup {<<session, nonce>>}
    /\ \/ WindowOver /\ windowStart' = clock /\ windowSpent' = amount
       \/ ~WindowOver /\ windowStart' = windowStart /\ windowSpent' = windowSpent + amount
    /\ windowSpent' <= Ceiling
    /\ UNCHANGED clock

TimePasses ==
    /\ clock' = clock + 1
    /\ UNCHANGED ledger

Next ==
    \/ TimePasses
    \/ \E session \in SessionNames, nonce \in PaymentNonces, amount \in PaymentAmounts :
            Pay(session, nonce, amount)

Spec == Init /\ [][Next]_<<clock, ledger>>
=============================================================================
