----------------------------- MODULE SpendPolicy -----------------------------
(***************************************************************************)
(* Spend policies (packages/agent-keys/src/takeover.js): what a policy     *)
(* says of an amount, the three tiers, and how a signer combines the       *)
(* policy bound to a key with the one its parent asks for.                 *)
(*                                                                         *)
(* Abstractions.  A decimal string is the integer it denotes; an amount    *)
(* that is missing or does not parse has a tag of its own.  0 in a         *)
(* ceiling is "none", as in the code, whether written or missing.          *)
(***************************************************************************)
EXTENDS Integers

CONSTANTS
    DefaultSmall,   \* DEFAULT_TIER_THRESHOLDS: 10 and 100 in the code
    DefaultLarge

ASSUME ThresholdsAssumption ==
    DefaultSmall \in Nat /\ DefaultLarge \in Nat /\ 0 < DefaultSmall /\ DefaultSmall < DefaultLarge

\* SpendAmounts as they arrive in a request.
Num(k) == [tag |-> "number", n |-> k]
Absent == [tag |-> "absent", n |-> 0]
Malformed == [tag |-> "malformed", n |-> 0]

SpendAmounts == [tag : {"number", "absent", "malformed"}, n : Int]

Modes == {"unlimited", "limit", "require-approval"}

\* What a type field may say: a mode, nothing, or a word that is no mode.
PolicyTypes == Modes \cup {"absent", "other"}

\* Strictness of a verdict: only the first signs, the second signs later.
Rank == [allow |-> 0, timelock |-> 1, approval |-> 2, deny |-> 2]

Unset == -1    \* a threshold that a policy does not mention

Thresholds == Nat \cup {Unset}

\* Policies whose type is one of Type, and whose limits parse.
SpendConfigs(Type) ==
    [type : Type, maxPerTx : Int, maxDaily : Int,
     smallThreshold : Thresholds, largeThreshold : Thresholds]

NoPolicy ==
    [type |-> "absent", maxPerTx |-> 0, maxDaily |-> 0,
     smallThreshold |-> Unset, largeThreshold |-> Unset]

\* A missing or unknown type never means "unlimited".
ResolveSpendMode(config) == IF config.type \in Modes THEN config.type ELSE "require-approval"

-----------------------------------------------------------------------------
(* One spend. *)

ThresholdOr(value, default) == IF value = Unset THEN default ELSE value

SmallThreshold(config) == ThresholdOr(config.smallThreshold, DefaultSmall)
LargeThreshold(config) == ThresholdOr(config.largeThreshold, DefaultLarge)

ResolveTier(amount, config) ==
    LET small == SmallThreshold(config)
        large == LargeThreshold(config)
    IN  IF amount.tag # "number" \/ small >= large \/ amount.n >= large THEN "approval"
        ELSE IF amount.n < small THEN "allow" ELSE "timelock"

\* A limit without any ceiling admits nothing.
WithinCeilings(config, amount, spent) ==
    /\ config.maxPerTx > 0 \/ config.maxDaily > 0
    /\ config.maxPerTx > 0 => amount <= config.maxPerTx
    /\ config.maxDaily > 0 => spent + amount <= config.maxDaily

CheckSpendAllowed(config, amount, spent) ==
    LET mode == ResolveSpendMode(config) IN
    CASE amount.tag = "malformed" \/ amount.n < 0 \/ spent < 0 -> "deny"
      [] OTHER ->
            CASE mode = "unlimited" -> "allow"
              [] mode = "require-approval" -> "approval"
              [] OTHER -> IF WithinCeilings(config, amount.n, spent) THEN "allow" ELSE "deny"

\* The amount may be left out of the base check, never of the tiers.
CheckSpendAllowedTiered(config, amount, spent) ==
    LET base == CheckSpendAllowed(config, amount, spent) IN
    IF base # "allow" THEN base
    ELSE IF amount = Absent THEN "approval" ELSE ResolveTier(amount, config)

-----------------------------------------------------------------------------
(* Two policies. *)

ModeStrictness == [m \in Modes |-> CASE m = "unlimited" -> 0 [] m = "limit" -> 1 [] OTHER -> 2]

\* The smaller of two ceilings; one that is not positive does not count.
StrictestCeiling(a, b) ==
    CASE a > 0 /\ b > 0 -> IF a < b THEN a ELSE b
      [] a > 0 /\ b <= 0 -> a
      [] a <= 0 /\ b > 0 -> b
      [] OTHER -> 0

\* ceilingOf reads a threshold of 0 like one that is missing.
StrictestThreshold(bound, requested, default) ==
    LET seed == IF bound > 0 THEN bound ELSE default IN
    IF requested > 0 /\ requested < seed THEN requested ELSE seed

\* Mutant: the parent's mode wins.
EffectiveTypeOfParent(bound, requested) == ResolveSpendMode(requested)

EffectiveType(bound, requested) ==
    LET b == ResolveSpendMode(bound)
        r == ResolveSpendMode(requested)
    IN  IF requested # NoPolicy /\ ModeStrictness[r] >= ModeStrictness[b] THEN r ELSE b

CombineSpendPolicies(bound, requested) ==
    IF bound = NoPolicy THEN requested
    ELSE LET type == EffectiveType(bound, requested)
             ceiling(a, b) == IF type = "limit" THEN StrictestCeiling(a, b) ELSE 0
         IN [type |-> type,
             maxPerTx |-> ceiling(bound.maxPerTx, requested.maxPerTx),
             maxDaily |-> ceiling(bound.maxDaily, requested.maxDaily),
             smallThreshold |-> StrictestThreshold(
                 bound.smallThreshold, requested.smallThreshold, DefaultSmall),
             largeThreshold |-> StrictestThreshold(
                 bound.largeThreshold, requested.largeThreshold, DefaultLarge)]

Loosened(before, after) == before # 0 /\ (after = 0 \/ after > before)

\* May an operation begun under one policy be committed under another?
TakeoverGuard(before, after) ==
    /\ ResolveSpendMode(before) = ResolveSpendMode(after)
    /\ ResolveSpendMode(after) # "require-approval"
    /\ ResolveSpendMode(after) = "limit" =>
            /\ ~Loosened(before.maxPerTx, after.maxPerTx)
            /\ ~Loosened(before.maxDaily, after.maxDaily)

\* takeoverWallet: the policy a human leaves behind.
TakenOver == [NoPolicy EXCEPT !.type = "require-approval"]

\* What combineSpendPolicies must not loosen: a bound policy that sets some
\* ceiling if it limits, and thresholds in order that are not 0.
WellFormed(config) ==
    /\ config.type = "limit" => config.maxPerTx > 0 \/ config.maxDaily > 0
    /\ config.smallThreshold # 0 /\ config.largeThreshold # 0
    /\ SmallThreshold(config) < LargeThreshold(config)
=============================================================================
