----------------------------- MODULE SumTheorems ------------------------------
(***************************************************************************)
(* Facts about sums over finite sets, for the invariants that compare what *)
(* was spent with a ceiling.  A sum is the last value of an iteration that *)
(* takes out one element after the other.  Its existence, and that the     *)
(* order does not matter, go by induction over finite sets, put as: a      *)
(* collection of finite sets that is not empty has a smallest member.      *)
(***************************************************************************)
EXTENDS Functions, FiniteSetTheorems, TLAPS

Sum(g, S) == SumFunctionOnSet(g, S)

\* The element that is taken out first.
Pick(s) == CHOOSE x \in s : TRUE

Iterates(it, g, S) ==
    it = [s \in SUBSET S |-> IF s = {} THEN 0 ELSE g[Pick(s)] + it[s \ {Pick(s)}]]

-----------------------------------------------------------------------------
\* Induction: no smallest counterexample, no counterexample.
LEMMA Smallest ==
    ASSUME NEW S, IsFiniteSet(S), NEW bad, bad \subseteq SUBSET S, bad # {}
    PROVE  \E M \in bad : \A U \in SUBSET M : U # M => U \notin bad
<1>1. IsWellFoundedOn(StrictSubsetOrdering(S), SUBSET S)
    BY FS_StrictSubsetOrderingWellFounded, FS_FiniteSubsetsOfFinite
<1>2. PICK M \in bad : \A U \in bad : <<U, M>> \notin StrictSubsetOrdering(S)
    BY <1>1, WFMin
<1>3. ASSUME NEW U \in SUBSET M, U # M, U \in bad PROVE FALSE
    <2>1. U \in SUBSET S /\ M \in SUBSET S
        OBVIOUS
    <2>2. <<U, M>> \in StrictSubsetOrdering(S)
        BY <1>3, <2>1 DEF StrictSubsetOrdering
    <2> QED
        BY <1>2, <1>3, <2>2
<1> QED
    BY <1>3

\* Of a set that is not empty an element is taken.
LEMMA PickIsElement == ASSUME NEW s, s # {} PROVE Pick(s) \in s
    BY DEF Pick

\* An iteration has one value for a set, whatever larger set it started from.
LEMMA IterationUnique ==
    ASSUME NEW g, NEW S, NEW T, NEW i, NEW j, Iterates(i, g, S), Iterates(j, g, T),
           NEW U, IsFiniteSet(U), U \subseteq S, U \subseteq T
    PROVE  i[U] = j[U]
<1> DEFINE bad == {V \in SUBSET U : i[V] # j[V]}
<1>1. SUFFICES ASSUME bad # {} PROVE FALSE
    OBVIOUS
<1>2. PICK M \in bad : \A V \in SUBSET M : V # M => V \notin bad
    <2>1. bad \subseteq SUBSET U
        OBVIOUS
    <2> HIDE DEF bad
    <2> QED
        BY <1>1, <2>1, Smallest
<1>3. M \in SUBSET S /\ M \in SUBSET T /\ i[M] # j[M]
    OBVIOUS
<1>4. i[M] = IF M = {} THEN 0 ELSE g[Pick(M)] + i[M \ {Pick(M)}]
    BY <1>3 DEF Iterates
<1>5. j[M] = IF M = {} THEN 0 ELSE g[Pick(M)] + j[M \ {Pick(M)}]
    BY <1>3 DEF Iterates
<1>6. M # {}
    BY <1>3, <1>4, <1>5
<1>7. M \ {Pick(M)} \in SUBSET M /\ M \ {Pick(M)} # M
    BY <1>6, PickIsElement
<1>8. i[M \ {Pick(M)}] = j[M \ {Pick(M)}]
    BY <1>2, <1>7
<1> QED
    BY <1>3, <1>4, <1>5, <1>8

\* Every finite set has its iteration.
LEMMA IterationExists ==
    ASSUME NEW g, NEW S, IsFiniteSet(S)
    PROVE  \E it : Iterates(it, g, S)
<1> DEFINE bad == {T \in SUBSET S : ~ \E it : Iterates(it, g, T)}
<1>1. SUFFICES ASSUME bad # {} PROVE FALSE
    OBVIOUS
<1>2. PICK M \in bad : \A V \in SUBSET M : V # M => V \notin bad
    <2>1. bad \subseteq SUBSET S
        OBVIOUS
    <2> HIDE DEF bad
    <2> QED
        BY <1>1, <2>1, Smallest
<1>3. M \in SUBSET S /\ ~ \E it : Iterates(it, g, M)
    OBVIOUS
<1> DEFINE Of(T) == CHOOSE it : Iterates(it, g, T)
           rest(s) == s \ {Pick(s)}
           H == [s \in SUBSET M |-> IF s = {} THEN 0
                                    ELSE IF s = M THEN g[Pick(M)] + Of(rest(M))[rest(M)]
                                    ELSE Of(s)[s]]
<1>4. ASSUME NEW T \in SUBSET M, T # M PROVE Iterates(Of(T), g, T)
    <2>1. T \in SUBSET S /\ T \notin bad
        BY <1>2, <1>3, <1>4
    <2> QED
        BY <2>1
<1>5. \A s \in SUBSET M : IsFiniteSet(s)
    BY <1>3, FS_Subset
<1>6. ASSUME NEW s \in SUBSET M, s # {} PROVE H[s] = g[Pick(s)] + H[rest(s)]
    <2>1. rest(s) \in SUBSET M /\ rest(s) # M /\ rest(s) # s /\ rest(s) \subseteq s
        BY <1>6, PickIsElement
    <2>2. H[rest(s)] = Of(rest(s))[rest(s)]
        <3>1. Iterates(Of(rest(s)), g, rest(s))
            BY <1>4, <2>1
        <3>2. rest(s) = {} => Of(rest(s))[rest(s)] = 0
            BY <3>1 DEF Iterates
        <3> HIDE DEF Of, rest
        <3> QED
            BY <2>1, <3>2
    <2>3. CASE s = M
        <3> HIDE DEF Of
        <3> QED
            BY <1>6, <2>2, <2>3
    <2>4. CASE s # M
        <3>1. H[s] = Of(s)[s]
            BY <1>6, <2>4
        <3>2. Iterates(Of(s), g, s)
            BY <1>4, <2>4
        <3>3. Of(s)[s] = g[Pick(s)] + Of(s)[rest(s)]
            BY <1>6, <3>2 DEF Iterates
        <3>4. Iterates(Of(rest(s)), g, rest(s)) /\ IsFiniteSet(rest(s))
            BY <1>4, <1>5, <2>1
        <3> HIDE DEF Of
        <3>5. Of(s)[rest(s)] = Of(rest(s))[rest(s)]
            BY <2>1, <3>2, <3>4, IterationUnique
        <3> QED
            BY <2>2, <3>1, <3>3, <3>5
    <2> QED
        BY <2>3, <2>4
<1>7. H[{}] = 0
    OBVIOUS
<1>8. H = [s \in SUBSET M |-> IF s = {} THEN 0 ELSE g[Pick(s)] + H[s \ {Pick(s)}]]
    <2>1. H = [s \in SUBSET M |-> H[s]]
        OBVIOUS
    <2> HIDE DEF H
    <2>2. \A s \in SUBSET M : H[s] = IF s = {} THEN 0 ELSE g[Pick(s)] + H[s \ {Pick(s)}]
        BY <1>6, <1>7
    <2> QED
        BY <2>1, <2>2
<1> QED
    BY <1>3, <1>8 DEF Iterates

\* The sum over a set is the value of its iteration.
LEMMA SumIterates ==
    ASSUME NEW g, NEW S, IsFiniteSet(S)
    PROVE  \E it : Iterates(it, g, S) /\ Sum(g, S) = it[S]
<1> DEFINE F == CHOOSE it : it = [s \in SUBSET S |-> IF s = {} THEN 0 ELSE g[Pick(s)] + it[s \ {Pick(s)}]]
<1>1. F = [s \in SUBSET S |-> IF s = {} THEN 0 ELSE g[Pick(s)] + F[s \ {Pick(s)}]]
    <2>1. PICK it : Iterates(it, g, S)
        BY IterationExists
    <2>2. it = [s \in SUBSET S |-> IF s = {} THEN 0 ELSE g[Pick(s)] + it[s \ {Pick(s)}]]
        BY <2>1 DEF Iterates
    <2> QED
        BY <2>2
<1>2. Sum(g, S) = F[S]
    BY DEF Sum, SumFunctionOnSet, FoldFunctionOnSet, MapThenFoldSet, Pick
<1> QED
    BY <1>1, <1>2 DEF Iterates

-----------------------------------------------------------------------------
\* Nothing sums to 0.
THEOREM SumEmpty == ASSUME NEW g PROVE Sum(g, {}) = 0
<1>1. PICK it : Iterates(it, g, {}) /\ Sum(g, {}) = it[{}]
    BY FS_EmptySet, SumIterates
<1> QED
    BY <1>1 DEF Iterates

\* The sum is what the first element counts for, and the rest.
LEMMA SumPick ==
    ASSUME NEW g, NEW S, IsFiniteSet(S), S # {}
    PROVE  Sum(g, S) = g[Pick(S)] + Sum(g, S \ {Pick(S)})
<1> DEFINE rest == S \ {Pick(S)}
<1>1. PICK it : Iterates(it, g, S) /\ Sum(g, S) = it[S]
    BY SumIterates
<1>2. rest \subseteq S /\ IsFiniteSet(rest)
    BY FS_Subset
<1>3. PICK jt : Iterates(jt, g, rest) /\ Sum(g, rest) = jt[rest]
    BY <1>2, SumIterates
<1>4. it[S] = g[Pick(S)] + it[rest]
    BY <1>1 DEF Iterates
<1>5. it[rest] = jt[rest]
    BY <1>1, <1>2, <1>3, IterationUnique
<1> QED
    BY <1>1, <1>3, <1>4, <1>5

\* Sums of integers are integers.
THEOREM SumInt ==
    ASSUME NEW g, NEW S, IsFiniteSet(S), \A x \in S : g[x] \in Int
    PROVE  Sum(g, S) \in Int
<1> DEFINE bad == {T \in SUBSET S : Sum(g, T) \notin Int}
<1>1. SUFFICES ASSUME bad # {} PROVE FALSE
    OBVIOUS
<1>2. PICK M \in bad : \A T \in SUBSET M : T # M => T \notin bad
    <2>1. bad \subseteq SUBSET S
        OBVIOUS
    <2> HIDE DEF bad
    <2> QED
        BY <1>1, <2>1, Smallest
<1>3. M \in SUBSET S /\ Sum(g, M) \notin Int /\ IsFiniteSet(M)
    BY FS_Subset
<1>4. M # {}
    BY <1>3, SumEmpty
<1>5. Pick(M) \in M /\ M \ {Pick(M)} \in SUBSET M /\ M \ {Pick(M)} # M
    BY <1>4, PickIsElement
<1>6. Sum(g, M \ {Pick(M)}) \in Int /\ g[Pick(M)] \in Int
    BY <1>2, <1>3, <1>5
<1> QED
    BY <1>3, <1>4, <1>6, SumPick

\* Any element may be taken out first.
THEOREM SumTakeOut ==
    ASSUME NEW g, NEW S, IsFiniteSet(S), \A x \in S : g[x] \in Int, NEW y \in S
    PROVE  Sum(g, S) = g[y] + Sum(g, S \ {y})
<1> DEFINE Differs(T) == \E x \in T : Sum(g, T) # g[x] + Sum(g, T \ {x})
           bad == {T \in SUBSET S : Differs(T)}
<1>1. SUFFICES ASSUME bad # {} PROVE FALSE
    OBVIOUS
<1>2. PICK M \in bad : \A T \in SUBSET M : T # M => T \notin bad
    <2>1. bad \subseteq SUBSET S
        OBVIOUS
    <2> HIDE DEF bad
    <2> QED
        BY <1>1, <2>1, Smallest
<1>3. M \in SUBSET S /\ Differs(M) /\ IsFiniteSet(M)
    BY FS_Subset
<1>4. PICK x \in M : Sum(g, M) # g[x] + Sum(g, M \ {x})
    BY <1>3
<1> DEFINE p == Pick(M)
           both == (M \ {p}) \ {x}
<1>5. p \in M /\ Sum(g, M) = g[p] + Sum(g, M \ {p})
    BY <1>3, PickIsElement, SumPick
<1>6. x # p
    BY <1>4, <1>5
<1> HIDE DEF p
<1>7. /\ M \ {p} \in SUBSET M /\ M \ {p} # M /\ M \ {x} \in SUBSET M /\ M \ {x} # M
      /\ x \in M \ {p} /\ p \in M \ {x} /\ (M \ {x}) \ {p} = both
    BY <1>5, <1>6
<1>8. ~Differs(M \ {p}) /\ ~Differs(M \ {x})
    <2>1. M \ {p} \in SUBSET S /\ M \ {x} \in SUBSET S
        BY <1>3
    <2>2. M \ {p} \notin bad /\ M \ {x} \notin bad
        BY <1>2, <1>7
    <2> HIDE DEF Differs
    <2> QED
        BY <2>1, <2>2
<1>9. Sum(g, M \ {p}) = g[x] + Sum(g, both)
    BY <1>7, <1>8
<1>10. Sum(g, M \ {x}) = g[p] + Sum(g, (M \ {x}) \ {p})
    BY <1>7, <1>8
<1>11. Sum(g, M \ {x}) = g[p] + Sum(g, both)
    BY <1>7, <1>10
<1>12. g[x] \in Int /\ g[p] \in Int /\ Sum(g, both) \in Int
    <2>1. both \subseteq S /\ IsFiniteSet(both)
        BY <1>3, FS_Subset
    <2> HIDE DEF both
    <2> QED
        BY <1>3, <1>5, <2>1, SumInt
<1> HIDE DEF both
<1> QED
    BY <1>4, <1>5, <1>9, <1>11, <1>12

\* The other way round: an element that comes in adds what it counts for.
THEOREM SumAdd ==
    ASSUME NEW g, NEW S, IsFiniteSet(S), NEW y, y \notin S, \A x \in S \cup {y} : g[x] \in Int
    PROVE  Sum(g, S \cup {y}) = g[y] + Sum(g, S)
<1>1. IsFiniteSet(S \cup {y}) /\ y \in S \cup {y} /\ (S \cup {y}) \ {y} = S
    BY FS_AddElement
<1> QED
    BY <1>1, SumTakeOut

\* A sum is decided by what its elements count for.
THEOREM SumSame ==
    ASSUME NEW g, NEW h, NEW S, IsFiniteSet(S), \A x \in S : g[x] = h[x]
    PROVE  Sum(g, S) = Sum(h, S)
<1> DEFINE bad == {T \in SUBSET S : Sum(g, T) # Sum(h, T)}
<1>1. SUFFICES ASSUME bad # {} PROVE FALSE
    OBVIOUS
<1>2. PICK M \in bad : \A T \in SUBSET M : T # M => T \notin bad
    <2>1. bad \subseteq SUBSET S
        OBVIOUS
    <2> HIDE DEF bad
    <2> QED
        BY <1>1, <2>1, Smallest
<1>3. M \in SUBSET S /\ Sum(g, M) # Sum(h, M) /\ IsFiniteSet(M)
    BY FS_Subset
<1>4. M # {}
    BY <1>3, SumEmpty
<1>5. Pick(M) \in M /\ M \ {Pick(M)} \in SUBSET M /\ M \ {Pick(M)} # M
    BY <1>4, PickIsElement
<1>6. Sum(g, M \ {Pick(M)}) = Sum(h, M \ {Pick(M)}) /\ g[Pick(M)] = h[Pick(M)]
    BY <1>2, <1>3, <1>5
<1> QED
    BY <1>3, <1>4, <1>6, SumPick

\* A sum is the sum of its two parts.
THEOREM SumSplit ==
    ASSUME NEW g, NEW S, IsFiniteSet(S), \A x \in S : g[x] \in Int, NEW T \in SUBSET S
    PROVE  /\ Sum(g, T) \in Int /\ Sum(g, S \ T) \in Int
           /\ Sum(g, S) = Sum(g, T) + Sum(g, S \ T)
<1>1. \A U \in SUBSET S : IsFiniteSet(U) /\ Sum(g, U) \in Int
    BY FS_Subset, SumInt
<1> DEFINE bad == {V \in SUBSET S : Sum(g, S) # Sum(g, V) + Sum(g, S \ V)}
<1>2. SUFFICES ASSUME bad # {} PROVE FALSE
    BY <1>1
<1>3. PICK M \in bad : \A V \in SUBSET M : V # M => V \notin bad
    <2>1. bad \subseteq SUBSET S
        OBVIOUS
    <2> HIDE DEF bad
    <2> QED
        BY <1>2, <2>1, Smallest
<1>4. M \in SUBSET S /\ Sum(g, S) # Sum(g, M) + Sum(g, S \ M)
    OBVIOUS
<1>5. M # {}
    <2> SUFFICES ASSUME M = {} PROVE FALSE
        OBVIOUS
    <2>1. S \ M = S /\ Sum(g, M) = 0 /\ Sum(g, S) \in Int
        BY <1>1, SumEmpty
    <2> QED
        BY <1>4, <2>1
<1>6. PICK y \in M : TRUE
    BY <1>5
<1>7. /\ M \ {y} \in SUBSET M /\ M \ {y} # M /\ M \ {y} \in SUBSET S /\ S \ M \in SUBSET S
      /\ S \ (M \ {y}) = (S \ M) \cup {y} /\ y \notin S \ M /\ y \in S
    BY <1>4
<1>8. Sum(g, S) = Sum(g, M \ {y}) + Sum(g, S \ (M \ {y}))
    BY <1>3, <1>7
<1>9. Sum(g, (S \ M) \cup {y}) = g[y] + Sum(g, S \ M)
    BY <1>1, <1>7, SumAdd
<1>10. Sum(g, M) = g[y] + Sum(g, M \ {y})
    BY <1>1, <1>4, SumTakeOut
<1>11. Sum(g, S \ M) \in Int /\ Sum(g, M \ {y}) \in Int /\ Sum(g, S) \in Int /\ Sum(g, M) \in Int /\ g[y] \in Int
    BY <1>1, <1>4, <1>7
<1>12. Sum(g, S) = Sum(g, M \ {y}) + (g[y] + Sum(g, S \ M))
    BY <1>7, <1>8, <1>9
<1>13. Sum(g, S) = Sum(g, M) + Sum(g, S \ M)
    BY <1>10, <1>11, <1>12
<1> QED
    BY <1>4, <1>13

\* Nothing that counts for something negative: parts sum to no more.
THEOREM SumPart ==
    ASSUME NEW g, NEW S, IsFiniteSet(S), \A x \in S : g[x] \in Nat, NEW T \in SUBSET S
    PROVE  Sum(g, T) \in Nat /\ Sum(g, T) <= Sum(g, S)
<1>1. \A x \in S : g[x] \in Int
    OBVIOUS
<1>2. ASSUME NEW U \in SUBSET S PROVE Sum(g, U) \in Nat
    <2> DEFINE bad == {V \in SUBSET S : Sum(g, V) \notin Nat}
    <2>1. SUFFICES ASSUME bad # {} PROVE FALSE
        OBVIOUS
    <2>2. PICK M \in bad : \A V \in SUBSET M : V # M => V \notin bad
        <3>1. bad \subseteq SUBSET S
            OBVIOUS
        <3> HIDE DEF bad
        <3> QED
            BY <2>1, <3>1, Smallest
    <2>3. M \in SUBSET S /\ Sum(g, M) \notin Nat /\ IsFiniteSet(M)
        BY FS_Subset
    <2>4. M # {}
        BY <2>3, SumEmpty
    <2>5. Pick(M) \in M /\ M \ {Pick(M)} \in SUBSET M /\ M \ {Pick(M)} # M
        BY <2>4, PickIsElement
    <2>6. Sum(g, M \ {Pick(M)}) \in Nat /\ g[Pick(M)] \in Nat
        BY <2>2, <2>3, <2>5
    <2> QED
        BY <2>3, <2>4, <2>6, SumPick
<1> DEFINE bad == {V \in SUBSET S : T \subseteq V /\ ~(Sum(g, T) <= Sum(g, V))}
<1>3. SUFFICES ASSUME bad # {} PROVE FALSE
    BY <1>2
<1>4. PICK M \in bad : \A V \in SUBSET M : V # M => V \notin bad
    <2>1. bad \subseteq SUBSET S
        OBVIOUS
    <2> HIDE DEF bad
    <2> QED
        BY <1>3, <2>1, Smallest
<1>5. /\ M \in SUBSET S /\ T \subseteq M /\ ~(Sum(g, T) <= Sum(g, M)) /\ IsFiniteSet(M)
      /\ Sum(g, T) \in Nat /\ Sum(g, M) \in Nat
    BY <1>2, FS_Subset
<1>6. PICK y \in M : y \notin T
    BY <1>5
<1>7. M \ {y} \in SUBSET M /\ M \ {y} # M /\ T \subseteq M \ {y} /\ M \ {y} \in SUBSET S
    BY <1>5, <1>6
<1>8. Sum(g, T) <= Sum(g, M \ {y}) /\ Sum(g, M \ {y}) \in Nat /\ g[y] \in Nat
    BY <1>2, <1>4, <1>5, <1>7
<1>9. Sum(g, M) = g[y] + Sum(g, M \ {y})
    BY <1>1, <1>5, SumTakeOut
<1> QED
    BY <1>5, <1>8, <1>9

\* What is counted one for one in another set sums to no more than that set.
THEOREM SumInjected ==
    ASSUME NEW g, NEW S, IsFiniteSet(S), NEW T, IsFiniteSet(T), \A x \in T : g[x] \in Nat,
           NEW f \in [S -> T], \A x \in S : g[x] = g[f[x]],
           \A x, y \in S : f[x] = f[y] => x = y
    PROVE  Sum(g, S) \in Nat /\ Sum(g, T) \in Nat /\ Sum(g, S) <= Sum(g, T)
<1> DEFINE image(V) == {f[x] : x \in V}
           bad == {V \in SUBSET S : Sum(g, V) # Sum(g, image(V))}
<1>1. \A x \in S : f[x] \in T /\ g[x] \in Nat
    OBVIOUS
<1>2. \A V \in SUBSET S : IsFiniteSet(V) /\ image(V) \in SUBSET T /\ IsFiniteSet(image(V))
    BY <1>1, FS_Subset
<1>3. bad = {}
    <2>1. SUFFICES ASSUME bad # {} PROVE FALSE
        OBVIOUS
    <2>2. PICK M \in bad : \A V \in SUBSET M : V # M => V \notin bad
        <3>1. bad \subseteq SUBSET S
            OBVIOUS
        <3> HIDE DEF bad
        <3> QED
            BY <2>1, <3>1, Smallest
    <2>3. M \in SUBSET S /\ Sum(g, M) # Sum(g, image(M)) /\ IsFiniteSet(M)
        BY <1>2
    <2>4. M # {}
        BY <2>3, SumEmpty
    <2> DEFINE y == Pick(M)
               rest == M \ {y}
    <2>5. y \in M /\ rest \in SUBSET M /\ rest # M /\ rest \in SUBSET S
        BY <2>3, <2>4, PickIsElement
    <2> HIDE DEF y
    <2>6. Sum(g, rest) = Sum(g, image(rest))
        BY <2>2, <2>5
    <2>7. f[y] \notin image(rest) /\ image(M) = image(rest) \cup {f[y]}
        BY <2>3, <2>5
    <2>8. IsFiniteSet(image(rest)) /\ image(rest) \in SUBSET T /\ f[y] \in T /\ g[y] = g[f[y]]
        <3> HIDE DEF image, rest, bad
        <3> QED
            BY <1>1, <1>2, <2>3, <2>5
    <2>9. Sum(g, M) = g[y] + Sum(g, rest)
        BY <1>1, <2>3, <2>5, SumTakeOut
    <2>10. Sum(g, image(M)) = g[f[y]] + Sum(g, image(rest))
        <3> DEFINE z == f[y]
                   I == image(rest)
        <3>1. IsFiniteSet(I) /\ z \notin I /\ image(M) = I \cup {z} /\ \A x \in I \cup {z} : g[x] \in Int
            BY <2>7, <2>8
        <3> HIDE DEF z, I, image
        <3>2. Sum(g, I \cup {z}) = g[z] + Sum(g, I)
            BY <3>1, SumAdd
        <3> QED
            BY <3>1, <3>2 DEF z, I
    <2> QED
        BY <2>3, <2>6, <2>8, <2>9, <2>10
<1>4. Sum(g, S) = Sum(g, image(S))
    BY <1>3
<1> HIDE DEF image, bad
<1>5. Sum(g, image(S)) \in Nat /\ Sum(g, image(S)) <= Sum(g, T)
    BY <1>2, SumPart
<1>6. Sum(g, T) \in Nat
    BY SumPart
<1> QED
    BY <1>4, <1>5, <1>6
=============================================================================
