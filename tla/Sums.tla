-------------------------------- MODULE Sums --------------------------------
(***************************************************************************)
(* Induction over numbers and over finite sets, and from it the laws of    *)
(* the sums that the server's counters and the calls of the scanner page   *)
(* are compared with: SumFunctionOnSet(f, S) adds f[x] for the x of S,     *)
(* SumFunction(f) for all of DOMAIN f.                                     *)
(*                                                                         *)
(* The rules are stated with sets in the place of predicates: "the set of  *)
(* the n that have the property is Nat".                                   *)
(***************************************************************************)
EXTENDS Integers, Sequences, FiniteSets, Functions, FiniteSetTheorems,
        SequenceTheorems, TLAPS

-----------------------------------------------------------------------------

(* A nonempty set of numbers has a least element. *)
LEMMA NatLeast ==
  ASSUME NEW T \in SUBSET Nat, T # {}
  PROVE  \E n \in T : \A m \in T : n <= m
<1> DEFINE D == {0..n : n \in T}
           R == StrictSubsetOrdering(Nat)
           F == FiniteSubsetsOf(Nat)
<1>1. IsWellFoundedOn(R, F) BY FS_StrictSubsetOrderingWellFounded
<1>2. D \subseteq F /\ D # {}
  <2>1. ASSUME NEW n \in T PROVE IsFiniteSet(0..n) /\ 0..n \in SUBSET Nat
    BY FS_Interval
  <2> QED BY <2>1 DEF FiniteSubsetsOf
<1>3. \E x \in D : \A y \in D : ~ (<<y, x>> \in R)
  <2> HIDE DEF D, R, F
  <2> QED BY <1>1, <1>2, WFMin
<1>4. PICK n \in T : \A y \in D : ~ (<<y, 0..n>> \in R) BY <1>3
<1>5. ASSUME NEW m \in T, m < n PROVE FALSE
  <2>1. 0..m \in D OBVIOUS
  <2>2. n \in 0..n /\ n \notin 0..m BY <1>5
  <2>3. 0..m \subseteq 0..n /\ 0..m # 0..n BY <1>5, <2>2
  <2>4. <<0..m, 0..n>> \in R BY <2>3 DEF StrictSubsetOrdering
  <2> QED BY <2>1, <2>4, <1>4
<1> QED BY <1>5

(* A set that holds 0, and n + 1 with every n, holds every number. *)
LEMMA InductionOnNat ==
  ASSUME NEW T, 0 \in T, \A n \in Nat : n \in T => n + 1 \in T
  PROVE  Nat \subseteq T
<1>1. SUFFICES ASSUME Nat \ T # {} PROVE FALSE OBVIOUS
<1>2. PICK n \in Nat \ T : \A m \in Nat \ T : n <= m BY <1>1, NatLeast
<1>3. n # 0 /\ n - 1 \in Nat /\ n - 1 \in T BY <1>2
<1> QED BY <1>3, <1>2

(* A set of finite sets that holds every finite set T of S whose proper    *)
(* subsets, T without one element, it holds, holds all of them.            *)
LEMMA InductionOnSets ==
  ASSUME NEW S, IsFiniteSet(S), NEW P,
         \A T \in SUBSET S : (\A x \in T : T \ {x} \in P) => T \in P
  PROVE  SUBSET S \subseteq P
<1> DEFINE N == {n \in Nat : \A T \in SUBSET S : Cardinality(T) = n => T \in P}
<1>1. 0 \in N
  <2>1. SUFFICES ASSUME NEW T \in SUBSET S, Cardinality(T) = 0 PROVE T \in P OBVIOUS
  <2>2. IsFiniteSet(T) BY FS_Subset
  <2>3. T = {} BY <2>1, <2>2, FS_EmptySet
  <2> QED BY <2>3
<1>2. ASSUME NEW n \in Nat, n \in N PROVE n + 1 \in N
  <2>1. SUFFICES ASSUME NEW T \in SUBSET S, Cardinality(T) = n + 1 PROVE T \in P OBVIOUS
  <2>2. IsFiniteSet(T) BY FS_Subset
  <2>3. ASSUME NEW x \in T PROVE T \ {x} \in P
    <3>1. Cardinality(T \ {x}) = Cardinality(T) - 1 BY <2>2, FS_RemoveElement
    <3>2. Cardinality(T \ {x}) = n BY <3>1, <2>1
    <3> QED BY <3>2, <1>2
  <2> QED BY <2>3
<1>3. Nat \subseteq N
  <2> HIDE DEF N
  <2> QED BY <1>1, <1>2, InductionOnNat
<1>4. ASSUME NEW T \in SUBSET S PROVE T \in P
  <2>1. IsFiniteSet(T) BY FS_Subset
  <2>2. Cardinality(T) \in Nat BY <2>1, FS_CardinalityType
  <2> QED BY <2>2, <1>3
<1> QED BY <1>4

(* A function of the numbers may be defined by recursion: the turns of a   *)
(* loop, whose state is in V.                                              *)
Iterates(f, v, step) == f[0] = v /\ \A n \in Nat : f[n + 1] = step[f[n]]

LEMMA RecursionOnNat ==
  ASSUME NEW V, NEW v \in V, NEW step, \A x \in V : step[x] \in V
  PROVE  \E f \in [Nat -> V] : Iterates(f, v, step)
<1> DEFINE Sol(g, n) == /\ g \in [0..n -> V] /\ g[0] = v
                        /\ \A k \in 0..(n - 1) : g[k + 1] = step[g[k]]
           N == {n \in Nat : \E g : Sol(g, n)}
<1>1. 0 \in N
  <2>1. Sol([k \in 0..0 |-> v], 0) OBVIOUS
  <2> QED BY <2>1
<1>2. ASSUME NEW n \in Nat, n \in N PROVE n + 1 \in N
  <2>1. PICK g : Sol(g, n) BY <1>2
  <2> DEFINE h == [k \in 0..(n + 1) |-> IF k <= n THEN g[k] ELSE step[g[n]]]
  <2>2. g[n] \in V /\ \A k \in 0..n : g[k] \in V BY <2>1
  <2>3. h \in [0..(n + 1) -> V] BY <2>2
  <2>4. h[0] = v BY <2>1
  <2>5. ASSUME NEW k \in 0..n PROVE h[k + 1] = step[h[k]]
    <3>1. k \in 0..(n - 1) \/ k = n OBVIOUS
    <3> QED BY <3>1, <2>1
  <2>6. (n + 1) - 1 = n OBVIOUS
  <2> HIDE DEF h
  <2>7. Sol(h, n + 1) BY <2>3, <2>4, <2>5, <2>6
  <2> QED BY <2>7
<1>3. Nat \subseteq N
  <2> HIDE DEF N
  <2> QED BY <1>1, <1>2, InductionOnNat
<1> DEFINE G(n) == CHOOSE g : Sol(g, n)
           f == [n \in Nat |-> G(n)[n]]
<1>4. ASSUME NEW n \in Nat PROVE Sol(G(n), n) BY <1>3
<1>5. ASSUME NEW n \in Nat PROVE G(n + 1)[n] = G(n)[n]
  <2> DEFINE K == {k \in Nat : k <= n => G(n + 1)[k] = G(n)[k]}
             a == G(n + 1)
             b == G(n)
  <2>0. n + 1 \in Nat OBVIOUS
  <2> HIDE DEF Sol, G
  <2>1. Sol(a, n + 1) /\ Sol(b, n) BY <1>4, <2>0
  <2> USE DEF Sol
  <2>2. 0 \in K BY <2>1
  <2>3. ASSUME NEW k \in Nat, k \in K PROVE k + 1 \in K
    <3>1. SUFFICES ASSUME k + 1 <= n PROVE a[k + 1] = b[k + 1] OBVIOUS
    <3>2. k \in 0..(n - 1) /\ k \in 0..((n + 1) - 1) BY <3>1
    <3>3. a[k + 1] = step[a[k]] /\ b[k + 1] = step[b[k]] BY <3>2, <2>1
    <3>4. a[k] = b[k] BY <3>1, <2>3
    <3> QED BY <3>3, <3>4
  <2>4. Nat \subseteq K
    <3> HIDE DEF K
    <3> QED BY <2>2, <2>3, InductionOnNat
  <2> QED BY <2>4
<1> HIDE DEF G
<1>6. \A n \in Nat : f[n] \in V BY <1>4
<1>7. f[0] = v BY <1>4
<1>8. ASSUME NEW n \in Nat PROVE f[n + 1] = step[f[n]]
  <2>1. n \in 0..((n + 1) - 1) OBVIOUS
  <2>2. G(n + 1)[n + 1] = step[G(n + 1)[n]] BY <2>1, <1>4
  <2> QED BY <2>2, <1>5
<1>9. f \in [Nat -> V] BY <1>6
<1> QED BY <1>7, <1>8, <1>9 DEF Iterates

(* Both rules for the first L numbers only: a loop of L turns. *)
LEMMA InductionUpTo ==
  ASSUME NEW L \in Nat, NEW T, 0 \in T, \A n \in Nat : n < L /\ n \in T => n + 1 \in T
  PROVE  0..L \subseteq T
<1> DEFINE N == {n \in Nat : n <= L => n \in T}
<1>1. 0 \in N OBVIOUS
<1>2. ASSUME NEW n \in Nat, n \in N PROVE n + 1 \in N
  <2>1. n + 1 \in Nat /\ (n + 1 <= L => n < L /\ n <= L) OBVIOUS
  <2>2. n + 1 <= L => n + 1 \in T BY <2>1, <1>2
  <2> QED BY <2>1, <2>2
<1>3. Nat \subseteq N
  <2> HIDE DEF N
  <2> QED BY <1>1, <1>2, InductionOnNat
<1>4. \A n \in 0..L : n \in Nat /\ n <= L OBVIOUS
<1> QED BY <1>3, <1>4

Loops(f, L, v, step) ==
  /\ f[0] = v
  /\ \A n \in Nat : n < L => f[n + 1] = step[n + 1][f[n]]

LEMMA RecursionUpTo ==
  ASSUME NEW L \in Nat, NEW V, NEW v \in V, NEW step,
         \A n \in 1..L : \A a \in V : step[n][a] \in V
  PROVE  \E f \in [0..L -> V] : Loops(f, L, v, step)
<1> DEFINE T == {n \in Nat : n <= L => \E f \in [0..n -> V] : Loops(f, n, v, step)}
<1>1. 0 \in T
  <2> DEFINE f == [k \in 0..0 |-> v]
  <2>1. f \in [0..0 -> V] /\ f[0] = v OBVIOUS
  <2>2. \A n \in Nat : ~ (n < 0) OBVIOUS
  <2> HIDE DEF f
  <2>3. Loops(f, 0, v, step) BY <2>1, <2>2 DEF Loops
  <2> QED BY <2>1, <2>3
<1>2. ASSUME NEW n \in Nat, n < L, n \in T PROVE n + 1 \in T
  <2>1. PICK g \in [0..n -> V] : Loops(g, n, v, step) BY <1>2
  <2> DEFINE h == [k \in 0..(n + 1) |-> IF k <= n THEN g[k] ELSE step[n + 1][g[n]]]
  <2>2. g[n] \in V /\ n + 1 \in 1..L BY <1>2
  <2>3. step[n + 1][g[n]] \in V BY <2>2
  <2>4. h \in [0..(n + 1) -> V] BY <2>3
  <2>5. h[0] = v /\ h[n + 1] = step[n + 1][g[n]]
    <3>1. 0 \in 0..(n + 1) /\ n + 1 \in 0..(n + 1) /\ ~ (n + 1 <= n) /\ 0 <= n OBVIOUS
    <3> QED BY <3>1, <2>1 DEF Loops
  <2>6. \A k \in 0..n : h[k] = g[k] OBVIOUS
  <2>7. \A k \in Nat : k < n + 1 => k \in 0..n /\ (k = n \/ k < n) OBVIOUS
  <2>8. \A k \in Nat : k < n => k + 1 \in 0..n OBVIOUS
  <2> HIDE DEF h
  <2>9. ASSUME NEW k \in Nat, k < n + 1 PROVE h[k + 1] = step[k + 1][h[k]]
    <3>1. CASE k = n BY <3>1, <2>5, <2>6, <2>7, <2>9
    <3>2. CASE k < n
      <4>1. g[k + 1] = step[k + 1][g[k]] BY <3>2, <2>1 DEF Loops
      <4> QED BY <4>1, <3>2, <2>6, <2>7, <2>8, <2>9
    <3> QED BY <3>1, <3>2, <2>7, <2>9
  <2>10. Loops(h, n + 1, v, step) BY <2>5, <2>9 DEF Loops
  <2>11. n + 1 \in Nat OBVIOUS
  <2> QED BY <2>4, <2>10, <2>11
<1>3. 0..L \subseteq T
  <2> HIDE DEF T
  <2> QED BY <1>1, <1>2, InductionUpTo
<1>4. L \in T
  <2> HIDE DEF T
  <2> QED BY <1>3
<1> QED BY <1>4


(* A function of the subsets of a finite set may be defined by recursion   *)
(* on the set without one of its elements.                                 *)
Picks(pick, S) == \A T \in SUBSET S : T # {} => pick[T] \in T

Recurs(it, S, base, pick, step) ==
  \A T \in SUBSET S :
    it[T] = IF T = {} THEN base ELSE step[T][it[T \ {pick[T]}]]

LEMMA RecursionOnSets ==
  ASSUME NEW S, IsFiniteSet(S), NEW V, NEW base \in V,
         NEW pick, Picks(pick, S), NEW step \in [SUBSET S -> [V -> V]]
  PROVE  \E it \in [SUBSET S -> V] : Recurs(it, S, base, pick, step)
<1> DEFINE D(n) == {T \in SUBSET S : Cardinality(T) <= n}
           Sol(it, n) == /\ it \in [D(n) -> V]
                         /\ \A T \in D(n) : it[T] = IF T = {} THEN base
                                                   ELSE step[T][it[T \ {pick[T]}]]
           N == {n \in Nat : \E it : Sol(it, n)}
<1>0. ASSUME NEW T \in SUBSET S
      PROVE  /\ IsFiniteSet(T) /\ Cardinality(T) \in Nat
             /\ Cardinality(T) <= Cardinality(S)
             /\ Cardinality(T) = 0 <=> T = {}
  BY FS_Subset, FS_CardinalityType, FS_EmptySet
<1>1. 0 \in N
  <2>1. \A T \in D(0) : T = {} BY <1>0
  <2>2. Sol([T \in D(0) |-> base], 0) BY <2>1
  <2> QED BY <2>2
<1>2. ASSUME NEW n \in Nat, n \in N PROVE n + 1 \in N
  <2>1. PICK g : Sol(g, n) BY <1>2
  <2>2. ASSUME NEW T \in D(n + 1), T # {} PROVE T \ {pick[T]} \in D(n)
    <3>1. pick[T] \in T /\ IsFiniteSet(T) BY <2>2, <1>0 DEF Picks
    <3>2. Cardinality(T \ {pick[T]}) = Cardinality(T) - 1 BY <3>1, FS_RemoveElement
    <3>3. Cardinality(T) \in Nat /\ Cardinality(T) <= n + 1 BY <1>0
    <3> QED BY <3>2, <3>3
  <2>3. \A T \in D(n) : T \in D(n + 1) BY <1>0
  <2> DEFINE h == [T \in D(n + 1) |->
                     IF T = {} THEN base ELSE step[T][g[T \ {pick[T]}]]]
  <2>4. h \in [D(n + 1) -> V]
    <3>1. ASSUME NEW T \in D(n + 1), T # {} PROVE g[T \ {pick[T]}] \in V
      BY <2>1, <2>2, <3>1
    <3>2. ASSUME NEW T \in D(n + 1) PROVE h[T] \in V
      <4>1. CASE T = {} BY <4>1
      <4>2. CASE T # {}
        <5>1. step[T] \in [V -> V] /\ g[T \ {pick[T]}] \in V BY <3>1, <4>2
        <5>2. h[T] = step[T][g[T \ {pick[T]}]] BY <4>2
        <5> HIDE DEF h
        <5> QED BY <5>1, <5>2
      <4> QED BY <4>1, <4>2
    <3>3. h = [T \in D(n + 1) |-> h[T]] OBVIOUS
    <3> HIDE DEF h
    <3> QED BY <3>2, <3>3
  <2>5. ASSUME NEW T \in D(n) PROVE h[T] = g[T]
    <3>1. h[T] = IF T = {} THEN base ELSE step[T][g[T \ {pick[T]}]] BY <2>3
    <3> QED BY <2>1, <3>1
  <2>6. ASSUME NEW T \in D(n + 1)
        PROVE  h[T] = IF T = {} THEN base ELSE step[T][h[T \ {pick[T]}]]
    <3>1. h[T] = IF T = {} THEN base ELSE step[T][g[T \ {pick[T]}]] OBVIOUS
    <3>2. CASE T # {}
      <4>1. h[T \ {pick[T]}] = g[T \ {pick[T]}] BY <2>2, <2>5, <3>2
      <4> QED BY <3>1, <4>1
    <3> QED BY <3>1, <3>2
  <2> HIDE DEF h
  <2>7. Sol(h, n + 1) BY <2>4, <2>6
  <2>8. n + 1 \in Nat OBVIOUS
  <2> HIDE DEF Sol
  <2> QED BY <2>7, <2>8
<1>3. Nat \subseteq N
  <2> HIDE DEF N
  <2> QED BY <1>1, <1>2, InductionOnNat
<1>4. D(Cardinality(S)) = SUBSET S BY <1>0
<1>5. Cardinality(S) \in N BY <1>0, <1>3
<1>6. PICK it : Sol(it, Cardinality(S)) BY <1>5
<1> QED BY <1>4, <1>6 DEF Recurs

-----------------------------------------------------------------------------
(* The recursion behind a sum. *)

Chosen(s) == CHOOSE x \in s : TRUE

(* g is the function of the subsets of S that the sum of f is read from.   *)
Solves(g, f, S) ==
  g = [s \in SUBSET S |->
         IF s = {} THEN 0 ELSE f[Chosen(s)] + g[s \ {Chosen(s)}]]

LEMMA ChosenIsIn == ASSUME NEW s, s # {} PROVE Chosen(s) \in s
BY DEF Chosen

(* A sum is read from the function that solves its recursion... *)
LEMMA SumIsChosen ==
  ASSUME NEW f, NEW S
  PROVE  SumFunctionOnSet(f, S) = (CHOOSE g : Solves(g, f, S))[S]
BY DEF SumFunctionOnSet, FoldFunctionOnSet, MapThenFoldSet, Solves, Chosen

(* ... which exists when the set is finite: it is built from the subsets   *)
(* of at most n elements. *)
LEMMA SolutionExists ==
  ASSUME NEW f, NEW S, IsFiniteSet(S)
  PROVE  \E g : Solves(g, f, S)
<1> DEFINE D(n) == {s \in SUBSET S : Cardinality(s) <= n}
           Sol(g, n) == g = [s \in D(n) |->
                               IF s = {} THEN 0 ELSE f[Chosen(s)] + g[s \ {Chosen(s)}]]
           N == {n \in Nat : \E g : Sol(g, n)}
<1>0. ASSUME NEW s \in SUBSET S
      PROVE  /\ IsFiniteSet(s) /\ Cardinality(s) \in Nat
             /\ Cardinality(s) <= Cardinality(S)
             /\ Cardinality(s) = 0 <=> s = {}
  BY FS_Subset, FS_CardinalityType, FS_EmptySet
<1>1. 0 \in N
  <2>1. D(0) = {{}}
    <3>1. ASSUME NEW s \in D(0) PROVE s = {} BY <1>0
    <3>2. {} \in D(0) BY <1>0
    <3> QED BY <3>1, <3>2
  <2>2. Sol([s \in D(0) |-> 0], 0) BY <2>1
  <2> QED BY <2>2
<1>2. ASSUME NEW n \in Nat, n \in N PROVE n + 1 \in N
  <2>1. PICK g : Sol(g, n) BY <1>2
  <2> DEFINE h == [s \in D(n + 1) |->
                     IF s \in D(n) THEN g[s] ELSE f[Chosen(s)] + g[s \ {Chosen(s)}]]
  <2>2. ASSUME NEW s \in D(n + 1), s # {}
        PROVE  s \ {Chosen(s)} \in D(n)
    <3>1. Chosen(s) \in s BY <2>2, ChosenIsIn
    <3>2. IsFiniteSet(s) BY <1>0
    <3>3. Cardinality(s \ {Chosen(s)}) = Cardinality(s) - 1
      BY <3>1, <3>2, FS_RemoveElement
    <3>4. Cardinality(s) \in Nat /\ Cardinality(s) <= n + 1 BY <1>0
    <3> QED BY <3>3, <3>4
  <2>3. D(n) \subseteq D(n + 1) /\ {} \in D(n)
    <3>1. ASSUME NEW s \in D(n) PROVE s \in D(n + 1) BY <1>0
    <3>2. {} \in SUBSET S /\ Cardinality({}) = 0 BY <1>0
    <3> QED BY <3>1, <3>2
  <2>4. ASSUME NEW s \in D(n + 1)
        PROVE  h[s] = IF s = {} THEN 0 ELSE f[Chosen(s)] + h[s \ {Chosen(s)}]
    <3>1. CASE s = {}
      <4>1. h[s] = g[s] BY <3>1, <2>3
      <4>2. g[s] = 0 BY <3>1, <2>1, <2>3
      <4> QED BY <4>1, <4>2, <3>1
    <3>2. CASE s # {}
      <4>1. s \ {Chosen(s)} \in D(n) /\ s \ {Chosen(s)} \in D(n + 1) BY <3>2, <2>2, <2>3
      <4>2. h[s \ {Chosen(s)}] = g[s \ {Chosen(s)}] BY <4>1
      <4>3. CASE s \in D(n)
        <5>1. g[s] = f[Chosen(s)] + g[s \ {Chosen(s)}] BY <2>1, <4>3, <3>2
        <5> QED BY <5>1, <4>2, <4>3, <3>2
      <4>4. CASE s \notin D(n)
        <5>1. h[s] = f[Chosen(s)] + g[s \ {Chosen(s)}] BY <4>4
        <5> QED BY <5>1, <4>2, <3>2
      <4> QED BY <4>3, <4>4
    <3> QED BY <3>1, <3>2
  <2>5. Sol(h, n + 1)
    <3> DEFINE k == [s \in D(n + 1) |->
                       IF s = {} THEN 0 ELSE f[Chosen(s)] + h[s \ {Chosen(s)}]]
    <3>1. \A s \in D(n + 1) : h[s] = k[s] BY <2>4
    <3> QED BY <3>1
  <2>6. n + 1 \in Nat OBVIOUS
  <2> QED BY <2>5, <2>6
<1>3. Nat \subseteq N
  <2> HIDE DEF N
  <2> QED BY <1>1, <1>2, InductionOnNat
<1>4. D(Cardinality(S)) = SUBSET S BY <1>0
<1>5. Cardinality(S) \in N BY <1>0, <1>3
<1> QED BY <1>4, <1>5 DEF Solves

(* Two solutions agree on the finite sets both know. *)
LEMMA SolutionsAgree ==
  ASSUME NEW f, NEW S, NEW T, IsFiniteSet(S), T \in SUBSET S,
         NEW g, Solves(g, f, S), NEW h, Solves(h, f, T)
  PROVE  g[T] = h[T]
<1> DEFINE P == {s \in SUBSET T : g[s] = h[s]}
<1>1. IsFiniteSet(T) BY FS_Subset
<1>2. ASSUME NEW s \in SUBSET T, \A x \in s : s \ {x} \in P
      PROVE  s \in P
  <2>1. s \in SUBSET S OBVIOUS
  <2>2. CASE s = {}
    <3>1. g[s] = 0 BY <2>1, <2>2 DEF Solves
    <3>2. h[s] = 0 BY <2>2 DEF Solves
    <3> QED BY <3>1, <3>2
  <2>3. CASE s # {}
    <3>1. s \ {Chosen(s)} \in P BY <2>3, <1>2, ChosenIsIn
    <3>2. g[s] = f[Chosen(s)] + g[s \ {Chosen(s)}] BY <2>1, <2>3 DEF Solves
    <3>3. h[s] = f[Chosen(s)] + h[s \ {Chosen(s)}] BY <2>3 DEF Solves
    <3> QED BY <3>1, <3>2, <3>3
  <2> QED BY <2>2, <2>3
<1>3. SUBSET T \subseteq P
  <2> HIDE DEF P
  <2> QED BY <1>1, <1>2, InductionOnSets
<1> QED BY <1>3

LEMMA SumIsSolution ==
  ASSUME NEW f, NEW S, IsFiniteSet(S), NEW g, Solves(g, f, S), NEW T \in SUBSET S
  PROVE  SumFunctionOnSet(f, T) = g[T]
<1>1. IsFiniteSet(T) BY FS_Subset
<1> DEFINE h == CHOOSE k : Solves(k, f, T)
<1>2. Solves(h, f, T) BY <1>1, SolutionExists
<1>3. SumFunctionOnSet(f, T) = h[T] BY SumIsChosen
<1> HIDE DEF h
<1> QED BY <1>2, <1>3, SolutionsAgree

-----------------------------------------------------------------------------
(* The laws of sums. *)

LEMMA SumEmpty ==
  ASSUME NEW f
  PROVE  SumFunctionOnSet(f, {}) = 0
<1>1. IsFiniteSet({}) BY FS_EmptySet
<1>2. PICK g : Solves(g, f, {}) BY <1>1, SolutionExists
<1>3. g[{}] = 0 BY <1>2 DEF Solves
<1> QED BY <1>1, <1>2, <1>3, SumIsSolution

LEMMA SumOfChosen ==
  ASSUME NEW f, NEW S, IsFiniteSet(S), S # {}
  PROVE  SumFunctionOnSet(f, S) =
           f[Chosen(S)] + SumFunctionOnSet(f, S \ {Chosen(S)})
<1>1. PICK g : Solves(g, f, S) BY SolutionExists
<1>2. g[S] = f[Chosen(S)] + g[S \ {Chosen(S)}] BY <1>1 DEF Solves
<1>3. g[S] = SumFunctionOnSet(f, S) BY <1>1, SumIsSolution
<1>4. g[S \ {Chosen(S)}] = SumFunctionOnSet(f, S \ {Chosen(S)})
  BY <1>1, SumIsSolution
<1> QED BY <1>2, <1>3, <1>4

(* A sum of integers is an integer. *)
LEMMA SumType ==
  ASSUME NEW S, IsFiniteSet(S), NEW f, \A x \in S : f[x] \in Int
  PROVE  SumFunctionOnSet(f, S) \in Int
<1> DEFINE P == {T \in SUBSET S : SumFunctionOnSet(f, T) \in Int}
<1>1. ASSUME NEW T \in SUBSET S, \A x \in T : T \ {x} \in P
      PROVE  T \in P
  <2>1. CASE T = {} BY <2>1, SumEmpty
  <2>2. CASE T # {}
    <3>1. Chosen(T) \in T /\ IsFiniteSet(T) BY <2>2, ChosenIsIn, FS_Subset
    <3>2. SumFunctionOnSet(f, T \ {Chosen(T)}) \in Int BY <3>1, <1>1
    <3>3. SumFunctionOnSet(f, T) =
            f[Chosen(T)] + SumFunctionOnSet(f, T \ {Chosen(T)})
      BY <3>1, <2>2, SumOfChosen
    <3> QED BY <3>1, <3>2, <3>3
  <2> QED BY <2>1, <2>2
<1>2. SUBSET S \subseteq P
  <2> HIDE DEF P
  <2> QED BY <1>1, InductionOnSets
<1> QED BY <1>2

(* Any element may be taken out first. *)
LEMMA SumTakeOut ==
  ASSUME NEW S, IsFiniteSet(S), NEW f, \A x \in S : f[x] \in Int
  PROVE  \A x \in S : SumFunctionOnSet(f, S) = f[x] + SumFunctionOnSet(f, S \ {x})
<1> DEFINE Law(T) == \A x \in T :
             SumFunctionOnSet(f, T) = f[x] + SumFunctionOnSet(f, T \ {x})
           P == {T \in SUBSET S : Law(T)}
<1>0. ASSUME NEW T \in SUBSET S
      PROVE  IsFiniteSet(T) /\ SumFunctionOnSet(f, T) \in Int
  BY SumType, FS_Subset
<1>1. ASSUME NEW T \in SUBSET S, \A x \in T : T \ {x} \in P
      PROVE  T \in P
  <2>1. SUFFICES ASSUME NEW x \in T
                 PROVE  SumFunctionOnSet(f, T) = f[x] + SumFunctionOnSet(f, T \ {x})
    OBVIOUS
  <2> DEFINE c == Chosen(T)
             U == (T \ {c}) \ {x}
  <2>2. c \in T /\ f[c] \in Int /\ f[x] \in Int BY ChosenIsIn
  <2>3. SumFunctionOnSet(f, T) = f[c] + SumFunctionOnSet(f, T \ {c})
    BY <1>0, SumOfChosen
  <2>4. CASE x = c BY <2>3, <2>4
  <2>5. CASE x # c
    <3> HIDE DEF c
    <3>1. Law(T \ {c}) /\ Law(T \ {x}) BY <1>1, <2>2
    <3>2. SumFunctionOnSet(f, T \ {c}) = f[x] + SumFunctionOnSet(f, U)
      BY <3>1, <2>5
    <3>3. U = (T \ {x}) \ {c} /\ U \in SUBSET S OBVIOUS
    <3>4. SumFunctionOnSet(f, T \ {x}) = f[c] + SumFunctionOnSet(f, U)
      BY <3>1, <3>3, <2>5, <2>2
    <3>5. SumFunctionOnSet(f, U) \in Int BY <3>3, <1>0
    <3> QED BY <3>2, <3>4, <3>5, <2>2, <2>3
  <2> QED BY <2>4, <2>5
<1>2. SUBSET S \subseteq P
  <2> HIDE DEF P
  <2> QED BY <1>1, InductionOnSets
<1> QED BY <1>2

(* Functions that agree on a set have one sum. *)
LEMMA SumSame ==
  ASSUME NEW S, IsFiniteSet(S), NEW f, NEW g, \A x \in S : f[x] = g[x]
  PROVE  SumFunctionOnSet(f, S) = SumFunctionOnSet(g, S)
<1> DEFINE P == {T \in SUBSET S : SumFunctionOnSet(f, T) = SumFunctionOnSet(g, T)}
<1>1. ASSUME NEW T \in SUBSET S, \A x \in T : T \ {x} \in P
      PROVE  T \in P
  <2>1. CASE T = {} BY <2>1, SumEmpty
  <2>2. CASE T # {}
    <3>1. Chosen(T) \in T /\ IsFiniteSet(T) BY <2>2, ChosenIsIn, FS_Subset
    <3>2. T \ {Chosen(T)} \in P /\ f[Chosen(T)] = g[Chosen(T)] BY <3>1, <1>1
    <3>3. /\ SumFunctionOnSet(f, T) =
                f[Chosen(T)] + SumFunctionOnSet(f, T \ {Chosen(T)})
          /\ SumFunctionOnSet(g, T) =
                g[Chosen(T)] + SumFunctionOnSet(g, T \ {Chosen(T)})
      BY <3>1, <2>2, SumOfChosen
    <3> QED BY <3>2, <3>3
  <2> QED BY <2>1, <2>2
<1>2. SUBSET S \subseteq P
  <2> HIDE DEF P
  <2> QED BY <1>1, InductionOnSets
<1> QED BY <1>2

LEMMA SumNat ==
  ASSUME NEW S, IsFiniteSet(S), NEW f, \A x \in S : f[x] \in Nat
  PROVE  SumFunctionOnSet(f, S) \in Nat
<1> DEFINE P == {T \in SUBSET S : SumFunctionOnSet(f, T) \in Nat}
<1>1. ASSUME NEW T \in SUBSET S, \A x \in T : T \ {x} \in P
      PROVE  T \in P
  <2>1. CASE T = {} BY <2>1, SumEmpty
  <2>2. CASE T # {}
    <3>1. Chosen(T) \in T /\ IsFiniteSet(T) BY <2>2, ChosenIsIn, FS_Subset
    <3>2. T \ {Chosen(T)} \in P /\ f[Chosen(T)] \in Nat BY <3>1, <1>1
    <3>3. SumFunctionOnSet(f, T) = f[Chosen(T)] + SumFunctionOnSet(f, T \ {Chosen(T)})
      BY <3>1, <2>2, SumOfChosen
    <3> QED BY <3>2, <3>3
  <2> QED BY <2>1, <2>2
<1>2. SUBSET S \subseteq P
  <2> HIDE DEF P
  <2> QED BY <1>1, InductionOnSets
<1> QED BY <1>2

LEMMA SumZero ==
  ASSUME NEW S, IsFiniteSet(S), NEW f, \A x \in S : f[x] = 0
  PROVE  SumFunctionOnSet(f, S) = 0
<1> DEFINE P == {T \in SUBSET S : SumFunctionOnSet(f, T) = 0}
<1>1. ASSUME NEW T \in SUBSET S, \A x \in T : T \ {x} \in P
      PROVE  T \in P
  <2>1. CASE T = {} BY <2>1, SumEmpty
  <2>2. CASE T # {}
    <3>1. Chosen(T) \in T /\ IsFiniteSet(T) BY <2>2, ChosenIsIn, FS_Subset
    <3>2. T \ {Chosen(T)} \in P /\ f[Chosen(T)] = 0 BY <3>1, <1>1
    <3>3. SumFunctionOnSet(f, T) = f[Chosen(T)] + SumFunctionOnSet(f, T \ {Chosen(T)})
      BY <3>1, <2>2, SumOfChosen
    <3> QED BY <3>2, <3>3
  <2> QED BY <2>1, <2>2
<1>2. SUBSET S \subseteq P
  <2> HIDE DEF P
  <2> QED BY <1>1, InductionOnSets
<1> QED BY <1>2

(* One value changes: the sum changes by as much. *)
LEMMA SumUpdate ==
  ASSUME NEW S, IsFiniteSet(S), NEW x \in S, NEW f, NEW g,
         \A y \in S : f[y] \in Int, g[x] \in Int,
         \A y \in S \ {x} : g[y] = f[y]
  PROVE  SumFunctionOnSet(g, S) = SumFunctionOnSet(f, S) + (g[x] - f[x])
<1>1. \A y \in S : g[y] \in Int OBVIOUS
<1>2. SumFunctionOnSet(f, S) = f[x] + SumFunctionOnSet(f, S \ {x}) BY SumTakeOut
<1>3. SumFunctionOnSet(g, S) = g[x] + SumFunctionOnSet(g, S \ {x}) BY <1>1, SumTakeOut
<1>4. IsFiniteSet(S \ {x}) BY FS_RemoveElement
<1>5. SumFunctionOnSet(g, S \ {x}) = SumFunctionOnSet(f, S \ {x}) BY <1>4, SumSame
<1>6. SumFunctionOnSet(f, S \ {x}) \in Int BY <1>4, SumType
<1>7. f[x] \in Int OBVIOUS
<1> QED BY <1>2, <1>3, <1>5, <1>6, <1>7

-----------------------------------------------------------------------------
(* Sums of sequences. *)

LEMMA SeqSumEmpty == SumFunction(<<>>) = 0
<1>1. DOMAIN <<>> = {} OBVIOUS
<1> QED BY <1>1, SumEmpty DEF SumFunction

LEMMA SeqSumType ==
  ASSUME NEW s \in Seq(Int)
  PROVE  SumFunction(s) \in Int
<1>1. DOMAIN s = 1..Len(s) /\ IsFiniteSet(1..Len(s)) BY FS_Interval
<1>2. \A k \in 1..Len(s) : s[k] \in Int OBVIOUS
<1> QED BY <1>1, <1>2, SumType DEF SumFunction

LEMMA SeqSumNat ==
  ASSUME NEW s \in Seq(Nat)
  PROVE  SumFunction(s) \in Nat
<1>1. DOMAIN s = 1..Len(s) /\ Len(s) \in Nat OBVIOUS
<1>2. IsFiniteSet(DOMAIN s) BY <1>1, FS_Interval
<1> QED BY <1>1, <1>2, SumNat DEF SumFunction

LEMMA SeqSumAppend ==
  ASSUME NEW s \in Seq(Int), NEW v \in Int
  PROVE  SumFunction(Append(s, v)) = SumFunction(s) + v
<1> DEFINE t == Append(s, v)
           n == Len(s)
<1>1. t \in Seq(Int) /\ Len(t) = n + 1 /\ n \in Nat /\ t[n + 1] = v
      /\ \A k \in 1..n : t[k] = s[k]
  OBVIOUS
<1>2. DOMAIN t = 1..(n + 1) /\ DOMAIN s = 1..n BY <1>1
<1>3. IsFiniteSet(1..(n + 1)) /\ IsFiniteSet(1..n) BY <1>1, FS_Interval
<1>4. \A k \in 1..(n + 1) : t[k] \in Int BY <1>1
<1>5. n + 1 \in 1..(n + 1) /\ (1..(n + 1)) \ {n + 1} = 1..n BY <1>1
<1> HIDE DEF t
<1>6. SumFunctionOnSet(t, 1..(n + 1)) = t[n + 1] + SumFunctionOnSet(t, 1..n)
  BY <1>3, <1>4, <1>5, SumTakeOut
<1>7. SumFunctionOnSet(t, 1..n) = SumFunctionOnSet(s, 1..n) BY <1>1, <1>3, SumSame
<1>8. SumFunction(s) \in Int BY SeqSumType
<1> QED BY <1>1, <1>2, <1>6, <1>7, <1>8 DEF SumFunction, t

(* Its head may be taken out first. *)
LEMMA SeqSumTail ==
  ASSUME NEW s \in Seq(Int), s # <<>>
  PROVE  SumFunction(s) = Head(s) + SumFunction(Tail(s))
<1> DEFINE Law(t) == SumFunction(t) = Head(t) + SumFunction(Tail(t))
           N == {n \in Nat : \A t \in Seq(Int) : t # <<>> /\ Len(t) = n => Law(t)}
<1>1. 0 \in N BY EmptySeq
<1>2. ASSUME NEW n \in Nat, n \in N PROVE n + 1 \in N
  <2>1. SUFFICES ASSUME NEW t \in Seq(Int), t # <<>>, Len(t) = n + 1 PROVE Law(t)
    OBVIOUS
  <2>2. PICK u \in Seq(Int), v \in Int : t = Append(u, v)
    BY <2>1, SequenceEmptyOrAppend
  <2>3. Len(t) = Len(u) + 1 /\ Len(u) \in Nat BY <2>2, AppendProperties, LenProperties
  <2>4. SumFunction(t) = SumFunction(u) + v BY <2>2, SeqSumAppend
  <2>5. CASE u = <<>>
    <3>1. Head(t) = v /\ Tail(t) = <<>> BY <2>2, <2>5, HeadTailAppend
    <3>2. SumFunction(u) = 0 /\ SumFunction(Tail(t)) = 0 BY <2>5, <3>1, SeqSumEmpty
    <3> QED BY <2>4, <3>1, <3>2
  <2>6. CASE u # <<>>
    <3>1. Law(u) BY <2>1, <2>3, <2>6, <1>2
    <3>2. Head(t) = Head(u) /\ Tail(t) = Append(Tail(u), v) BY <2>2, <2>6, HeadTailAppend
    <3>3. Head(u) \in Int /\ Tail(u) \in Seq(Int) BY <2>6, HeadTailProperties
    <3>4. SumFunction(Tail(t)) = SumFunction(Tail(u)) + v BY <3>2, <3>3, SeqSumAppend
    <3>5. SumFunction(Tail(u)) \in Int BY <3>3, SeqSumType
    <3> QED BY <2>4, <3>1, <3>2, <3>3, <3>4, <3>5
  <2> QED BY <2>5, <2>6
<1>3. Nat \subseteq N
  <2> HIDE DEF N
  <2> QED BY <1>1, <1>2, InductionOnNat
<1>4. Len(s) \in Nat BY LenProperties
<1> QED BY <1>3, <1>4
=============================================================================
