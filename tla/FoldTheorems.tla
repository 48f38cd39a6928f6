---------------------------- MODULE FoldTheorems ----------------------------
(***************************************************************************)
(* Sums over finite sets and folds over sequences, for the proofs about    *)
(* the modules that use MapThenSumSet and FoldLeft.                        *)
(*                                                                         *)
(* Induction is that over a set of natural numbers without a least one.    *)
(* A definition by recursion, of which the folds of the community modules  *)
(* are two, is a CHOOSE: what it chooses solves its equation only if some  *)
(* function does, and RecursionDefined gives one.                          *)
(***************************************************************************)
EXTENDS FiniteSetsExt, FiniteSetTheorems, TLAPS

\* The order of the natural numbers.
Less == {ss \in Nat \X Nat : ss[1] < ss[2]}

\* Every set of natural numbers that is not empty has a least one.
LEMMA LeastNatural ==
    ASSUME NEW T \in SUBSET Nat, T # {}
    PROVE  \E n \in T : \A m \in T : n <= m
<1>1. IsWellFoundedOn(Less, Nat)
  BY NatLessThanWellFounded DEF OpToRel, Less
<1>2. PICK n \in T : \A m \in T : <<m, n>> \notin Less
  BY <1>1, WFMin
<1>3. \A m \in T : n <= m
  <2> TAKE m \in T
  <2>1. m \in Nat /\ n \in Nat
    OBVIOUS
  <2>2. m < n => <<m, n>> \in Less
    BY <2>1 DEF Less
  <2> QED
    BY <1>2, <2>1, <2>2
<1> QED
  BY <1>3

\* What holds of zero, and of a successor, holds of all natural numbers.
LEMMA Induction ==
    ASSUME NEW S \in SUBSET Nat, 0 \in S, \A n \in S : n + 1 \in S
    PROVE  S = Nat
<1> SUFFICES ASSUME S # Nat PROVE FALSE
  OBVIOUS
<1>1. PICK n \in Nat \ S : \A m \in Nat \ S : n <= m
  BY LeastNatural
<1>2. n - 1 \in S
  BY <1>1
<1> QED
  BY <1>1, <1>2

\* Those of D up to a rank.
Level(D, rank, n) == {d \in D : rank[d] <= n}

\* g is defined by recursion on D: base at start, a step from the one before it elsewhere.
Solves(g, D, start, base, before, step) ==
    \A d \in D : g[d] = IF d = start THEN base ELSE step[d][g[before[d]]]

\* Levels grow, the first has rank zero, and what has a smaller rank than an element
\* of one level is in the level below.
LEMMA Levels ==
    ASSUME NEW D, NEW rank \in [D -> Nat], NEW n \in Nat
    PROVE  /\ Level(D, rank, n) \subseteq Level(D, rank, n + 1)
           /\ \A d \in Level(D, rank, 0) : rank[d] = 0
           /\ \A d \in Level(D, rank, n + 1), e \in D : rank[e] < rank[d] => e \in Level(D, rank, n)
<1>1. \A d \in D : rank[d] \in Nat
  OBVIOUS
<1>2. \A a, c \in Nat : /\ a <= n => a <= n + 1
                        /\ a <= 0 => a = 0
                        /\ c <= n + 1 /\ a < c => a <= n
  OBVIOUS
<1> QED
  BY <1>1, <1>2 DEF Level

\* A solution on a level gives one on the next.
LEMMA OneLevelMore ==
    ASSUME NEW D, NEW E, NEW V, NEW start, NEW base \in V, NEW before, NEW step,
           D \subseteq E,
           \A d \in D \ {start} : before[d] \in D,
           \A d \in E \ {start} : before[d] \in D,
           \A d \in E \ {start}, v \in V : step[d][v] \in V,
           NEW g \in [D -> V], Solves(g, D, start, base, before, step)
    PROVE  \E h \in [E -> V] : Solves(h, E, start, base, before, step)
<1> DEFINE h == [d \in E |-> IF d = start THEN base ELSE step[d][g[before[d]]]]
<1>1. h \in [E -> V]
  <2>1. \A d \in E \ {start} : step[d][g[before[d]]] \in V
    OBVIOUS
  <2> QED
    BY <2>1
<1>2. \A d \in D : h[d] = g[d]
  BY DEF Solves
<1>3. \A d \in E : h[d] = IF d = start THEN base ELSE step[d][g[before[d]]]
  OBVIOUS
<1> HIDE DEF h
<1>4. Solves(h, E, start, base, before, step)
  BY <1>2, <1>3 DEF Solves
<1> QED
  BY <1>1, <1>4

\* Where the rank falls with every step there is a solution on all of D.
LEMMA RecursionDefined ==
    ASSUME NEW D, NEW V, NEW start \in D, NEW base \in V,
           NEW rank \in [D -> Nat], NEW bound \in Nat, \A d \in D : rank[d] <= bound,
           NEW before, NEW step,
           \A d \in D \ {start} : before[d] \in D /\ rank[before[d]] < rank[d],
           \A d \in D \ {start}, v \in V : step[d][v] \in V
    PROVE  \E g \in [D -> V] : Solves(g, D, start, base, before, step)
<1> DEFINE L(n) == Level(D, rank, n)
           Q == {n \in Nat : \E g \in [L(n) -> V] : Solves(g, L(n), start, base, before, step)}
<1>0. \A d \in D : rank[d] \in Nat
  OBVIOUS
<1>1. 0 \in Q
  <2>1. \A d \in L(0) : d = start
    BY <1>0 DEF Level
  <2> DEFINE g == [d \in L(0) |-> base]
  <2>2. g \in [L(0) -> V] /\ Solves(g, L(0), start, base, before, step)
    BY <2>1 DEF Solves
  <2> QED
    BY <2>2
<1>2. ASSUME NEW n \in Nat, n \in Q PROVE n + 1 \in Q
  <2>1. PICK g \in [L(n) -> V] : Solves(g, L(n), start, base, before, step)
    BY <1>2
  <2>2. L(n) \subseteq L(n + 1) /\ L(n + 1) \subseteq D
    BY Levels DEF Level
  <2>3. \A d \in L(n + 1) \ {start} : before[d] \in L(n)
    BY <2>2, Levels
  <2>4. \A d \in L(n + 1) \ {start}, v \in V : step[d][v] \in V
    BY <2>2
  <2>5. \E h \in [L(n + 1) -> V] : Solves(h, L(n + 1), start, base, before, step)
    <3> HIDE DEF L
    <3> QED
      BY <2>1, <2>2, <2>3, <2>4, OneLevelMore
  <2> QED
    BY <2>5
<1>3. Q \in SUBSET Nat
  OBVIOUS
<1>4. bound \in Q
  <2> HIDE DEF Q
  <2> QED
    BY <1>1, <1>2, <1>3, Induction
<1>5. L(bound) = D
  BY DEF Level
<1> QED
  BY <1>4, <1>5

-----------------------------------------------------------------------------
(***************************************************************************)
(* Sums.                                                                   *)
(***************************************************************************)

\* The sum of a function, as MapThenSumSet computes it.
SumOver(f, S) == MapThenSumSet(LAMBDA x : f[x], S)

\* Which element MapThenSumSet takes first.
Chosen(s) == CHOOSE x \in s : TRUE

\* g has the sums of f over the subsets of S.
Sums(g, f, S) ==
    \A s \in SUBSET S : g[s] = IF s = {} THEN 0 ELSE f[Chosen(s)] + g[s \ {Chosen(s)}]

\* It is in the set.
LEMMA ChosenIn == \A s : s # {} => Chosen(s) \in s
BY DEF Chosen

\* A set without one of its elements is finite and smaller.
LEMMA TakenOut ==
    ASSUME NEW S, IsFiniteSet(S), NEW s \in SUBSET S, NEW x \in s
    PROVE  /\ IsFiniteSet(s) /\ Cardinality(s) \in Nat
           /\ Cardinality(s \ {x}) \in Nat
           /\ Cardinality(s) = Cardinality(s \ {x}) + 1
           /\ Cardinality(s) <= Cardinality(S)
<1>1. IsFiniteSet(s) /\ Cardinality(s) <= Cardinality(S)
  BY FS_Subset
<1>2. IsFiniteSet(s \ {x}) /\ Cardinality(s \ {x}) = Cardinality(s) - 1
  BY <1>1, FS_RemoveElement
<1>3. Cardinality(s) \in Nat /\ Cardinality(s \ {x}) \in Nat
  BY <1>1, <1>2, FS_CardinalityType
<1> QED
  BY <1>1, <1>2, <1>3

\* There are such sums, and SumOver is one of them.
LEMMA SumDefined ==
    ASSUME NEW f, NEW S, IsFiniteSet(S), \A x \in S : f[x] \in Nat
    PROVE  \E g : Sums(g, f, S) /\ SumOver(f, S) = g[S]
<1> DEFINE D == SUBSET S
           before == [s \in D |-> s \ {Chosen(s)}]
           rank == [s \in D |-> Cardinality(s)]
           step == [s \in D |-> [v \in Nat |-> f[Chosen(s)] + v]]
<1>1. \A s \in D : Cardinality(s) \in Nat /\ Cardinality(s) <= Cardinality(S)
  BY FS_Subset, FS_CardinalityType
<1>2. rank \in [D -> Nat] /\ \A s \in D : rank[s] <= Cardinality(S)
  BY <1>1
<1>3. \A s \in D \ {{}} : before[s] \in D /\ rank[before[s]] < rank[s]
  <2> TAKE s \in D \ {{}}
  <2>1. Chosen(s) \in s
    BY ChosenIn
  <2>2. Cardinality(s \ {Chosen(s)}) < Cardinality(s)
    BY <2>1, TakenOut
  <2> QED
    BY <2>2
<1>4. \A s \in D \ {{}}, v \in Nat : step[s][v] \in Nat
  <2> TAKE s \in D \ {{}}, v \in Nat
  <2>1. f[Chosen(s)] \in Nat
    BY ChosenIn
  <2> QED
    BY <2>1
<1>5. Cardinality(S) \in Nat /\ {} \in D
  BY FS_CardinalityType
<1>6. PICK g \in [D -> Nat] : Solves(g, D, {}, 0, before, step)
  <2> HIDE DEF D, before, rank, step
  <2> QED
    BY <1>2, <1>3, <1>4, <1>5, RecursionDefined
<1>7. \A s \in D : g[s] = IF s = {} THEN 0 ELSE f[Chosen(s)] + g[s \ {Chosen(s)}]
  BY <1>6 DEF Solves
<1> DEFINE IsIter(it) == it = [s \in D |-> IF s = {} THEN 0 ELSE f[Chosen(s)] + it[s \ {Chosen(s)}]]
<1>8. IsIter(g)
  BY <1>7
<1>9. IsIter(CHOOSE it : IsIter(it))
  BY <1>8
<1>10. SumOver(f, S) = (CHOOSE it : IsIter(it))[S]
  BY DEF SumOver, MapThenSumSet, MapThenFoldSet, Chosen
<1>11. Sums(CHOOSE it : IsIter(it), f, S)
  <2> DEFINE h == CHOOSE it : IsIter(it)
  <2>1. h = [s \in D |-> IF s = {} THEN 0 ELSE f[Chosen(s)] + h[s \ {Chosen(s)}]]
    BY <1>9
  <2> HIDE DEF h
  <2>2. Sums(h, f, S)
    BY <2>1 DEF Sums
  <2> QED
    BY <2>2 DEF h
<1> QED
  BY <1>10, <1>11

\* Sums of the same function over the same set agree, and are natural numbers.
LEMMA SumUnique ==
    ASSUME NEW f, NEW S, NEW g, NEW e, NEW T, NEW h, Sums(g, f, S), Sums(h, e, T),
           NEW R, IsFiniteSet(R), R \subseteq S, R \subseteq T,
           \A x \in R : f[x] \in Nat /\ f[x] = e[x]
    PROVE  g[R] = h[R] /\ g[R] \in Nat
<1> DEFINE Q == {n \in Nat : \A s \in SUBSET R : Cardinality(s) = n => g[s] = h[s] /\ g[s] \in Nat}
<1>0. \A s \in SUBSET R : IsFiniteSet(s) /\ Cardinality(s) \in Nat
  BY FS_Subset, FS_CardinalityType
<1>1. 0 \in Q
  <2>1. \A s \in SUBSET R : Cardinality(s) = 0 => s = {}
    BY <1>0, FS_EmptySet
  <2>2. g[{}] = 0 /\ h[{}] = 0
    BY DEF Sums
  <2> QED
    BY <2>1, <2>2
<1>2. ASSUME NEW n \in Nat, n \in Q PROVE n + 1 \in Q
  <2> SUFFICES ASSUME NEW s \in SUBSET R, Cardinality(s) = n + 1
               PROVE  g[s] = h[s] /\ g[s] \in Nat
    OBVIOUS
  <2>1. s # {}
    BY FS_EmptySet
  <2> DEFINE c == Chosen(s)
  <2>2. c \in s
    BY <2>1, ChosenIn
  <2> HIDE DEF c
  <2>3. Cardinality(s \ {c}) = n
    BY <2>2, TakenOut
  <2>4. g[s \ {c}] = h[s \ {c}] /\ g[s \ {c}] \in Nat
    BY <1>2, <2>3
  <2>5. g[s] = f[c] + g[s \ {c}] /\ h[s] = e[c] + h[s \ {c}]
    BY <2>1 DEF Sums, c
  <2>6. f[c] = e[c] /\ f[c] \in Nat
    BY <2>2
  <2> QED
    BY <2>4, <2>5, <2>6
<1>3. Q \in SUBSET Nat
  OBVIOUS
<1>4. Cardinality(R) \in Q
  <2> HIDE DEF Q
  <2> QED
    BY <1>0, <1>1, <1>2, <1>3, Induction
<1> QED
  BY <1>4

\* An element may be taken out of a sum in any order.
LEMMA SumTakeOut ==
    ASSUME NEW f, NEW S, NEW g, Sums(g, f, S), IsFiniteSet(S),
           \A x \in S : f[x] \in Nat, NEW y \in S
    PROVE  g[S] = f[y] + g[S \ {y}]
<1> DEFINE Q == {n \in Nat : \A s \in SUBSET S : Cardinality(s) = n =>
                               \A x \in s : g[s] = f[x] + g[s \ {x}]}
<1>0. \A s \in SUBSET S : IsFiniteSet(s) /\ Cardinality(s) \in Nat /\ g[s] \in Nat
  BY FS_Subset, FS_CardinalityType, SumUnique
<1>1. 0 \in Q
  BY <1>0, FS_EmptySet
<1>2. ASSUME NEW n \in Nat, n \in Q PROVE n + 1 \in Q
  <2> SUFFICES ASSUME NEW s \in SUBSET S, Cardinality(s) = n + 1, NEW x \in s
               PROVE  g[s] = f[x] + g[s \ {x}]
    OBVIOUS
  <2> DEFINE c == Chosen(s)
  <2>1. c \in s /\ s # {}
    BY ChosenIn
  <2>2. g[s] = f[c] + g[s \ {c}]
    BY <2>1 DEF Sums
  <2> HIDE DEF c
  <2>3. CASE c = x
    BY <2>2, <2>3
  <2>4. CASE c # x
    <3>1. Cardinality(s \ {c}) = n /\ Cardinality(s \ {x}) = n
      BY <2>1, TakenOut
    <3>2. x \in s \ {c} /\ c \in s \ {x}
      BY <2>1, <2>4
    <3>3. g[s \ {c}] = f[x] + g[(s \ {c}) \ {x}]
      BY <1>2, <3>1, <3>2
    <3>4. g[s \ {x}] = f[c] + g[(s \ {x}) \ {c}]
      BY <1>2, <3>1, <3>2
    <3>5. (s \ {c}) \ {x} = (s \ {x}) \ {c}
      OBVIOUS
    <3>6. f[c] \in Nat /\ f[x] \in Nat /\ g[(s \ {x}) \ {c}] \in Nat
      BY <1>0, <2>1
    <3> QED
      BY <2>2, <3>3, <3>4, <3>5, <3>6
  <2> QED
    BY <2>3, <2>4
<1>3. Q \in SUBSET Nat
  OBVIOUS
<1>4. Cardinality(S) \in Q
  <2> HIDE DEF Q
  <2> QED
    BY <1>0, <1>1, <1>2, <1>3, Induction
<1> QED
  BY <1>4

\* The sum over no element.
LEMMA SumEmpty == ASSUME NEW f PROVE SumOver(f, {}) = 0
<1>1. PICK g : Sums(g, f, {}) /\ SumOver(f, {}) = g[{}]
  BY SumDefined, FS_EmptySet
<1> QED
  BY <1>1 DEF Sums

\* The sum is a natural number that depends on the values alone.
LEMMA SumSame ==
    ASSUME NEW S, IsFiniteSet(S), NEW f, NEW e, \A x \in S : f[x] \in Nat /\ f[x] = e[x]
    PROVE  SumOver(f, S) = SumOver(e, S) /\ SumOver(f, S) \in Nat
<1>1. \A x \in S : e[x] \in Nat
  OBVIOUS
<1>2. PICK g : Sums(g, f, S) /\ SumOver(f, S) = g[S]
  BY SumDefined
<1>3. PICK h : Sums(h, e, S) /\ SumOver(e, S) = h[S]
  BY <1>1, SumDefined
<1> QED
  BY <1>2, <1>3, SumUnique

\* Any element may be summed last.
LEMMA SumWithout ==
    ASSUME NEW S, IsFiniteSet(S), NEW f, \A x \in S : f[x] \in Nat, NEW y \in S
    PROVE  SumOver(f, S) = f[y] + SumOver(f, S \ {y})
<1>1. PICK g : Sums(g, f, S) /\ SumOver(f, S) = g[S]
  BY SumDefined
<1>2. IsFiniteSet(S \ {y})
  BY FS_RemoveElement
<1>3. PICK h : Sums(h, f, S \ {y}) /\ SumOver(f, S \ {y}) = h[S \ {y}]
  BY <1>2, SumDefined
<1>4. g[S \ {y}] = h[S \ {y}]
  BY <1>1, <1>2, <1>3, SumUnique
<1> QED
  BY <1>1, <1>3, <1>4, SumTakeOut

\* The sum of natural numbers is one.
LEMMA SumType ==
    ASSUME NEW S, IsFiniteSet(S), NEW f, \A x \in S : f[x] \in Nat
    PROVE  SumOver(f, S) \in Nat
BY SumSame

\* One more for one element is one more in all.
LEMMA SumPlusOne ==
    ASSUME NEW S, IsFiniteSet(S), NEW f, NEW e, NEW y \in S, e[y] = f[y] + 1,
           \A x \in S : f[x] \in Nat, \A x \in S \ {y} : e[x] = f[x]
    PROVE  SumOver(e, S) = SumOver(f, S) + 1
<1>1. IsFiniteSet(S \ {y})
  BY FS_RemoveElement
<1>2. \A x \in S : e[x] \in Nat
  OBVIOUS
<1>3. SumOver(f, S \ {y}) = SumOver(e, S \ {y}) /\ SumOver(f, S \ {y}) \in Nat
  BY <1>1, SumSame
<1>4. SumOver(f, S) = f[y] + SumOver(f, S \ {y}) /\ SumOver(e, S) = e[y] + SumOver(e, S \ {y})
  BY <1>2, SumWithout
<1> QED
  BY <1>3, <1>4

\* The sum up to an index.
SumTo(f, k) == SumOver(f, 0..k)

\* Induction up to a bound.
LEMMA InductionTo ==
    ASSUME NEW n \in Nat, NEW S, 0 \in S, \A k \in Nat : k + 1 <= n /\ k \in S => k + 1 \in S
    PROVE  \A k \in 0..n : k \in S
<1> DEFINE Q == {k \in Nat : k <= n => k \in S}
<1>1. 0 \in Q /\ Q \in SUBSET Nat
  OBVIOUS
<1>2. \A k \in Q : k + 1 \in Q
  OBVIOUS
<1>3. Q = Nat
  <2> HIDE DEF Q
  <2> QED
    BY <1>1, <1>2, Induction
<1> QED
  BY <1>3

\* The sums over initial segments of the natural numbers, one by one.
LEMMA SumToStart ==
    ASSUME NEW n \in Nat, NEW f \in [0..n -> Nat]
    PROVE  SumTo(f, 0) = f[0] /\ f[0] \in Nat
<1>1. 0..0 = {0} /\ {0} \ {0} = {} /\ 0 \in 0..n
  OBVIOUS
<1>2. f[0] \in Nat
  BY <1>1
<1>3. SumOver(f, {0}) = f[0] + SumOver(f, {0} \ {0})
  BY <1>2, FS_Singleton, SumWithout
<1>4. SumOver(f, {}) = 0
  BY SumEmpty
<1>5. SumOver(f, {0}) = f[0]
  <2>1. SumOver(f, {0}) = f[0] + 0
    BY <1>1, <1>3, <1>4, Zenon
  <2> QED
    BY <1>2, <2>1
<1>6. SumOver(f, 0..0) = f[0]
  BY <1>1, <1>5, Zenon
<1> QED
  BY <1>2, <1>6 DEF SumTo

\* A sum up to an index is a natural number.
LEMMA SumToType ==
    ASSUME NEW n \in Nat, NEW f \in [0..n -> Nat], NEW k \in Int, k <= n
    PROVE  SumTo(f, k) \in Nat
<1>1. IsFiniteSet(0..k)
  BY FS_Interval
<1>2. \A x \in 0..k : x \in 0..n
  OBVIOUS
<1>3. \A x \in 0..k : f[x] \in Nat
  BY <1>2
<1> QED
  BY <1>1, <1>3, SumType DEF SumTo

\* The next index adds its value.
LEMMA SumToStep ==
    ASSUME NEW n \in Nat, NEW f \in [0..n -> Nat], NEW k \in Nat, k + 1 <= n
    PROVE  SumTo(f, k + 1) = SumTo(f, k) + f[k + 1] /\ f[k + 1] \in Nat
<1> DEFINE S == 0..(k + 1)
<1>1. IsFiniteSet(S)
  BY FS_Interval
<1>2. k + 1 \in S /\ S \ {k + 1} = 0..k /\ \A x \in S : x \in 0..n
  OBVIOUS
<1>3. \A x \in S : f[x] \in Nat
  BY <1>2
<1>4. SumOver(f, S) = f[k + 1] + SumOver(f, S \ {k + 1})
  <2> HIDE DEF S
  <2> QED
    BY <1>1, <1>2, <1>3, SumWithout
<1>5. SumTo(f, k) \in Nat
  BY SumToType
<1>6. f[k + 1] \in Nat
  BY <1>2, <1>3
<1>7. SumTo(f, k + 1) = f[k + 1] + SumTo(f, k)
  BY <1>2, <1>4, Zenon DEF SumTo
<1> QED
  BY <1>5, <1>6, <1>7

\* A segment that moves up by one keeps its sum.
LEMMA SumToShifted ==
    ASSUME NEW n \in Nat, NEW f \in [0..n -> Nat], NEW e \in [0..n -> Nat],
           e[0] = 0, \A a \in Nat : a + 1 <= n => e[a + 1] = f[a]
    PROVE  \A k \in Nat : k + 1 <= n => SumTo(e, k + 1) = SumTo(f, k)
<1> SUFFICES ASSUME n # 0 PROVE \A k \in Nat : k + 1 <= n => SumTo(e, k + 1) = SumTo(f, k)
  OBVIOUS
<1> DEFINE S == {k \in Nat : SumTo(e, k + 1) = SumTo(f, k)}
<1>1. 0 \in S
  <2>1. SumTo(e, 0) = e[0] /\ SumTo(f, 0) = f[0] /\ f[0] \in Nat
    BY SumToStart
  <2>2. SumTo(e, 0 + 1) = SumTo(e, 0) + e[0 + 1]
    BY SumToStep
  <2>3. e[0 + 1] = f[0]
    OBVIOUS
  <2> QED
    BY <2>1, <2>2, <2>3
<1>2. ASSUME NEW k \in Nat, k + 1 <= n - 1, k \in S PROVE k + 1 \in S
  <2>0. k + 1 \in Nat /\ k + 1 <= n /\ (k + 1) + 1 <= n
    BY <1>2
  <2>1. SumTo(e, (k + 1) + 1) = SumTo(e, k + 1) + e[(k + 1) + 1]
    BY <2>0, SumToStep
  <2>2. SumTo(f, k + 1) = SumTo(f, k) + f[k + 1]
    BY <2>0, SumToStep
  <2>3. e[(k + 1) + 1] = f[k + 1]
    BY <1>2
  <2> QED
    BY <1>2, <2>1, <2>2, <2>3
<1>3. \A k \in 0..(n - 1) : k \in S
  <2>1. n - 1 \in Nat
    OBVIOUS
  <2> HIDE DEF S
  <2> QED
    BY <1>1, <1>2, <2>1, InductionTo
<1> QED
  BY <1>3

\* A longer segment has a larger sum.
LEMMA SumToGrows ==
    ASSUME NEW n \in Nat, NEW f \in [0..n -> Nat], NEW j \in 0..n, NEW k \in 0..n, j <= k
    PROVE  SumTo(f, j) <= SumTo(f, k)
<1> DEFINE S == {m \in Nat : j <= m => SumTo(f, j) <= SumTo(f, m)}
<1>0. SumTo(f, j) \in Nat
  BY SumToType
<1>1. 0 \in S
  <2>1. j <= 0 => j = 0
    OBVIOUS
  <2> QED
    BY <1>0, <2>1
<1>2. ASSUME NEW m \in Nat, m + 1 <= n, m \in S PROVE m + 1 \in S
  <2>1. SumTo(f, m + 1) = SumTo(f, m) + f[m + 1] /\ f[m + 1] \in Nat
    BY <1>2, SumToStep
  <2>2. SumTo(f, m) \in Nat
    BY <1>2, SumToType
  <2>3. CASE j <= m
    BY <1>0, <1>2, <2>1, <2>2, <2>3
  <2>4. CASE ~ (j <= m)
    <3>1. j <= m + 1 => j = m + 1
      BY <2>4
    <3> QED
      BY <1>0, <3>1
  <2> QED
    BY <2>3, <2>4
<1>3. \A m \in 0..n : m \in S
  <2> HIDE DEF S
  <2> QED
    BY <1>1, <1>2, InductionTo
<1> QED
  BY <1>3

\* Nothing sums up to nothing.
LEMMA SumToZero ==
    ASSUME NEW n \in Nat, NEW f \in [0..n -> Nat], \A a \in 0..n : f[a] = 0
    PROVE  \A k \in 0..n : SumTo(f, k) = 0
<1> DEFINE S == {k \in Nat : SumTo(f, k) = 0}
<1>1. 0 \in S
  BY SumToStart
<1>2. ASSUME NEW k \in Nat, k + 1 <= n, k \in S PROVE k + 1 \in S
  <2>1. SumTo(f, k + 1) = SumTo(f, k) + f[k + 1]
    BY <1>2, SumToStep
  <2>2. f[k + 1] = 0
    BY <1>2
  <2> QED
    BY <1>2, <2>1, <2>2
<1>3. \A k \in 0..n : k \in S
  <2> HIDE DEF S
  <2> QED
    BY <1>1, <1>2, InductionTo
<1> QED
  BY <1>3

-----------------------------------------------------------------------------
(***************************************************************************)
(* Folds from the left.                                                    *)
(***************************************************************************)

\* The greatest of a bounded set is in it.
LEMMA MaxIn ==
    ASSUME NEW n \in Nat, NEW T \in SUBSET (0..n), T # {}
    PROVE  Max(T) \in T /\ \A x \in T : Max(T) >= x
<1> DEFINE U == {n - x : x \in T}
<1>0. \A x \in T : x \in Nat /\ n - x \in Nat
  <2>1. \A x \in 0..n : x \in Nat /\ n - x \in Nat
    OBVIOUS
  <2> QED
    BY <2>1
<1>1. U \in SUBSET Nat /\ U # {}
  BY <1>0
<1>2. PICK u \in U : \A v \in U : u <= v
  <2> HIDE DEF U
  <2> QED
    BY <1>1, LeastNatural
<1>3. PICK y \in T : u = n - y
  OBVIOUS
<1>4. \A x \in T : y >= x
  <2> TAKE x \in T
  <2>1. n - y <= n - x
    BY <1>2, <1>3
  <2>2. x \in Nat /\ y \in Nat
    BY <1>0
  <2> QED
    BY <2>1, <2>2
<1>5. \E z \in T : \A x \in T : z >= x
  BY <1>4
<1> QED
  BY <1>5 DEF Max

\* A fold from the left takes the last element of each initial segment.
LEMMA Segments ==
    ASSUME NEW n \in Nat
    PROVE  /\ 1..0 = {}
           /\ \A k \in 0..n : 1..k \in SUBSET (1..n)
           /\ \A k \in Nat : k + 1 <= n =>
                /\ 1..(k + 1) # {} /\ Max(1..(k + 1)) = k + 1
                /\ (1..(k + 1)) \ {k + 1} = 1..k
<1>1. ASSUME NEW k \in Nat, k + 1 <= n
      PROVE  /\ 1..(k + 1) # {} /\ Max(1..(k + 1)) = k + 1
             /\ (1..(k + 1)) \ {k + 1} = 1..k
  <2> DEFINE T == 1..(k + 1)
  <2>1. k + 1 \in T /\ T \in SUBSET (0..(k + 1)) /\ T \in SUBSET Nat /\ \A x \in T : x <= k + 1
    OBVIOUS
  <2>2. Max(T) \in T /\ Max(T) >= k + 1
    <3> HIDE DEF T
    <3> QED
      BY <2>1, MaxIn
  <2>3. Max(T) = k + 1
    <3> HIDE DEF T
    <3>1. Max(T) \in Nat /\ Max(T) <= k + 1
      BY <2>1, <2>2
    <3> QED
      BY <2>2, <3>1
  <2>4. T \ {k + 1} = 1..k
    OBVIOUS
  <2> QED
    BY <2>1, <2>3, <2>4
<1>2. 1..0 = {}
  OBVIOUS
<1>3. \A k \in 0..n : 1..k \in SUBSET (1..n)
  <2> SUFFICES ASSUME NEW k \in 0..n, NEW x \in 1..k PROVE x \in 1..n
    OBVIOUS
  <2> QED
    OBVIOUS
<1> QED
  BY <1>1, <1>2, <1>3

\* op[k] takes the k-th of n elements.
Takes(op, n, V) == \A k \in 1..n, v \in V : op[k][v] \in V

\* it has the folds of the subsets of 1..n, as FoldLeft takes them: the last element last.
FoldsLeft(it, n, base, op) ==
    \A s \in SUBSET (1..n) : it[s] = IF s = {} THEN base ELSE op[Max(s)][it[s \ {Max(s)}]]

\* There are such folds.
LEMMA LeftFoldDefined ==
    ASSUME NEW n \in Nat, NEW V, NEW base \in V, NEW op, Takes(op, n, V)
    PROVE  \E it \in [SUBSET (1..n) -> V] : FoldsLeft(it, n, base, op)
<1> DEFINE S == 1..n
           D == SUBSET S
           rank == [s \in D |-> Cardinality(s)]
           before == [s \in D |-> s \ {Max(s)}]
           step == [s \in D |-> op[Max(s)]]
<1>1. IsFiniteSet(S)
  BY FS_Interval
<1>2. \A s \in D \ {{}} : Max(s) \in s /\ Max(s) \in S
  <2> TAKE s \in D \ {{}}
  <2>1. s \in SUBSET (0..n) /\ s # {}
    OBVIOUS
  <2>2. Max(s) \in s
    BY <2>1, MaxIn
  <2> QED
    BY <2>2
<1> HIDE DEF S
<1>3. \A s \in D : Cardinality(s) \in Nat /\ Cardinality(s) <= Cardinality(S)
  BY <1>1, FS_Subset, FS_CardinalityType
<1>4. rank \in [D -> Nat] /\ \A s \in D : rank[s] <= Cardinality(S)
  BY <1>3
<1>5. \A s \in D \ {{}} : before[s] \in D /\ rank[before[s]] < rank[s]
  <2> TAKE s \in D \ {{}}
  <2>1. Max(s) \in s
    BY <1>2
  <2>2. Cardinality(s \ {Max(s)}) < Cardinality(s)
    BY <1>1, <2>1, TakenOut
  <2> QED
    BY <2>2
<1>6. \A s \in D \ {{}}, v \in V : step[s][v] \in V
  BY <1>2 DEF S, Takes
<1>7. Cardinality(S) \in Nat /\ {} \in D
  BY <1>1, FS_CardinalityType
<1>8. PICK g \in [D -> V] : Solves(g, D, {}, base, before, step)
  <2> HIDE DEF D, before, rank, step
  <2> QED
    BY <1>4, <1>5, <1>6, <1>7, RecursionDefined
<1>9. \A s \in D : g[s] = IF s = {} THEN base ELSE op[Max(s)][g[s \ {Max(s)}]]
  BY <1>8 DEF Solves
<1> QED
  <2>1. D = SUBSET (1..n)
    BY DEF S
  <2>2. FoldsLeft(g, n, base, op)
    <3> HIDE DEF D
    <3> QED
      BY <1>9, <2>1 DEF FoldsLeft
  <2> HIDE DEF D
  <2> QED
    BY <1>8, <2>1, <2>2
=============================================================================
