---------------------------- MODULE ProofLibrary ----------------------------
(***************************************************************************)
(* What several proofs about the model need.                               *)
(*                                                                         *)
(* Induction up to a bound, from which they obtain what the recursive      *)
(* functions compute.  A property enters as the set of the numbers that    *)
(* have it, a step as a function, since the provers find no instance of a  *)
(* theorem with an operator as parameter.                                  *)
(*                                                                         *)
(* Dominance as a relation on the blocks of a graph.                       *)
(***************************************************************************)
EXTENDS Dominance, Integers, FiniteSets, FiniteSetTheorems, TLAPS

\* What holds of 0 and of the successor of each number it holds of, up to N,
\* holds of N: otherwise the successor would map a finite set into a part of it.
LEMMA UpTo ==
  ASSUME NEW N \in Nat, NEW D \in SUBSET (0..N), 0 \in D, \A n \in D : n < N => n + 1 \in D
  PROVE  N \in D
<1> SUFFICES ASSUME N \notin D PROVE FALSE
  OBVIOUS
<1> DEFINE f == [n \in D |-> n + 1]
<1>1. IsFiniteSet(D)
  <2>1. IsFiniteSet(0..N)
    BY FS_Interval
  <2> QED
    BY <2>1, FS_Subset, Zenon
<1>2. f \in [D -> D \ {0}]
  OBVIOUS
<1>3. IsFiniteSet(D \ {0}) /\ Cardinality(D \ {0}) = Cardinality(D) - 1
  BY <1>1, FS_RemoveElement, Zenon
<1>4. Cardinality(D) \in Nat
  BY <1>1, FS_CardinalityType
<1>5. Cardinality(D \ {0}) < Cardinality(D)
  BY <1>3, <1>4
<1>6. \E x, y \in D : x # y /\ f[x] = f[y]
  <2> HIDE DEF f
  <2> QED
    BY <1>1, <1>2, <1>3, <1>5, FS_PigeonHole, Zenon
<1> QED
  BY <1>6

LEMMA Greatest ==
  ASSUME NEW N \in Nat, NEW T \in SUBSET (0..N), T # {}
  PROVE  \E m \in T : \A n \in T : n <= m
<1> SUFFICES ASSUME \A m \in T : \E n \in T : ~(n <= m) PROVE FALSE
  OBVIOUS
<1> DEFINE D == {n \in 0..N : \E t \in T : n <= t}
<1>1. 0 \in D
  <2>1. PICK t \in T : TRUE
    OBVIOUS
  <2>2. 0 \in 0..N /\ 0 <= t
    OBVIOUS
  <2> QED
    BY <2>1, <2>2
<1>2. ASSUME NEW n \in D, n < N PROVE n + 1 \in D
  <2>1. PICK t \in T : n <= t
    OBVIOUS
  <2>2. PICK u \in T : ~(u <= t)
    OBVIOUS
  <2> QED
    BY <1>2, <2>1, <2>2
<1>3. N \in D
  <2> HIDE DEF D
  <2>1. D \in SUBSET (0..N)
    BY DEF D
  <2> QED
    BY <1>1, <1>2, <2>1, UpTo
<1>4. PICK t \in T : N <= t
  BY <1>3
<1> QED
  BY <1>4

LEMMA Least ==
  ASSUME NEW N \in Nat, NEW T \in SUBSET (0..N), T # {}
  PROVE  \E m \in T : \A n \in T : m <= n
<1> DEFINE U == {x \in 0..N : N - x \in T}
<1>1. \A x \in T : N - x \in U
  OBVIOUS
<1>2. U \in SUBSET (0..N) /\ U # {}
  BY <1>1
<1>3. PICK u \in U : \A v \in U : v <= u
  <2> HIDE DEF U
  <2> QED
    BY <1>2, Greatest
<1>4. ASSUME NEW n \in T PROVE N - u <= n
  <2>1. N - n <= u
    BY <1>1, <1>3
  <2> QED
    BY <1>2, <1>3, <2>1
<1>5. N - u \in T
  BY <1>3
<1> QED
  BY <1>4, <1>5

\* What holds of 0 and of each successor holds of every number up to N.
LEMMA AllUpTo ==
  ASSUME NEW N \in Nat, NEW D, 0 \in D, \A n \in 0..N - 1 : n \in D => n + 1 \in D
  PROVE  \A n \in 0..N : n \in D
<1> SUFFICES ASSUME NEW n \in 0..N PROVE n \in D
  OBVIOUS
<1> DEFINE E == D \cap (0..n)
<1>1. n \in Nat /\ E \in SUBSET (0..n) /\ 0 \in E
  OBVIOUS
<1>2. \A m \in E : m < n => m + 1 \in E
  OBVIOUS
<1>3. n \in E
  <2> HIDE DEF E
  <2> QED
    BY <1>1, <1>2, UpTo
<1> QED
  BY <1>3

\* What holds of a number up to N whenever it holds of all smaller ones holds
\* of all up to N.
LEMMA AllBelow ==
  ASSUME NEW N \in Nat, NEW D,
         \A n \in 1..N : (\A m \in 1..n - 1 : m \in D) => n \in D
  PROVE  \A n \in 1..N : n \in D
<1> DEFINE E == {n \in 0..N : \A m \in 1..n : m \in D}
<1>1. 0 \in E
  OBVIOUS
<1>2. ASSUME NEW n \in 0..N - 1, n \in E PROVE n + 1 \in E
  <2>1. n + 1 \in 1..N /\ \A m \in 1..(n + 1) - 1 : m \in D
    BY <1>2
  <2>2. n + 1 \in D
    BY <2>1
  <2> QED
    BY <1>2, <2>1, <2>2
<1>3. \A n \in 0..N : n \in E
  <2> HIDE DEF E
  <2> QED
    BY <1>1, <1>2, AllUpTo
<1> QED
  BY <1>3

\* A function defined by recursion exists and has its type.  (Two operators,
\* so that the lemma applies without a look inside them.)
Steps(N, S) == [1..N -> [S -> S]]
IsRecursion(f, N, S, start, step) ==
  f \in [0..N -> S] /\ f[0] = start /\ \A k \in 1..N : f[k] = step[k][f[k - 1]]

LEMMA Recursion ==
  ASSUME NEW N \in Nat, NEW S, NEW start \in S, NEW step \in Steps(N, S)
  PROVE  \E f : IsRecursion(f, N, S, start, step)
<1> USE DEF Steps, IsRecursion
<1> DEFINE Works(f, m) == f = [k \in 0..m |-> IF k = 0 THEN start ELSE step[k][f[k - 1]]]
           D == {m \in 0..N : \E f \in [0..m -> S] : Works(f, m)}
<1>1. 0 \in D
  <2> DEFINE g == [k \in 0..0 |-> start]
  <2>1. g \in [0..0 -> S] /\ g = [k \in 0..0 |-> IF k = 0 THEN start ELSE step[k][g[k - 1]]]
    OBVIOUS
  <2> HIDE DEF g
  <2> QED
    BY <2>1
<1>2. ASSUME NEW m \in 0..N - 1, m \in D PROVE m + 1 \in D
  <2>1. PICK f \in [0..m -> S] : Works(f, m)
    BY <1>2
  <2> DEFINE g == [k \in 0..m + 1 |-> IF k <= m THEN f[k] ELSE step[m + 1][f[m]]]
  <2>2. f[m] \in S /\ m + 1 \in 1..N /\ step[m + 1] \in [S -> S] /\ step[m + 1][f[m]] \in S
    OBVIOUS
  <2>3. g \in [0..m + 1 -> S]
    BY <2>2
  <2>4. ASSUME NEW k \in 0..m + 1
        PROVE  g[k] = IF k = 0 THEN start ELSE step[k][g[k - 1]]
    <3>1. CASE k = 0
      BY <2>1, <3>1
    <3>2. CASE k # 0 /\ k <= m
      <4>1. k \in 0..m /\ k - 1 \in 0..m + 1 /\ k - 1 <= m
        BY <3>2
      <4>2. g[k] = f[k] /\ g[k - 1] = f[k - 1]
        BY <3>2, <4>1
      <4>3. f[k] = step[k][f[k - 1]]
        BY <2>1, <3>2, <4>1
      <4> QED
        BY <3>2, <4>2, <4>3
    <3>3. CASE k = m + 1
      BY <3>3
    <3> QED
      BY <3>1, <3>2, <3>3
  <2>5. g = [k \in 0..m + 1 |-> IF k = 0 THEN start ELSE step[k][g[k - 1]]]
    BY <2>4
  <2>6. m + 1 \in 0..N
    OBVIOUS
  <2> HIDE DEF g
  <2> QED
    BY <2>3, <2>5, <2>6
<1>3. \A m \in 0..N : m \in D
  <2> HIDE DEF D
  <2> QED
    BY <1>1, <1>2, AllUpTo
<1>4. PICK f \in [0..N -> S] : Works(f, N)
  BY <1>3
<1>5. f[0] = start
  BY <1>4
<1>6. \A k \in 1..N : f[k] = step[k][f[k - 1]]
  BY <1>4
<1> QED
  BY <1>4, <1>5, <1>6

\* What holds of a number whenever it holds of all greater ones up to N holds
\* of all up to N.
LEMMA AllAbove ==
  ASSUME NEW N \in Nat, NEW D,
         \A n \in 1..N : (\A m \in n + 1..N : m \in D) => n \in D
  PROVE  \A n \in 1..N : n \in D
<1> DEFINE E == {k \in 1..N : N + 1 - k \in D}
<1>1. ASSUME NEW k \in 1..N, \A j \in 1..k - 1 : j \in E PROVE k \in E
  <2>1. ASSUME NEW m \in (N + 1 - k) + 1..N PROVE m \in D
    <3>1. N + 1 - m \in 1..k - 1 /\ N + 1 - (N + 1 - m) = m
      OBVIOUS
    <3> QED
      BY <1>1, <3>1
  <2>2. N + 1 - k \in 1..N
    OBVIOUS
  <2> QED
    BY <2>1, <2>2
<1>2. \A k \in 1..N : k \in E
  <2> HIDE DEF E
  <2> QED
    BY <1>1, AllBelow
<1> SUFFICES ASSUME NEW n \in 1..N PROVE n \in D
  OBVIOUS
<1>3. N + 1 - n \in 1..N /\ N + 1 - (N + 1 - n) = n
  OBVIOUS
<1> QED
  BY <1>2, <1>3

\* A step at k that asks only for greater numbers; a function of such steps.
LooksAhead(N, S, step) ==
  \A k \in 1..N : \A f, g \in [1..N -> S] :
    (\A j \in k + 1..N : f[j] = g[j]) => step[k][f] = step[k][g]
FollowsSteps(N, step, f) == \A k \in 1..N : f[k] = step[k][f]

\* A function whose value at a number depends on its values at greater ones
\* exists and has its type.
LEMMA RecursionFromTheEnd ==
  ASSUME NEW N \in Nat, NEW S, NEW any \in S, NEW step \in [1..N -> [[1..N -> S] -> S]],
         LooksAhead(N, S, step)
  PROVE  \E f \in [1..N -> S] : FollowsSteps(N, step, f)
<1> USE DEF LooksAhead, FollowsSteps
<1> DEFINE F == [1..N -> S]
           Works(f, n) == \A k \in N - n + 1..N : f[k] = step[k][f]
           D == {n \in 0..N : \E f \in F : Works(f, n)}
<1>1. 0 \in D
  <2>1. [k \in 1..N |-> any] \in F
    OBVIOUS
  <2>2. \A k \in N - 0 + 1..N : FALSE
    OBVIOUS
  <2>3. \E f \in F : Works(f, 0)
    BY <2>1, <2>2
  <2> QED
    BY <2>3
<1>2. ASSUME NEW n \in 0..N - 1, n \in D PROVE n + 1 \in D
  <2>1. PICK f \in F : Works(f, n)
    BY <1>2
  <2> DEFINE m == N - n
             g == [f EXCEPT ![m] = step[m][f]]
  <2>2. m \in 1..N /\ step[m][f] \in S
    OBVIOUS
  <2>3. g \in F /\ g[m] = step[m][f] /\ \A j \in m + 1..N : g[j] = f[j]
    BY <2>2
  <2>4. ASSUME NEW k \in m..N PROVE g[k] = step[k][g]
    <3>1. k \in 1..N /\ \A j \in k + 1..N : g[j] = f[j]
      BY <2>2, <2>3
    <3>2. step[k][g] = step[k][f]
      <4> HIDE DEF g
      <4> QED
        BY <2>3, <3>1
    <3>3. CASE k = m
      BY <2>3, <3>2, <3>3
    <3>4. CASE k # m
      BY <2>1, <2>2, <2>3, <3>2, <3>4
    <3> QED
      BY <3>3, <3>4
  <2>5. N - (n + 1) + 1 = m /\ n + 1 \in 0..N
    OBVIOUS
  <2>6. Works(g, n + 1)
    <3> HIDE DEF g
    <3> QED
      BY <2>4, <2>5
  <2> HIDE DEF Works, g
  <2> QED
    BY <2>3, <2>5, <2>6
<1>3. \A n \in 0..N : n \in D
  <2> HIDE DEF D
  <2> QED
    BY <1>1, <1>2, AllUpTo
<1>4. PICK f \in F : Works(f, N)
  <2>1. N \in 0..N
    OBVIOUS
  <2> HIDE DEF Works
  <2> QED
    BY <1>3, <2>1
<1>5. N - N + 1 = 1
  OBVIOUS
<1>6. \A k \in 1..N : f[k] = step[k][f]
  BY <1>4, <1>5
<1> QED
  BY <1>6

-----------------------------------------------------------------------------
(* Dominance as a relation on the blocks of one graph.  Paths never appear: *)
(* each fact comes from a set that is closed under the edges that count.    *)

Graph(B, g) == 0 \in B /\ g \in [B -> SUBSET (B \ {0})]

\* The blocks reached without passing through a: they contain the entry, are
\* closed under the edges that do not lead to a, and are the least such set.
LEMMA Avoiding ==
  ASSUME NEW B, NEW g, Graph(B, g), NEW a \in B, a # 0
  PROVE  /\ ReachedAvoiding(g, a) \subseteq B /\ 0 \in ReachedAvoiding(g, a)
         /\ \A p \in ReachedAvoiding(g, a) : \A q \in g[p] : q # a => q \in ReachedAvoiding(g, a)
         /\ \A S \in SUBSET B : 0 \in S /\ ClosedAvoiding(g, S, a) => ReachedAvoiding(g, a) \subseteq S
<1>0. DOMAIN g = B /\ 0 \in B
  BY DEF Graph
<1>1. ReachedAvoiding(g, a) \subseteq B /\ 0 \in ReachedAvoiding(g, a)
  BY <1>0 DEF ReachedAvoiding
<1>2. ASSUME NEW S \in SUBSET B, 0 \in S, ClosedAvoiding(g, S, a)
      PROVE  ReachedAvoiding(g, a) \subseteq S
  BY <1>0, <1>2 DEF ReachedAvoiding
<1>3. ASSUME NEW p \in ReachedAvoiding(g, a), NEW q \in g[p], q # a
      PROVE  q \in ReachedAvoiding(g, a)
  <2>1. p \in B /\ q \in B
    BY <1>1 DEF Graph
  <2>2. ASSUME NEW S \in SUBSET B, 0 \in S, ClosedAvoiding(g, S, a) PROVE q \in S
    BY <1>2, <1>3, <2>2 DEF ClosedAvoiding
  <2> QED
    BY <1>0, <2>1, <2>2 DEF ReachedAvoiding
<1> QED
  BY <1>1, <1>2, <1>3

LEMMA DominatesItself ==
  ASSUME NEW B, NEW g, Graph(B, g), NEW b \in B
  PROVE  b \in Dominators(g, b) /\ 0 \in Dominators(g, b) /\ Dominators(g, b) \subseteq B
<1>0. DOMAIN g = B /\ 0 \in B
  BY DEF Graph
<1>1. b \notin ReachedAvoiding(g, b)
  <2>1. CASE b = 0
    BY <2>1 DEF ReachedAvoiding
  <2>2. CASE b # 0
    <3>1. ClosedAvoiding(g, B \ {b}, b)
      BY DEF ClosedAvoiding, Graph
    <3>2. ReachedAvoiding(g, b) \subseteq B \ {b}
      BY <1>0, <2>2, <3>1, Avoiding
    <3> QED
      BY <3>2
  <2> QED
    BY <2>1, <2>2
<1>2. b \notin ReachedAvoiding(g, 0)
  BY DEF ReachedAvoiding
<1> QED
  BY <1>0, <1>1, <1>2 DEF Dominators

LEMMA EntryDominators ==
  ASSUME NEW B, NEW g, Graph(B, g)
  PROVE  Dominators(g, 0) = {0}
<1>1. ASSUME NEW a \in B, a # 0 PROVE 0 \in ReachedAvoiding(g, a)
  BY <1>1, Avoiding
<1>2. DOMAIN g = B
  BY DEF Graph
<1> QED
  BY <1>1, <1>2, DominatesItself DEF Graph, Dominators

\* A strict dominator of b dominates every predecessor of b.
LEMMA AboveThePredecessors ==
  ASSUME NEW B, NEW g, Graph(B, g),
         NEW b \in B, NEW a \in StrictDominators(g, b), NEW p \in B, b \in g[p]
  PROVE  a \in Dominators(g, p)
<1>0. DOMAIN g = B
  BY DEF Graph
<1>1. a \in B /\ a # b /\ b \notin ReachedAvoiding(g, a)
  BY <1>0 DEF StrictDominators, Dominators
<1>2. CASE a = 0
  BY <1>2, DominatesItself
<1>3. CASE a # 0
  <2>1. p \notin ReachedAvoiding(g, a)
    BY <1>1, <1>3, Avoiding
  <2> QED
    BY <1>0, <1>1, <2>1 DEF Dominators
<1> QED
  BY <1>2, <1>3

LEMMA Transitive ==
  ASSUME NEW B, NEW g, Graph(B, g),
         NEW c \in B, NEW b \in Dominators(g, c), NEW a \in Dominators(g, b)
  PROVE  a \in Dominators(g, c)
<1>1. a \in B /\ b \in B /\ b \notin ReachedAvoiding(g, a) /\ c \notin ReachedAvoiding(g, b)
  BY DEF Dominators, Graph
<1> SUFFICES ASSUME c \in ReachedAvoiding(g, a) PROVE FALSE
  BY <1>1 DEF Dominators, Graph
<1>2. a # 0
  BY DEF ReachedAvoiding
<1>3. b # 0
  BY <1>1, <1>2, Avoiding
<1> DEFINE T == ReachedAvoiding(g, a) \cap ReachedAvoiding(g, b)
<1>4. T \in SUBSET B /\ 0 \in T
  BY <1>1, <1>2, <1>3, Avoiding
<1>5. ASSUME NEW p \in T, NEW q \in g[p], q # a PROVE q \in T
  <2>1. q \in ReachedAvoiding(g, a)
    BY <1>1, <1>2, <1>5, Avoiding
  <2>2. q # b
    BY <1>1, <2>1
  <2> QED
    BY <1>1, <1>3, <2>1, <2>2, Avoiding
<1>6. ReachedAvoiding(g, a) \subseteq T
  <2>1. ClosedAvoiding(g, T, a)
    BY <1>5 DEF ClosedAvoiding
  <2> HIDE DEF T
  <2> QED
    BY <1>1, <1>2, <1>4, <2>1, Avoiding
<1> QED
  BY <1>1, <1>6

\* What is closed under all edges contains every reachable block.
LEMMA EverythingReached ==
  ASSUME NEW B, NEW g, Graph(B, g), AllReachable(g), NEW S \in SUBSET B, 0 \in S,
         \A p \in S : \A q \in g[p] : q \in S
  PROVE  S = B
  BY DEF Graph, AllReachable

LEMMA Antisymmetric ==
  ASSUME NEW B, NEW g, Graph(B, g), AllReachable(g), NEW a \in B, NEW b \in B,
         a \in Dominators(g, b), b \in Dominators(g, a)
  PROVE  a = b
<1> SUFFICES ASSUME a # b PROVE FALSE
  OBVIOUS
<1>1. b \notin ReachedAvoiding(g, a) /\ a \notin ReachedAvoiding(g, b)
  BY DEF Dominators
<1>2. a # 0 /\ b # 0
  BY <1>1, Avoiding
<1> DEFINE T == ReachedAvoiding(g, a) \cap ReachedAvoiding(g, b)
<1>3. T \in SUBSET B /\ 0 \in T
  BY <1>2, Avoiding
<1>4. ASSUME NEW p \in T, NEW q \in g[p] PROVE q \in T
  <2>1. q # a => q \in ReachedAvoiding(g, a)
    BY <1>2, Avoiding
  <2>2. q # b => q \in ReachedAvoiding(g, b)
    BY <1>2, Avoiding
  <2> QED
    BY <1>1, <2>1, <2>2
<1>5. T = B
  <2> HIDE DEF T
  <2> QED
    BY <1>3, <1>4, EverythingReached
<1> QED
  BY <1>1, <1>5

\* The dominators of a block are in one line.
LEMMA InLine ==
  ASSUME NEW B, NEW g, Graph(B, g), AllReachable(g),
         NEW c \in B, NEW a \in Dominators(g, c), NEW b \in Dominators(g, c)
  PROVE  a \in Dominators(g, b) \/ b \in Dominators(g, a)
<1> SUFFICES ASSUME a \notin Dominators(g, b), b \notin Dominators(g, a) PROVE FALSE
  OBVIOUS
<1>1. /\ a \in B /\ b \in B
      /\ c \notin ReachedAvoiding(g, a) /\ c \notin ReachedAvoiding(g, b)
      /\ b \in ReachedAvoiding(g, a) /\ a \in ReachedAvoiding(g, b)
  BY DEF Dominators, Graph
<1>2. a # 0 /\ b # 0
  BY <1>1 DEF ReachedAvoiding
<1> DEFINE T == ReachedAvoiding(g, a) \cup ReachedAvoiding(g, b)
<1>3. T \in SUBSET B /\ 0 \in T
  BY <1>1, <1>2, Avoiding
<1>4. ASSUME NEW p \in T, NEW q \in g[p] PROVE q \in T
  <2>1. p \in ReachedAvoiding(g, a) /\ q # a => q \in ReachedAvoiding(g, a)
    BY <1>1, <1>2, Avoiding
  <2>2. p \in ReachedAvoiding(g, b) /\ q # b => q \in ReachedAvoiding(g, b)
    BY <1>1, <1>2, Avoiding
  <2> QED
    BY <1>1, <2>1, <2>2
<1>5. T = B
  <2> HIDE DEF T
  <2> QED
    BY <1>3, <1>4, EverythingReached
<1> QED
  BY <1>1, <1>5

\* Every block but the entry has an immediate dominator: the strict dominator
\* with the most dominators.
LEMMA HasIdom ==
  ASSUME NEW B, NEW g, Graph(B, g), AllReachable(g), IsFiniteSet(B), NEW b \in B, b # 0
  PROVE  \E a \in B : IsIdom(g, a, b)
<1> DEFINE SD == StrictDominators(g, b)
           size(x) == Cardinality(Dominators(g, x))
           T == {size(x) : x \in SD}
<1>1. SD \subseteq B /\ 0 \in SD
  BY DominatesItself DEF StrictDominators
<1>2. \A x \in B : IsFiniteSet(Dominators(g, x)) /\ size(x) \in 0..Cardinality(B)
  <2> TAKE x \in B
  <2>1. Dominators(g, x) \subseteq B
    BY DominatesItself
  <2>2. IsFiniteSet(Dominators(g, x)) /\ Cardinality(Dominators(g, x)) <= Cardinality(B)
    BY <2>1, FS_Subset
  <2> QED
    BY <2>2, FS_CardinalityType
<1>3. PICK a \in SD : \A x \in SD : size(x) <= size(a)
  <2>1. T \in SUBSET (0..Cardinality(B)) /\ T # {} /\ Cardinality(B) \in Nat
    BY <1>1, <1>2, FS_CardinalityType
  <2>2. \E m \in T : \A n \in T : n <= m
    <3> HIDE DEF T
    <3> QED
      BY <2>1, Greatest
  <2> QED
    BY <2>2
<1>4. ASSUME NEW x \in SD PROVE x \in Dominators(g, a)
  <2> SUFFICES ASSUME x \notin Dominators(g, a) PROVE FALSE
    OBVIOUS
  <2>1. x \in B /\ a \in B /\ x \in Dominators(g, b) /\ a \in Dominators(g, b)
    BY <1>1 DEF StrictDominators
  <2>2. a \in Dominators(g, x)
    BY <2>1, InLine
  <2>3. Dominators(g, a) \subseteq Dominators(g, x)
    BY <2>1, <2>2, Transitive
  <2>4. Dominators(g, a) # Dominators(g, x)
    BY <2>1, DominatesItself
  <2>5. size(a) < size(x)
    BY <1>2, <2>1, <2>3, <2>4, FS_Subset
  <2> QED
    BY <1>2, <1>3, <2>1, <2>5
<1> QED
  BY <1>1, <1>4 DEF IsIdom
=============================================================================
