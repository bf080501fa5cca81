----------------------------- MODULE CfgProofs -----------------------------
(***************************************************************************)
(* Proofs about construct_domtree, for every control flow graph: the       *)
(* bitmaps always contain the true dominators, and once a whole sweep      *)
(* changes nothing they contain nothing else; what is read off them is the *)
(* dominator tree, and the climbs list the dominance frontiers.  Then the  *)
(* proofs about the other passes over the graph, CriticalEdge and          *)
(* Liveness.                                                               *)
(***************************************************************************)
EXTENDS MCCfg, Sequences, ProofLibrary, TLAPS

DomsType ==
  /\ succ \in CFGs
  /\ doms \in [Blocks -> SUBSET Blocks]
  /\ i \in 1..NumBlocks

\* The blocks this sweep has visited without a change, or all of them once
\* the fixpoint has been left, satisfy the dominance equation.
Settled ==
  /\ doms[0] = {0}
  /\ pc = "sweep" /\ ~changed => \A b \in 1..i - 1 : doms[b] = Meet(b)
  /\ pc # "sweep" => \A b \in Blocks \ {0} : doms[b] = Meet(b)

IInv == DomsType /\ Settled /\ NeverTooSmall

LEMMA BlockFacts == 0 \in Blocks /\ Blocks \ {0} = 1..NumBlocks - 1
  BY NumBlocksAssumption DEF Blocks

LEMMA IsGraph ==
  ASSUME succ \in CFGs
  PROVE  Graph(Blocks, succ) /\ DOMAIN succ = Blocks
  BY BlockFacts DEF CFGs, Graph

LEMMA MeetContains ==
  ASSUME DomsType, NeverTooSmall, NEW b \in Blocks
  PROVE  Dominators(succ, b) \subseteq Meet(b)
<1>0. Graph(Blocks, succ)
  BY IsGraph DEF DomsType
<1> SUFFICES ASSUME NEW a \in StrictDominators(succ, b) PROVE a \in Meet(b)
  BY DEF Meet, StrictDominators
<1>1. \A p \in Pred(b) : a \in Dominators(succ, p)
  BY <1>0, AboveThePredecessors DEF Pred
<1>2. a \in Blocks
  BY <1>0, DominatesItself DEF StrictDominators
<1> QED
  BY <1>1, <1>2 DEF NeverTooSmall, Meet, Pred

\* A solution of the dominance equations contains dominators only: the blocks
\* that do not list a are closed under edges that avoid a.
LEMMA SolutionIsSound ==
  ASSUME DomsType, doms[0] = {0},
         \A b \in Blocks \ {0} : doms[b] = Meet(b)
  PROVE  \A b \in Blocks : doms[b] \subseteq Dominators(succ, b)
<1>0. Graph(Blocks, succ) /\ DOMAIN succ = Blocks
  BY IsGraph DEF DomsType
<1> SUFFICES ASSUME NEW b \in Blocks, NEW a \in doms[b], b \in ReachedAvoiding(succ, a) PROVE FALSE
  BY <1>0 DEF DomsType, Dominators
<1> DEFINE Unlisted == {c \in Blocks : a \notin doms[c]}
<1>1. a # 0 /\ \A S \in SUBSET Blocks : 0 \in S /\ ClosedAvoiding(succ, S, a) => b \in S
  BY <1>0 DEF ReachedAvoiding
<1>2. 0 \in Unlisted
  BY <1>1, BlockFacts
<1>3. ASSUME NEW p \in Unlisted, NEW c \in succ[p], c # a PROVE c \in Unlisted
  <2>1. c \in Blocks \ {0} /\ p \in Pred(c)
    BY <1>3 DEF DomsType, CFGs, Pred
  <2>2. a \notin Meet(c)
    BY <2>1, <1>3 DEF Meet
  <2> QED
    BY <2>1, <2>2
<1>4. ClosedAvoiding(succ, Unlisted, a)
  BY <1>3 DEF ClosedAvoiding
<1> QED
  BY <1>1, <1>2, <1>4

LEMMA InitEstablishes == Init => IInv
<1> SUFFICES ASSUME Init PROVE IInv
  OBVIOUS
<1>1. DomsType
  BY NumBlocksAssumption, BlockFacts DEF Init, DomsType
<1>2. Settled
  BY BlockFacts DEF Init, Settled
<1>3. NeverTooSmall
  BY <1>1, IsGraph, EntryDominators, DominatesItself, BlockFacts DEF Init, NeverTooSmall, DomsType
<1> QED
  BY <1>1, <1>2, <1>3 DEF IInv

\* Meet and Dominators read nothing but doms and succ.
LEMMA SameInputs ==
  ASSUME doms' = doms, succ' = succ
  PROVE  /\ \A b : Meet(b)' = Meet(b)
         /\ NeverTooSmall => NeverTooSmall'
  BY DEF Meet, Pred, NeverTooSmall

LEMMA SweepKeeps == IInv /\ Sweep => IInv'
<1> SUFFICES ASSUME IInv, Sweep PROVE IInv'
  OBVIOUS
<1>1. i \in Blocks \ {0} /\ i \in 1..NumBlocks - 1 /\ DomsType
  BY BlockFacts, NumBlocksAssumption DEF IInv, DomsType, Sweep
<1>2. Meet(i) \subseteq Blocks
  BY <1>1 DEF Meet
<1>3. /\ succ' = succ /\ doms' = [doms EXCEPT ![i] = Meet(i)] /\ i' = i + 1
      /\ changed' = (changed \/ Meet(i) # doms[i]) /\ pc' = pc /\ pc = "sweep"
  BY DEF Sweep
<1>4. DomsType'
  BY <1>1, <1>2, <1>3, NumBlocksAssumption DEF DomsType
<1>5. Settled'
  <2>1. doms'[0] = {0}
    BY <1>1, <1>3, BlockFacts DEF IInv, Settled, DomsType
  <2>2. ASSUME ~changed' PROVE \A b \in 1..i' - 1 : doms'[b] = Meet(b)'
    <3>1. ~changed /\ Meet(i) = doms[i]
      BY <2>2, <1>3
    <3>2. doms' = doms
      BY <3>1, <1>1, <1>3 DEF DomsType
    <3>3. \A b : Meet(b)' = Meet(b)
      BY <3>2, <1>3, SameInputs
    <3>4. \A b \in 1..i - 1 : doms[b] = Meet(b)
      BY <3>1, <1>3 DEF IInv, Settled
    <3> QED
      BY <3>1, <3>2, <3>3, <3>4, <1>1, <1>3
  <2> QED
    BY <2>1, <2>2, <1>3 DEF Settled
<1>6. NeverTooSmall'
  <2>1. \A b \in Blocks : Dominators(succ, b)' = Dominators(succ, b)
    BY <1>3 DEF Dominators, ReachedAvoiding, ClosedAvoiding
  <2>2. Dominators(succ, i) \subseteq Meet(i)
    BY <1>1, MeetContains DEF IInv
  <2> QED
    BY <2>1, <2>2, <1>1, <1>3 DEF IInv, NeverTooSmall, DomsType
<1> QED
  BY <1>4, <1>5, <1>6 DEF IInv

LEMMA EndSweepKeeps == IInv /\ EndSweep => IInv'
<1> SUFFICES ASSUME IInv, EndSweep PROVE IInv'
  OBVIOUS
<1>1. /\ succ' = succ /\ doms' = doms /\ i' = 1 /\ changed' = FALSE
      /\ pc = "sweep" /\ i = NumBlocks
      /\ pc' = IF changed THEN "sweep" ELSE "idom"
  BY DEF EndSweep
<1>2. DomsType'
  BY <1>1, NumBlocksAssumption DEF IInv, DomsType
<1>3. (\A b : Meet(b)' = Meet(b)) /\ NeverTooSmall'
  BY <1>1, SameInputs DEF IInv
<1>4. Settled'
  <2>1. doms'[0] = {0} /\ \A b \in 1..i' - 1 : doms'[b] = Meet(b)'
    BY <1>1 DEF IInv, Settled
  <2>2. ASSUME pc' # "sweep" PROVE \A b \in Blocks \ {0} : doms'[b] = Meet(b)'
    <3>1. ~changed
      BY <2>2, <1>1
    <3>2. \A b \in 1..NumBlocks - 1 : doms[b] = Meet(b)
      BY <3>1, <1>1 DEF IInv, Settled
    <3> QED
      BY <3>2, <1>1, <1>3, BlockFacts
  <2> QED
    BY <2>1, <2>2 DEF Settled
<1> QED
  BY <1>2, <1>3, <1>4 DEF IInv

\* The later phases only read the bitmaps.
LEMMA TailKeeps ==
  ASSUME IInv, pc # "sweep", pc' # "sweep",
         UNCHANGED <<succ, doms, changed>>, i' \in 1..NumBlocks
  PROVE  IInv'
<1>1. DomsType'
  BY DEF IInv, DomsType
<1>2. (\A b : Meet(b)' = Meet(b)) /\ NeverTooSmall'
  BY SameInputs DEF IInv
<1>3. Settled'
  BY <1>2 DEF IInv, Settled
<1> QED
  BY <1>1, <1>2, <1>3 DEF IInv

LEMMA StutterKeeps == IInv /\ UNCHANGED vars => IInv'
<1> SUFFICES ASSUME IInv, UNCHANGED vars PROVE IInv'
  OBVIOUS
<1>1. (\A b : Meet(b)' = Meet(b)) /\ NeverTooSmall'
  BY SameInputs DEF IInv, vars
<1>2. DomsType' /\ Settled'
  BY <1>1 DEF IInv, DomsType, Settled, vars
<1> QED
  BY <1>1, <1>2 DEF IInv

LEMMA StepKeeps == IInv /\ [Next]_vars => IInv'
<1> SUFFICES ASSUME IInv, [Next]_vars PROVE IInv'
  OBVIOUS
<1>0. i \in 1..NumBlocks
  BY DEF IInv, DomsType
<1>1. CASE Sweep
  BY <1>1, SweepKeeps
<1>2. CASE EndSweep
  BY <1>2, EndSweepKeeps
<1>3. CASE SetIdom
  <2>1. i' \in 1..NumBlocks
    BY <1>0, <1>3, NumBlocksAssumption DEF SetIdom
  <2> QED
    BY <2>1, <1>3, TailKeeps DEF SetIdom
<1>4. CASE StartFrontiers
  BY <1>0, <1>4, TailKeeps DEF StartFrontiers
<1>5. CASE TakeEdge
  BY <1>0, <1>5, TailKeeps DEF TakeEdge
<1>6. CASE Climb
  <2>1. pc # "sweep" /\ pc' # "sweep"
    BY <1>6 DEF Climb
  <2> QED
    BY <2>1, <1>0, <1>6, TailKeeps DEF Climb
<1>7. CASE Finish
  BY <1>0, <1>7, TailKeeps DEF Finish
<1>8. CASE UNCHANGED vars
  BY <1>8, StutterKeeps
<1> QED
  BY <1>1, <1>2, <1>3, <1>4, <1>5, <1>6, <1>7, <1>8 DEF Next, Returned

LEMMA Invariance == Spec => []IInv
  BY InitEstablishes, StepKeeps, PTL DEF Spec

\* The bitmaps never lose a dominator.
THEOREM NoDominatorLost == Spec => []NeverTooSmall
<1>1. IInv => NeverTooSmall
  BY DEF IInv
<1> QED
  BY <1>1, Invariance, PTL

\* When the fixpoint loop is left, every block has exactly its dominators.
THEOREM DominatorsComputed == Spec => []DominatorsExact
<1>1. ASSUME IInv PROVE DominatorsExact
  <2> SUFFICES ASSUME pc # "sweep", NEW b \in Blocks PROVE doms[b] = Dominators(succ, b)
    BY DEF DominatorsExact
  <2>1. doms[b] \subseteq Dominators(succ, b)
    BY <1>1, SolutionIsSound DEF IInv, Settled
  <2>2. Dominators(succ, b) \subseteq doms[b]
    BY <1>1 DEF IInv, NeverTooSmall
  <2> QED
    BY <2>1, <2>2
<1> QED
  BY <1>1, Invariance, PTL
-----------------------------------------------------------------------------
(* The scan for the immediate dominator                                    *)

\* The values of new_idom before the first and after each j.
LEMMA ScanUnfolds ==
  ASSUME DomsType, NEW b \in Blocks
  PROVE  \E best \in [-1..NumBlocks - 1 -> Blocks \cup {-1}] :
           /\ best[-1] = -1
           /\ \A j \in Blocks :
                best[j] = IF j # b /\ j \in doms[b] /\ (best[j - 1] = -1 \/ best[j - 1] \in doms[j])
                          THEN j ELSE best[j - 1]
           /\ ScanIdom(b) = best[NumBlocks - 1]
<1> DEFINE S == Blocks \cup {-1}
           Takes(j, x) == IF j # b /\ j \in doms[b] /\ (x = -1 \/ x \in doms[j]) THEN j ELSE x
           step == [k \in 1..NumBlocks |-> [x \in S |-> Takes(k - 1, x)]]
           best[j \in -1..NumBlocks - 1] ==
             IF j = -1 THEN -1
             ELSE IF j # b /\ j \in doms[b] /\ (best[j - 1] = -1 \/ best[j - 1] \in doms[j])
             THEN j ELSE best[j - 1]
<1>1. NumBlocks \in Nat /\ Blocks = 0..NumBlocks - 1 /\ 1 <= NumBlocks
  BY NumBlocksAssumption DEF Blocks
<1>2. step \in Steps(NumBlocks, S)
  BY <1>1 DEF Steps
<1>3. ScanIdom(b) = best[NumBlocks - 1]
  BY DEF ScanIdom
<1>4. \E f : /\ f \in [-1..NumBlocks - 1 -> S]
             /\ f = [j \in -1..NumBlocks - 1 |->
                       IF j = -1 THEN -1
                       ELSE IF j # b /\ j \in doms[b] /\ (f[j - 1] = -1 \/ f[j - 1] \in doms[j])
                       THEN j ELSE f[j - 1]]
  <2>0. -1 \in S
    OBVIOUS
  <2> HIDE DEF step, S, best
  <2>1. PICK g \in [0..NumBlocks -> S] :
          g[0] = -1 /\ \A k \in 1..NumBlocks : g[k] = step[k][g[k - 1]]
    <3>1. PICK none \in S : none = -1
      BY <2>0
    <3>2. NumBlocks \in Nat
      BY <1>1
    <3>3. \E g : IsRecursion(g, NumBlocks, S, none, step)
      BY <1>2, <3>2, Recursion
    <3> QED
      BY <3>1, <3>3 DEF IsRecursion
  <2>2. ASSUME NEW k \in 1..NumBlocks PROVE g[k] = Takes(k - 1, g[k - 1])
    <3>1. k - 1 \in 0..NumBlocks
      BY <1>1
    <3>2. g[k - 1] \in S
      BY <2>1, <3>1
    <3> QED
      BY <2>1, <3>2 DEF step
  <2> DEFINE f == [j \in -1..NumBlocks - 1 |-> g[j + 1]]
  <2>3. f \in [-1..NumBlocks - 1 -> S]
    BY <1>1, <2>1
  <2>4. ASSUME NEW j \in -1..NumBlocks - 1
        PROVE  f[j] = IF j = -1 THEN -1
                      ELSE IF j # b /\ j \in doms[b] /\ (f[j - 1] = -1 \/ f[j - 1] \in doms[j])
                      THEN j ELSE f[j - 1]
    <3>1. CASE j = -1
      BY <1>1, <2>1, <3>1
    <3>2. CASE j # -1
      <4>1. j + 1 \in 1..NumBlocks /\ (j + 1) - 1 = j /\ j - 1 \in -1..NumBlocks - 1 /\ (j - 1) + 1 = j
        BY <1>1, <3>2
      <4>2. g[j + 1] = Takes(j, g[j])
        BY <2>2, <4>1
      <4>3. f[j] = g[j + 1] /\ f[j - 1] = g[j]
        BY <4>1
      <4> HIDE DEF f
      <4> QED
        BY <3>2, <4>2, <4>3
    <3> QED
      BY <3>1, <3>2
  <2>5. f = [j \in -1..NumBlocks - 1 |->
               IF j = -1 THEN -1
               ELSE IF j # b /\ j \in doms[b] /\ (f[j - 1] = -1 \/ f[j - 1] \in doms[j])
               THEN j ELSE f[j - 1]]
    <3> HIDE DEF Takes
    <3>1. DOMAIN f = -1..NumBlocks - 1
      OBVIOUS
    <3> QED
      BY <2>3, <2>4
  <2> HIDE DEF f
  <2> QED
    BY <2>3, <2>5
<1>5. best = [j \in -1..NumBlocks - 1 |->
                IF j = -1 THEN -1
                ELSE IF j # b /\ j \in doms[b] /\ (best[j - 1] = -1 \/ best[j - 1] \in doms[j])
                THEN j ELSE best[j - 1]]
  BY <1>4
<1>6. PICK f : /\ f \in [-1..NumBlocks - 1 -> S]
               /\ f = [j \in -1..NumBlocks - 1 |->
                       IF j = -1 THEN -1
                       ELSE IF j # b /\ j \in doms[b] /\ (f[j - 1] = -1 \/ f[j - 1] \in doms[j])
                       THEN j ELSE f[j - 1]]
  BY <1>4
<1> HIDE DEF best, S
<1>7. best[-1] = -1
  BY <1>1, <1>5
<1>8. \A j \in Blocks :
        best[j] = IF j # b /\ j \in doms[b] /\ (best[j - 1] = -1 \/ best[j - 1] \in doms[j])
                  THEN j ELSE best[j - 1]
  BY <1>1, <1>5
<1>9. best \in [-1..NumBlocks - 1 -> S]
  <2> DEFINE D == {k \in 0..NumBlocks : best[k - 1] \in S}
  <2>1. 0 \in D
    BY <1>1, <1>7 DEF S
  <2>2. ASSUME NEW k \in 0..NumBlocks - 1, k \in D PROVE k + 1 \in D
    <3>1. k \in Blocks /\ (k + 1) - 1 = k /\ k + 1 \in 0..NumBlocks /\ best[k - 1] \in S
      BY <1>1, <2>2
    <3> QED
      BY <1>8, <3>1 DEF S
  <2>3. \A k \in 0..NumBlocks : k \in D
    <3> HIDE DEF D
    <3> QED
      BY <1>1, <2>1, <2>2, AllUpTo
  <2>4. ASSUME NEW j \in -1..NumBlocks - 1 PROVE best[j] \in S
    <3>1. j + 1 \in 0..NumBlocks /\ (j + 1) - 1 = j
      BY <1>1
    <3> QED
      BY <2>3, <3>1
  <2> HIDE DEF D
  <2> QED
    BY <1>5, <2>4
<1> QED
  BY <1>3, <1>7, <1>8, <1>9 DEF S

LEMMA ScanType ==
  ASSUME DomsType, NEW b \in Blocks
  PROVE  ScanIdom(b) \in Blocks \cup {-1}
<1>1. PICK best \in [-1..NumBlocks - 1 -> Blocks \cup {-1}] : ScanIdom(b) = best[NumBlocks - 1]
  BY ScanUnfolds
<1> QED
  BY <1>1, NumBlocksAssumption

\* With exact bitmaps the scan ends at the dominator that all the others
\* dominate: of two strict dominators of b one dominates the other, and the
\* dominated one is kept, in whichever order they come.
LEMMA ScanFinds ==
  ASSUME DomsType, AllReachable(succ), \A c \in Blocks : doms[c] = Dominators(succ, c),
         NEW b \in Blocks \ {0}
  PROVE  IsIdom(succ, ScanIdom(b), b)
<1>0. Graph(Blocks, succ) /\ b \in Blocks /\ NumBlocks \in Nat /\ Blocks = 0..NumBlocks - 1
        /\ 1 <= NumBlocks
  BY NumBlocksAssumption, IsGraph DEF DomsType, Blocks
<1>1. PICK best \in [-1..NumBlocks - 1 -> Blocks \cup {-1}] :
        /\ best[-1] = -1
        /\ \A j \in Blocks :
             best[j] = IF j # b /\ j \in doms[b] /\ (best[j - 1] = -1 \/ best[j - 1] \in doms[j])
                       THEN j ELSE best[j - 1]
        /\ ScanIdom(b) = best[NumBlocks - 1]
  BY <1>0, ScanUnfolds
<1> DEFINE Good(j) == /\ best[j] \in StrictDominators(succ, b)
                      /\ \A k \in StrictDominators(succ, b) : k <= j => k \in Dominators(succ, best[j])
           D == {j \in 0..NumBlocks - 1 : Good(j)}
<1>2. StrictDominators(succ, b) \subseteq Blocks /\ 0 \in StrictDominators(succ, b)
  BY <1>0, DominatesItself DEF StrictDominators
<1>3. 0 \in D
  <2>1. 0 \in Blocks /\ 0 # b /\ 0 \in doms[b] /\ 0 - 1 = -1
    BY <1>0, <1>2 DEF StrictDominators
  <2>2. best[0] = 0
    BY <1>1, <2>1
  <2>3. \A k \in StrictDominators(succ, b) : k <= 0 => k = 0
    BY <1>0, <1>2
  <2> QED
    BY <1>0, <1>2, <2>1, <2>2, <2>3, DominatesItself
<1>4. ASSUME NEW j \in 0..(NumBlocks - 1) - 1, j \in D PROVE j + 1 \in D
  <2> DEFINE n == j + 1
             old == best[j]
  <2>1. n \in Blocks /\ n - 1 = j /\ j \in Int /\ n \in 0..NumBlocks - 1
    BY <1>0
  <2>2. /\ old \in StrictDominators(succ, b) /\ old \in Blocks /\ old # -1
        /\ \A k \in StrictDominators(succ, b) : k <= j => k \in Dominators(succ, old)
    BY <1>0, <1>2, <1>4
  <2>3. best[n] = IF n # b /\ n \in doms[b] /\ (old = -1 \/ old \in doms[n]) THEN n ELSE old
    BY <1>1, <2>1
  <2>4. \A k \in StrictDominators(succ, b) : k <= n => k <= j \/ k = n
    BY <1>0, <1>2, <2>1
  <2> HIDE DEF n, old, D
  <2>5. CASE n \in StrictDominators(succ, b) /\ old \in Dominators(succ, n)
    <3>1. best[n] = n
      BY <1>0, <2>1, <2>3, <2>5 DEF StrictDominators
    <3>2. ASSUME NEW k \in StrictDominators(succ, b), k <= n PROVE k \in Dominators(succ, n)
      <4>1. CASE k <= j
        <5>1. k \in Dominators(succ, old)
          BY <2>2, <4>1
        <5> QED
          BY <1>0, <2>1, <2>5, <5>1, Transitive
      <4>2. CASE k = n
        BY <1>0, <2>1, <4>2, DominatesItself
      <4> QED
        BY <2>4, <3>2, <4>1, <4>2
    <3> QED
      BY <2>1, <2>5, <3>1, <3>2 DEF D, n
  <2>6. CASE ~(n \in StrictDominators(succ, b) /\ old \in Dominators(succ, n))
    <3>1. best[n] = old
      BY <1>0, <2>1, <2>2, <2>3, <2>6 DEF StrictDominators
    <3>2. ASSUME NEW k \in StrictDominators(succ, b), k <= n PROVE k \in Dominators(succ, old)
      <4>1. CASE k <= j
        BY <2>2, <4>1
      <4>2. CASE k = n
        <5>1. old \notin Dominators(succ, n) /\ n \in Dominators(succ, b) /\ old \in Dominators(succ, b)
          BY <2>2, <2>6, <3>2, <4>2 DEF StrictDominators
        <5> QED
          BY <1>0, <4>2, <5>1, InLine
      <4> QED
        BY <2>4, <3>2, <4>1, <4>2
    <3> QED
      BY <2>1, <2>2, <3>1, <3>2 DEF D, n
  <2> QED
    BY <2>5, <2>6 DEF n
<1>5. Good(NumBlocks - 1)
  <2>1. NumBlocks - 1 \in Nat /\ NumBlocks - 1 \in 0..NumBlocks - 1
    BY <1>0
  <2> HIDE DEF D
  <2>2. NumBlocks - 1 \in D
    BY <1>3, <1>4, <2>1, AllUpTo
  <2> QED
    BY <2>2 DEF D
<1>6. StrictDominators(succ, b) \subseteq Dominators(succ, best[NumBlocks - 1])
  <2>1. \A k \in StrictDominators(succ, b) : k <= NumBlocks - 1
    BY <1>0, <1>2
  <2> QED
    BY <1>5, <2>1
<1> QED
  BY <1>1, <1>5, <1>6 DEF IsIdom
-----------------------------------------------------------------------------
(* The tree and the frontiers                                              *)

\* What has been read off the bitmaps is right.
Found ==
  AllReachable(succ) /\ pc # "sweep" =>
    \A b \in Blocks \ {0} : (pc = "idom" => b < i) => IsIdom(succ, idom[b], b)
Remaining == edges \subseteq Edges /\ (pc = "done" => edges = {})

\* The climb for a block is at a dominator of one of its predecessors, and its
\* immediate dominator is still ahead.
Climbing ==
  AllReachable(succ) /\ pc = "climb" =>
    /\ edge[2] \in Blocks \ {0}
    /\ idom[edge[2]] \in Dominators(succ, edge[1])
    /\ \E p \in Pred(edge[2]) : edge[1] \in Dominators(succ, p)

\* No block is listed that should not be; those missing belong to an edge that
\* is still to come, or lie ahead of the climb.
OnlyFrontier == AllReachable(succ) => \A e \in df : InFrontier(succ, e[1], e[2])
AllFrontier ==
  AllReachable(succ) /\ pc \in {"edges", "climb", "done"} =>
    \A b \in Blocks : \A p \in Pred(b) : \A a \in Dominators(succ, p) :
      \/ <<p, b>> \in edges \/ a \in StrictDominators(succ, b) \/ <<a, b>> \in df
      \/ pc = "climb" /\ edge[2] = b /\ a \in Dominators(succ, edge[1])

TreeInv == TypeOK /\ Found /\ Remaining /\ Climbing /\ OnlyFrontier /\ AllFrontier

LEMMA SameGraph ==
  ASSUME succ' = succ
  PROVE  Edges' = Edges /\ \A b : Pred(b)' = Pred(b)
  BY DEF Edges, Pred

LEMMA InitTree == Init => TreeInv
<1> SUFFICES ASSUME Init PROVE TreeInv
  OBVIOUS
<1>1. TypeOK
  <2>1. doms \in [Blocks -> SUBSET Blocks] /\ idom \in [Blocks -> Blocks \cup {-1}]
    BY BlockFacts DEF Init
  <2>2. i \in 1..NumBlocks
    BY NumBlocksAssumption DEF Init
  <2>3. changed \in BOOLEAN
    BY Zenon DEF Init
  <2>4. edge \in (Blocks \cup {-1}) \X Blocks
    BY BlockFacts DEF Init
  <2> QED
    BY <2>1, <2>2, <2>3, <2>4 DEF Init, TypeOK
<1>2. Found /\ Remaining /\ Climbing /\ OnlyFrontier /\ AllFrontier
  BY DEF Init, Found, Remaining, Climbing, OnlyFrontier, AllFrontier
<1> QED
  BY <1>1, <1>2 DEF TreeInv

\* Until the frontiers are started nothing is in them.
LEMMA SweepsKeepTree ==
  ASSUME IInv', TreeInv, Sweep \/ EndSweep
  PROVE  TreeInv'
<1>1. /\ TypeOK /\ pc = "sweep" /\ pc' \in {"sweep", "idom"} /\ (pc' = "idom" => i' = 1)
      /\ UNCHANGED <<succ, idom, df, edges, edge>> /\ changed' \in BOOLEAN
  BY DEF Sweep, EndSweep, TreeInv, TypeOK
<1>2. TypeOK'
  BY <1>1 DEF TypeOK, IInv, DomsType
<1>3. Found'
  <2>1. \A b \in Blocks \ {0} : ~(b < 1)
    BY BlockFacts
  <2> QED
    BY <1>1, <2>1 DEF Found
<1>4. Remaining' /\ OnlyFrontier'
  BY <1>1, SameGraph DEF TreeInv, Remaining, OnlyFrontier
<1>5. Climbing' /\ AllFrontier'
  BY <1>1 DEF Climbing, AllFrontier
<1> QED
  BY <1>2, <1>3, <1>4, <1>5 DEF TreeInv

LEMMA SetIdomKeepsTree ==
  ASSUME IInv, DominatorsExact, TreeInv, SetIdom
  PROVE  TreeInv'
<1>1. /\ TypeOK /\ pc = "idom" /\ pc' = "idom" /\ i < NumBlocks /\ i' = i + 1
      /\ idom' = [idom EXCEPT ![i] = ScanIdom(i)]
      /\ UNCHANGED <<succ, doms, df, changed, edges, edge>>
  BY DEF SetIdom, TreeInv
<1>2. i \in Blocks \ {0} /\ i' \in 1..NumBlocks /\ i \in Int
  BY <1>1, BlockFacts, NumBlocksAssumption DEF TypeOK
<1>3. ScanIdom(i) \in Blocks \cup {-1}
  BY <1>2, ScanType DEF IInv
<1>4. TypeOK'
  BY <1>1, <1>2, <1>3 DEF TypeOK
<1>5. Found'
  <2> SUFFICES ASSUME AllReachable(succ), NEW b \in Blocks \ {0}, b < i + 1
               PROVE  IsIdom(succ, idom'[b], b)
    BY <1>1, SameGraph DEF Found
  <2>1. CASE b = i
    <3>1. idom'[b] = ScanIdom(b)
      BY <1>1, <2>1, <1>2 DEF TypeOK
    <3>2. \A c \in Blocks : doms[c] = Dominators(succ, c)
      BY <1>1 DEF DominatorsExact
    <3> QED
      BY <3>1, <3>2, ScanFinds DEF IInv
  <2>2. CASE b # i
    <3>1. b < i
      BY <1>2, <2>2, BlockFacts
    <3>2. idom'[b] = idom[b]
      BY <1>1, <2>2 DEF TypeOK
    <3> QED
      BY <1>1, <3>1, <3>2 DEF TreeInv, Found
  <2> QED
    BY <2>1, <2>2
<1>6. Remaining' /\ OnlyFrontier'
  BY <1>1, SameGraph DEF TreeInv, Remaining, OnlyFrontier
<1>7. Climbing' /\ AllFrontier'
  BY <1>1 DEF Climbing, AllFrontier
<1> QED
  BY <1>4, <1>5, <1>6, <1>7 DEF TreeInv

LEMMA StartKeepsTree ==
  ASSUME TreeInv, StartFrontiers
  PROVE  TreeInv'
<1>1. /\ TypeOK /\ pc = "idom" /\ pc' = "edges" /\ i = NumBlocks /\ edges' = Edges
      /\ UNCHANGED <<succ, doms, idom, df, i, changed, edge>>
  BY DEF StartFrontiers, TreeInv
<1>2. TypeOK'
  BY <1>1 DEF TypeOK, Edges
<1>3. Found'
  <2>1. \A b \in Blocks \ {0} : b < i
    BY <1>1, BlockFacts, NumBlocksAssumption
  <2> QED
    BY <1>1, <2>1, SameGraph DEF TreeInv, Found
<1>4. Remaining' /\ OnlyFrontier' /\ Climbing'
  BY <1>1, SameGraph DEF TreeInv, Remaining, OnlyFrontier, Climbing
<1>5. AllFrontier'
  <2>1. \A b \in Blocks : \A p \in Pred(b) : <<p, b>> \in Edges
    BY DEF Pred, Edges
  <2> QED
    BY <1>1, <2>1, SameGraph DEF AllFrontier
<1> QED
  BY <1>2, <1>3, <1>4, <1>5 DEF TreeInv

LEMMA TakeEdgeKeepsTree ==
  ASSUME TreeInv, TakeEdge
  PROVE  TreeInv'
<1>1. /\ TypeOK /\ pc = "edges" /\ pc' = "climb"
      /\ UNCHANGED <<succ, doms, idom, df, i, changed>>
  BY DEF TakeEdge, TreeInv
<1>2. PICK e \in edges : edge' = e /\ edges' = edges \ {e}
  BY DEF TakeEdge
<1>3. PICK p \in Blocks, b \in Blocks : e = <<p, b>> /\ b \in succ[p]
  BY <1>2 DEF TreeInv, Remaining, Edges
<1>4. p \in Pred(b) /\ b # 0 /\ Graph(Blocks, succ)
  BY <1>1, <1>3, IsGraph DEF Pred, TypeOK, CFGs
<1>5. TypeOK'
  BY <1>1, <1>2, <1>3 DEF TypeOK
<1>6. Found' /\ Remaining' /\ OnlyFrontier'
  BY <1>1, <1>2, SameGraph DEF TreeInv, Found, Remaining, OnlyFrontier
<1>7. Climbing'
  <2> SUFFICES ASSUME AllReachable(succ)
               PROVE  /\ idom[b] \in Dominators(succ, p)
                      /\ \E q \in Pred(b) : p \in Dominators(succ, q)
    BY <1>1, <1>2, <1>3, <1>4, SameGraph DEF Climbing
  <2>1. IsIdom(succ, idom[b], b)
    BY <1>1, <1>3, <1>4 DEF TreeInv, Found
  <2> QED
    BY <1>3, <1>4, <2>1, AboveThePredecessors, DominatesItself DEF IsIdom
<1>8. AllFrontier'
  <2> SUFFICES ASSUME AllReachable(succ),
                      NEW c \in Blocks, NEW q \in Pred(c), NEW a \in Dominators(succ, q)
               PROVE  \/ <<q, c>> \in edges' \/ a \in StrictDominators(succ, c) \/ <<a, c>> \in df
                      \/ edge'[2] = c /\ a \in Dominators(succ, edge'[1])
    <3>1. /\ AllReachable(succ)' <=> AllReachable(succ)
          /\ \A c : Pred(c)' = Pred(c) /\ Dominators(succ, c)' = Dominators(succ, c)
          /\ \A c : StrictDominators(succ, c)' = StrictDominators(succ, c)
      BY <1>1, SameGraph
    <3> QED
      BY <1>1, <3>1 DEF AllFrontier
  <2>1. <<q, c>> \in edges \/ a \in StrictDominators(succ, c) \/ <<a, c>> \in df
    BY <1>1 DEF TreeInv, AllFrontier
  <2>2. <<q, c>> \in edges /\ <<q, c>> \notin edges' => q = p /\ c = b
    BY <1>2, <1>3
  <2>3. edge'[1] = p /\ edge'[2] = b
    BY <1>2, <1>3
  <2>4. CASE <<q, c>> \in edges'
    BY <2>4
  <2>5. CASE <<q, c>> \notin edges'
    BY <2>1, <2>2, <2>3, <2>5
  <2> QED
    BY <2>4, <2>5
<1> QED
  BY <1>5, <1>6, <1>7, <1>8 DEF TreeInv

\* What ends the climb: nothing above the immediate dominator is missing, since
\* all that dominates it strictly dominates the block.
LEMMA NothingAbove ==
  ASSUME Graph(Blocks, succ), AllReachable(succ), NEW b \in Blocks, NEW d, IsIdom(succ, d, b), NEW a \in Dominators(succ, d)
  PROVE  a \in StrictDominators(succ, b)
<1>1. d \in Dominators(succ, b) /\ d # b /\ d \in Blocks
  BY DominatesItself DEF IsIdom, StrictDominators
<1>2. a \in Dominators(succ, b) /\ a \in Blocks
  BY <1>1, Transitive, DominatesItself
<1>3. a # b
  BY <1>1, Antisymmetric
<1> QED
  BY <1>2, <1>3 DEF StrictDominators

\* What continues it: a block below the immediate dominator is in the frontier,
\* and so the climb goes to a block that the immediate dominator dominates too.
LEMMA OneUp ==
  ASSUME Graph(Blocks, succ), AllReachable(succ), NEW b \in Blocks, NEW d, IsIdom(succ, d, b),
         NEW j \in Blocks, d \in Dominators(succ, j), j # d
  PROVE  /\ j # 0
         /\ j \notin StrictDominators(succ, b)
         /\ \A u : IsIdom(succ, u, j) =>
              /\ u \in Blocks /\ d \in Dominators(succ, u) /\ u \in Dominators(succ, j)
              /\ \A a \in Dominators(succ, j) : a = j \/ a \in Dominators(succ, u)
<1>1. d \in Blocks
  BY DominatesItself DEF IsIdom, StrictDominators
<1>2. j # 0
  BY <1>1, DominatesItself, Antisymmetric
<1>3. j \notin StrictDominators(succ, b)
  BY <1>1, Antisymmetric DEF IsIdom
<1>4. ASSUME NEW u, IsIdom(succ, u, j)
      PROVE  /\ u \in Blocks /\ d \in Dominators(succ, u) /\ u \in Dominators(succ, j)
             /\ \A a \in Dominators(succ, j) : a = j \/ a \in Dominators(succ, u)
  BY <1>4, DominatesItself DEF IsIdom, StrictDominators
<1> QED
  BY <1>2, <1>3, <1>4

LEMMA ClimbKeepsTree ==
  ASSUME TreeInv, Climb
  PROVE  TreeInv'
<1> DEFINE j == edge[1]
           b == edge[2]
<1>1. /\ TypeOK /\ pc = "climb" /\ Graph(Blocks, succ)
      /\ UNCHANGED <<succ, doms, idom, i, changed, edges>>
  BY IsGraph DEF Climb, TreeInv, TypeOK
<1>2. j \in Blocks \cup {-1} /\ b \in Blocks /\ -1 \notin Blocks
  BY <1>1 DEF TypeOK, Blocks
<1>3. AllReachable(succ) =>
        b # 0 /\ j \in Blocks /\ IsIdom(succ, idom[b], b) /\ idom[b] \in Dominators(succ, j)
                      /\ \E p \in Pred(b) : j \in Dominators(succ, p)
  <2> SUFFICES ASSUME AllReachable(succ)
               PROVE  /\ b # 0 /\ j \in Blocks /\ IsIdom(succ, idom[b], b)
                      /\ idom[b] \in Dominators(succ, j)
                      /\ \E p \in Pred(b) : j \in Dominators(succ, p)
    OBVIOUS
  <2>1. /\ b # 0 /\ idom[b] \in Dominators(succ, j) /\ \E p \in Pred(b) : j \in Dominators(succ, p)
    BY <1>1 DEF TreeInv, Climbing
  <2>2. IsIdom(succ, idom[b], b)
    BY <1>1, <1>2, <2>1 DEF TreeInv, Found
  <2>3. j \in Blocks
    BY <1>1, <2>1 DEF Dominators, Graph
  <2> QED
    BY <2>1, <2>2, <2>3
<1>4. CASE j = idom[b] \/ j = -1
  <2>1. pc' = "edges" /\ df' = df /\ edge' = edge
    BY <1>4 DEF Climb
  <2>2. TypeOK' /\ Found' /\ Remaining' /\ Climbing' /\ OnlyFrontier'
    BY <1>1, <2>1, SameGraph DEF TreeInv, TypeOK, Found, Remaining, Climbing, OnlyFrontier
  <2>3. AllFrontier'
    <3> SUFFICES ASSUME AllReachable(succ),
                        NEW c \in Blocks, NEW q \in Pred(c), NEW a \in Dominators(succ, q)
                 PROVE  <<q, c>> \in edges \/ a \in StrictDominators(succ, c) \/ <<a, c>> \in df
      BY <1>1, <2>1, SameGraph DEF AllFrontier
    <3>1. \/ <<q, c>> \in edges \/ a \in StrictDominators(succ, c) \/ <<a, c>> \in df
          \/ b = c /\ a \in Dominators(succ, j)
      BY <1>1 DEF TreeInv, AllFrontier
    <3>2. j = idom[b]
      BY <1>2, <1>3, <1>4
    <3>3. a \in Dominators(succ, j) => a \in StrictDominators(succ, b)
      BY <1>1, <1>2, <1>3, <3>2, NothingAbove
    <3> HIDE DEF j, b
    <3> QED
      BY <3>1, <3>3
  <2> QED
    BY <2>2, <2>3 DEF TreeInv
<1>5. CASE j # idom[b] /\ j # -1
  <2>1. df' = df \cup {<<j, b>>} /\ edge' = <<idom[j], b>> /\ pc' = "climb"
    BY <1>1, <1>5 DEF Climb
  <2>2. j \in Blocks /\ idom[j] \in Blocks \cup {-1}
    BY <1>1, <1>2, <1>5 DEF TypeOK
  <2>3. TypeOK'
    BY <1>1, <1>2, <2>1, <2>2 DEF TypeOK
  <2>4. Found' /\ Remaining'
    BY <1>1, <2>1, SameGraph DEF TreeInv, Found, Remaining
  <2>5. ASSUME AllReachable(succ)
        PROVE  /\ j \notin StrictDominators(succ, b)
               /\ idom[j] \in Blocks /\ idom[b] \in Dominators(succ, idom[j])
               /\ idom[j] \in Dominators(succ, j)
               /\ \A a \in Dominators(succ, j) : a = j \/ a \in Dominators(succ, idom[j])
    <3> DEFINE d == idom[b]
    <3>1. IsIdom(succ, d, b) /\ d \in Dominators(succ, j) /\ j # d
      BY <1>3, <1>5, <2>5
    <3> HIDE DEF d, j, b
    <3>2. j # 0
      BY <1>1, <1>2, <2>2, <2>5, <3>1, OneUp
    <3>3. IsIdom(succ, idom[j], j)
      BY <1>1, <2>2, <2>5, <3>2 DEF TreeInv, Found
    <3> QED
      BY <1>1, <1>2, <2>2, <2>5, <3>1, <3>3, OneUp DEF d
  <2>6. Climbing'
    <3> SUFFICES ASSUME AllReachable(succ)
                 PROVE  /\ b \in Blocks \ {0} /\ idom[b] \in Dominators(succ, idom[j])
                        /\ \E p \in Pred(b) : idom[j] \in Dominators(succ, p)
      BY <1>1, <2>1, SameGraph DEF Climbing
    <3>1. PICK p \in Pred(b) : j \in Dominators(succ, p)
      BY <1>3
    <3>2. p \in Blocks
      BY <3>1 DEF Pred
    <3>3. idom[j] \in Dominators(succ, p)
      BY <1>1, <2>5, <3>1, <3>2, Transitive
    <3> QED
      BY <1>2, <1>3, <2>5, <3>1, <3>3
  <2>7. OnlyFrontier'
    <3> SUFFICES ASSUME AllReachable(succ) PROVE InFrontier(succ, j, b)
      BY <1>1, <2>1, SameGraph DEF TreeInv, OnlyFrontier
    <3> QED
      BY <1>1, <1>3, <2>5 DEF InFrontier, Graph, Pred
  <2>8. AllFrontier'
    <3> SUFFICES ASSUME AllReachable(succ),
                        NEW c \in Blocks, NEW q \in Pred(c), NEW a \in Dominators(succ, q)
                 PROVE  \/ <<q, c>> \in edges \/ a \in StrictDominators(succ, c) \/ <<a, c>> \in df'
                        \/ b = c /\ a \in Dominators(succ, idom[j])
      BY <1>1, <2>1, SameGraph DEF AllFrontier
    <3>1. \/ <<q, c>> \in edges \/ a \in StrictDominators(succ, c) \/ <<a, c>> \in df
          \/ b = c /\ a \in Dominators(succ, j)
      BY <1>1 DEF TreeInv, AllFrontier
    <3>2. a \in Dominators(succ, j) => a = j \/ a \in Dominators(succ, idom[j])
      BY <2>5
    <3> HIDE DEF j, b
    <3> QED
      BY <2>1, <3>1, <3>2
  <2> QED
    BY <2>3, <2>4, <2>6, <2>7, <2>8 DEF TreeInv
<1> QED
  BY <1>4, <1>5

LEMMA FinishKeepsTree ==
  ASSUME TreeInv, Finish
  PROVE  TreeInv'
<1>1. /\ pc = "edges" /\ edges = {} /\ pc' = "done"
      /\ UNCHANGED <<succ, doms, idom, df, i, changed, edges, edge>>
  BY DEF Finish
<1>2. TypeOK'
  BY <1>1 DEF TreeInv, TypeOK
<1> QED
  BY <1>1, <1>2, SameGraph
  DEF TreeInv, Found, Remaining, Climbing, OnlyFrontier, AllFrontier

LEMMA StutterKeepsTree ==
  ASSUME TreeInv, UNCHANGED vars
  PROVE  TreeInv'
<1>1. TypeOK'
  BY DEF TreeInv, TypeOK, vars
<1> QED
  BY <1>1, SameGraph
  DEF TreeInv, Found, Remaining, Climbing, OnlyFrontier, AllFrontier, vars

LEMMA TreeInvariance == Spec => []TreeInv
<1>1. Init => TreeInv
  BY InitTree
<1>2. ASSUME TreeInv, [Next]_vars, IInv, IInv', DominatorsExact
      PROVE  TreeInv'
  <2>1. CASE Sweep \/ EndSweep
    BY <1>2, <2>1, SweepsKeepTree
  <2>2. CASE SetIdom
    BY <1>2, <2>2, SetIdomKeepsTree
  <2>3. CASE StartFrontiers
    BY <1>2, <2>3, StartKeepsTree
  <2>4. CASE TakeEdge
    BY <1>2, <2>4, TakeEdgeKeepsTree
  <2>5. CASE Climb
    BY <1>2, <2>5, ClimbKeepsTree
  <2>6. CASE Finish
    BY <1>2, <2>6, FinishKeepsTree
  <2>7. CASE Returned \/ UNCHANGED vars
    BY <1>2, <2>7, StutterKeepsTree DEF Returned
  <2> QED
    BY <1>2, <2>1, <2>2, <2>3, <2>4, <2>5, <2>6, <2>7 DEF Next
<1>3. Spec => [](IInv /\ DominatorsExact)
  BY Invariance, DominatorsComputed, PTL
<1> QED
  BY <1>1, <1>2, <1>3, PTL DEF Spec

\* idom is the dominator tree and df the dominance frontiers, for every graph
\* whose blocks are all reachable, reducible or not.
THEOREM TreeComputed == Spec => []TreeExact
<1>1. ASSUME TreeInv PROVE TreeExact
  <2>1. IdomExact
    BY <1>1 DEF IdomExact, TreeInv, Found
  <2>2. FrontiersExact
    <3> SUFFICES ASSUME pc = "done", AllReachable(succ)
                 PROVE  df = {e \in Blocks \X Blocks : InFrontier(succ, e[1], e[2])}
      BY DEF FrontiersExact
    <3>1. df \subseteq {e \in Blocks \X Blocks : InFrontier(succ, e[1], e[2])}
      BY <1>1 DEF TreeInv, TypeOK, OnlyFrontier
    <3>2. ASSUME NEW a \in Blocks, NEW b \in Blocks, InFrontier(succ, a, b) PROVE <<a, b>> \in df
      BY <1>1, <3>2, IsGraph DEF TreeInv, TypeOK, Remaining, AllFrontier, InFrontier, Pred
    <3> QED
      BY <3>1, <3>2
  <2> QED
    BY <2>1, <2>2 DEF TreeExact
<1> QED
  BY <1>1, TreeInvariance, PTL

-----------------------------------------------------------------------------
(* eliminate_critical_edge, for functions of any number of blocks.  What   *)
(* the loop keeps is that an arm either leads where it led, and is still   *)
(* to be split if it is critical, or leads through a block of its own.     *)

LEMMA Counted == \A S : CE!Cardinality(S) = Cardinality(S)
  BY DEF CE!Cardinality, Cardinality

New == DOMAIN targets \ CE!Blocks

\* The input, and the blocks numbered without gaps.
Shape ==
  /\ orig \in [CE!Blocks -> Seq(CE!Blocks)] /\ CE!ArmsDiffer(orig)
  /\ \A b \in CE!Blocks : Len(orig[b]) <= 2
  /\ \E m \in Nat : NumBlocks <= m /\ DOMAIN targets = 0..m - 1
  /\ \A b \in CE!Blocks : targets[b] \in Seq(DOMAIN targets) /\ Len(targets[b]) = Len(orig[b])
  /\ \A c \in New : \E a \in CE!Blocks : targets[c] = <<a>> /\ CE!Cardinality(CE!PredOf(orig, a)) > 1
  /\ toSplit \subseteq CE!CriticalEdges(orig)
  /\ inlined # {} => toSplit = {}

\* Where arm k of b leads.
Direct(b, k) ==
  targets[b][k] = orig[b][k] /\ (<<b, k>> \in CE!CriticalEdges(orig) => <<b, k>> \in toSplit)
Detour(b, k) ==
  /\ targets[b][k] \in New /\ targets[targets[b][k]] = <<orig[b][k]>>
  /\ <<b, k>> \notin toSplit
Routed == \A b \in CE!Blocks : \A k \in 1..Len(orig[b]) : Direct(b, k) \/ Detour(b, k)

\* A new block lies on one edge.
Private ==
  \A c \in New : \A p, q \in CE!Blocks : c \in CE!Range(targets[p]) /\ c \in CE!Range(targets[q])
          => p = q

Phis ==
  /\ incoming \in [CE!Blocks -> SUBSET DOMAIN targets]
  /\ \A b \in CE!Blocks : incoming[b] = CE!PredOf(targets, b)

SplitInv == Shape /\ Routed /\ Private /\ Phis /\ (splitPc = "done" => toSplit = {})

-----------------------------------------------------------------------------
LEMMA InputShape ==
  ASSUME orig \in CE!CFGs
  PROVE  orig \in [CE!Blocks -> Seq(CE!Blocks)] /\ \A b \in CE!Blocks : Len(orig[b]) <= 2
<1> SUFFICES ASSUME NEW b \in CE!Blocks PROVE orig[b] \in Seq(CE!Blocks) /\ Len(orig[b]) <= 2
  BY DEF CE!CFGs
<1>1. orig[b] \in {<<>>} \cup {<<a>> : a \in CE!Blocks \ {0}} \cup {<<a, c>> : a, c \in CE!Blocks \ {0}}
  BY DEF CE!CFGs
<1>2. CASE orig[b] = <<>>
  BY <1>2
<1>3. ASSUME NEW a \in CE!Blocks, orig[b] = <<a>> PROVE orig[b] \in Seq(CE!Blocks) /\ Len(orig[b]) <= 2
  BY <1>3
<1>4. ASSUME NEW a \in CE!Blocks, NEW c \in CE!Blocks, orig[b] = <<a, c>>
      PROVE  orig[b] \in Seq(CE!Blocks) /\ Len(orig[b]) <= 2
  BY <1>4
<1> QED
  BY <1>1, <1>2, <1>3, <1>4

LEMMA ArmsOf ==
  ASSUME orig \in [CE!Blocks -> Seq(CE!Blocks)], NEW b, NEW k
  PROVE  <<b, k>> \in CE!Arms(orig) <=> b \in CE!Blocks /\ k \in 1..Len(orig[b])
<1>1. DOMAIN orig = CE!Blocks /\ \A c \in CE!Blocks : DOMAIN orig[c] = 1..Len(orig[c])
  OBVIOUS
<1> QED
  BY <1>1 DEF CE!Arms

LEMMA SplitStarts ==
  ASSUME NumBlocks \in Nat, CE!Init
  PROVE  SplitInv
<1> USE DEF CE!Init
<1>1. orig \in [CE!Blocks -> Seq(CE!Blocks)] /\ \A b \in CE!Blocks : Len(orig[b]) <= 2
  BY InputShape
<1>2. DOMAIN targets = CE!Blocks /\ CE!Blocks = 0..NumBlocks - 1 /\ New = {}
  BY <1>1 DEF CE!Blocks, New
<1>3. Shape
  BY <1>1, <1>2 DEF Shape, New
<1>4. Routed
  BY <1>1 DEF Routed, Direct
<1>5. Private
  BY <1>2 DEF Private
<1>6. Phis
  BY <1>2 DEF Phis, CE!PredOf
<1> QED
  BY <1>3, <1>4, <1>5, <1>6 DEF SplitInv

-----------------------------------------------------------------------------
LEMMA TwoArms ==
  ASSUME NEW n \in Nat, n <= 2, NEW j \in 1..n, NEW k \in 1..n, j # k
  PROVE  n = 2 /\ ((j = 1 /\ k = 2) \/ (j = 2 /\ k = 1))
OBVIOUS

\* The two arms of a branch lead to different blocks, also after splitting.
LEMMA OneArm ==
  ASSUME SplitInv, NEW f \in CE!Blocks, NEW k \in 1..Len(orig[f]), NEW j \in 1..Len(orig[f]),
         targets[f][j] = orig[f][k]
  PROVE  j = k
<1>0. orig[f][k] \in CE!Blocks
  BY DEF SplitInv, Shape
<1>1. targets[f][j] = orig[f][j]
  BY <1>0 DEF SplitInv, Routed, Direct, Detour, New
<1>2. Len(orig[f]) \in Nat /\ Len(orig[f]) <= 2 /\ DOMAIN orig = CE!Blocks
  BY DEF SplitInv, Shape
<1>3. Len(orig[f]) = 2 => orig[f][1] # orig[f][2]
  BY <1>2 DEF SplitInv, Shape, CE!ArmsDiffer
<1>4. j # k => Len(orig[f]) = 2 /\ ((j = 1 /\ k = 2) \/ (j = 2 /\ k = 1))
  BY <1>2, TwoArms, Zenon
<1> QED
  BY <1>1, <1>3, <1>4, Zenon

\* One arm changes, and one block is added.
SplitInto(f, k, new) ==
  /\ new \notin DOMAIN targets /\ new \notin CE!Blocks
  /\ \E m \in Nat : NumBlocks <= m /\ DOMAIN targets' = 0..m - 1
  /\ DOMAIN targets' = DOMAIN targets \cup {new}
  /\ targets'[new] = <<orig[f][k]>>
  /\ \A b \in DOMAIN targets \ {f} : targets'[b] = targets[b]
  /\ targets'[f] = [targets[f] EXCEPT ![k] = new]
  /\ incoming' = [incoming EXCEPT ![orig[f][k]] = (@ \ {f}) \cup {new}]

LEMMA SplitEffect ==
  ASSUME NumBlocks \in Nat, SplitInv, NEW f, NEW k, <<f, k>> \in toSplit, CE!SplitEdge(f, orig[f][k])
  PROVE  /\ f \in CE!Blocks /\ k \in 1..Len(orig[f]) /\ orig[f][k] \in CE!Blocks
         /\ targets[f][k] = orig[f][k] /\ CE!Cardinality(CE!PredOf(orig, orig[f][k])) > 1
         /\ \E new \in Nat : SplitInto(f, k, new)
<1> DEFINE to == orig[f][k]
           new == CE!Cardinality(DOMAIN targets)
<1>1. f \in CE!Blocks /\ k \in 1..Len(orig[f]) /\ CE!Cardinality(CE!PredOf(orig, to)) > 1
        /\ <<f, k>> \in CE!Arms(orig)
  BY ArmsOf DEF SplitInv, Shape, CE!CriticalEdges, CE!IsCritical
<1>2. to \in CE!Blocks
  BY <1>1 DEF SplitInv, Shape
<1>3. targets[f][k] = to
  BY <1>1 DEF SplitInv, Routed, Direct, Detour
<1>4. inlined = {} /\ f \in DOMAIN targets /\ CE!Blocks \subseteq DOMAIN targets
  <2>1. inlined = {} /\ \E m \in Nat : NumBlocks <= m /\ DOMAIN targets = 0..m - 1
    BY DEF SplitInv, Shape
  <2> QED
    BY <1>1, <2>1 DEF CE!Blocks
<1>5. new \in Nat /\ new \notin DOMAIN targets /\ new \notin CE!Blocks
      /\ \E m \in Nat : NumBlocks <= m /\ DOMAIN targets \cup {new} = 0..m - 1
  <2>1. PICK m \in Nat : NumBlocks <= m /\ DOMAIN targets = 0..m - 1
    BY DEF SplitInv, Shape
  <2>2. CE!Cardinality(0..m - 1) = m
    BY FS_Interval, Counted
  <2>3. new = m
    BY <2>1, <2>2
  <2>4. m + 1 \in Nat /\ NumBlocks <= m + 1 /\ (0..m - 1) \cup {m} = 0..(m + 1) - 1
    BY <2>1
  <2> QED
    BY <2>1, <2>3, <2>4 DEF CE!Blocks
<1>6. \A j \in 1..Len(orig[f]) : targets[f][j] = to <=> j = k
  BY <1>1, <1>3, OneArm
<1>7. CE!Redirected(f, to, new) = [targets[f] EXCEPT ![k] = new]
  <2>1. DOMAIN targets[f] = 1..Len(orig[f])
    BY <1>1 DEF SplitInv, Shape
  <2>2. \A j \in 1..Len(orig[f]) : CE!IsTarget(targets[f][j], to) <=> j = k
    BY <1>4, <1>6 DEF CE!IsTarget
  <2> HIDE DEF to, new
  <2>3. CE!Redirected(f, to, new) = [j \in DOMAIN targets[f] |-> IF j = k THEN new ELSE targets[f][j]]
    BY <2>1, <2>2 DEF CE!Redirected
  <2>4. [targets[f] EXCEPT ![k] = new] = [j \in DOMAIN targets[f] |-> IF j = k THEN new ELSE targets[f][j]]
    OBVIOUS
  <2> QED
    BY <2>3, <2>4
<1>8. targets' = [b \in DOMAIN targets \cup {new} |-> IF b = new THEN <<to>> ELSE CE!Redirect(f, to, new)[b]]
      /\ incoming' = [incoming EXCEPT ![to] = {IF p = f THEN new ELSE p : p \in @}]
  BY DEF CE!SplitEdge
<1>9. f \in incoming[to] /\ incoming = [b \in CE!Blocks |-> incoming[b]]
  <2>1. f \in CE!PredOf(targets, to)
    <3>1. k \in DOMAIN targets[f]
      BY <1>1 DEF SplitInv, Shape
    <3> QED
      BY <1>3, <1>4, <3>1 DEF CE!PredOf, CE!SuccOf, CE!Range
  <2> QED
    BY <1>2, <2>1 DEF SplitInv, Phis
<1> HIDE DEF to, new
<1>10. {IF p = f THEN new ELSE p : p \in incoming[to]} = (incoming[to] \ {f}) \cup {new}
  BY <1>9
<1>11. incoming' = [incoming EXCEPT ![to] = (@ \ {f}) \cup {new}]
  BY <1>8, <1>10
<1>12. /\ DOMAIN targets' = DOMAIN targets \cup {new} /\ targets'[new] = <<to>>
       /\ \A b \in DOMAIN targets \ {f} : targets'[b] = targets[b]
       /\ targets'[f] = [targets[f] EXCEPT ![k] = new]
  BY <1>4, <1>5, <1>7, <1>8 DEF CE!Redirect
<1> QED
  BY <1>1, <1>2, <1>3, <1>5, <1>11, <1>12 DEF to, SplitInto

LEMMA SeqExcept ==
  ASSUME NEW S, NEW s \in Seq(S), NEW k \in 1..Len(s), NEW v
  PROVE  [s EXCEPT ![k] = v] \in Seq(S \cup {v}) /\ Len([s EXCEPT ![k] = v]) = Len(s)
OBVIOUS

LEMMA SplitStep ==
  ASSUME NumBlocks \in Nat, SplitInv, splitPc = "split", splitPc' = splitPc, UNCHANGED <<orig, inlined>>,
         NEW f, NEW k, <<f, k>> \in toSplit, CE!SplitEdge(f, orig[f][k]), toSplit' = toSplit \ {<<f, k>>}
  PROVE  SplitInv'
<1> DEFINE to == orig[f][k]
<1>1. /\ f \in CE!Blocks /\ k \in 1..Len(orig[f]) /\ to \in CE!Blocks
      /\ targets[f][k] = to /\ CE!Cardinality(CE!PredOf(orig, to)) > 1
  BY SplitEffect
<1>2. PICK new \in Nat : SplitInto(f, k, new)
  BY SplitEffect
<1>0. /\ new \notin DOMAIN targets /\ new \notin CE!Blocks
      /\ \E m \in Nat : NumBlocks <= m /\ DOMAIN targets' = 0..m - 1
      /\ DOMAIN targets' = DOMAIN targets \cup {new}
      /\ targets'[new] = <<to>>
      /\ \A b \in DOMAIN targets \ {f} : targets'[b] = targets[b]
      /\ targets'[f] = [targets[f] EXCEPT ![k] = new]
      /\ incoming' = [incoming EXCEPT ![to] = (@ \ {f}) \cup {new}]
  BY <1>2 DEF SplitInto
<1> HIDE DEF to
<1>3. CE!Blocks \subseteq DOMAIN targets /\ New' = New \cup {new} /\ CE!Blocks' = CE!Blocks
  <2>1. CE!Blocks \subseteq DOMAIN targets
    BY DEF SplitInv, Shape, CE!Blocks
  <2>2. CE!Blocks' = CE!Blocks
    BY DEF CE!Blocks
  <2>3. New' = (DOMAIN targets') \ CE!Blocks
    BY <2>2 DEF New
  <2> QED
    BY <1>0, <2>1, <2>2, <2>3 DEF New
<1>4. \A c \in New : targets'[c] = targets[c]
  BY <1>1, <1>0 DEF New
<1>5. \A b \in CE!Blocks : DOMAIN targets[b] = 1..Len(orig[b])
  BY DEF SplitInv, Shape
<1>6. \A b \in CE!Blocks : \A j \in 1..Len(orig[b]) :
        targets'[b][j] = IF b = f /\ j = k THEN new ELSE targets[b][j]
  BY <1>1, <1>0, <1>3, <1>5
<1>7. Shape'
  <2>1. \A b \in CE!Blocks : targets'[b] \in Seq(DOMAIN targets') /\ Len(targets'[b]) = Len(orig[b])
    <3> SUFFICES ASSUME NEW b \in CE!Blocks
                 PROVE  targets'[b] \in Seq(DOMAIN targets') /\ Len(targets'[b]) = Len(orig[b])
      OBVIOUS
    <3>1. targets[b] \in Seq(DOMAIN targets) /\ Len(targets[b]) = Len(orig[b])
      BY DEF SplitInv, Shape
    <3>2. CASE b = f
      <4>1. [targets[f] EXCEPT ![k] = new] \in Seq(DOMAIN targets \cup {new})
            /\ Len([targets[f] EXCEPT ![k] = new]) = Len(targets[f])
        BY <1>1, <3>1, <3>2, SeqExcept
      <4> QED
        BY <1>0, <3>1, <3>2, <4>1
    <3>3. CASE b # f
      BY <1>0, <1>3, <3>1, <3>3
    <3> QED
      BY <3>2, <3>3
  <2>2. \A c \in New' : \E a \in CE!Blocks : targets'[c] = <<a>>
          /\ CE!Cardinality(CE!PredOf(orig, a)) > 1
    <3>1. \A c \in New : \E a \in CE!Blocks : targets[c] = <<a>>
            /\ CE!Cardinality(CE!PredOf(orig, a)) > 1
      BY DEF SplitInv, Shape
    <3>2. \A c \in New : \E a \in CE!Blocks : targets'[c] = <<a>>
            /\ CE!Cardinality(CE!PredOf(orig, a)) > 1
      BY <1>4, <3>1
    <3>3. targets'[new] = <<to>> /\ to \in CE!Blocks /\ CE!Cardinality(CE!PredOf(orig, to)) > 1
      BY <1>0, <1>1
    <3> QED
      BY <1>3, <3>2, <3>3
  <2> QED
    BY <1>0, <1>3, <2>1, <2>2 DEF SplitInv, Shape, CE!Blocks
<1>8. Routed'
  <2> SUFFICES ASSUME NEW b \in CE!Blocks, NEW j \in 1..Len(orig[b])
               PROVE  Direct(b, j)' \/ Detour(b, j)'
    BY <1>3 DEF Routed
  <2>1. CASE b = f /\ j = k
    BY <1>1, <1>0, <1>3, <1>6, <2>1 DEF Detour, to
  <2>2. CASE ~(b = f /\ j = k)
    <3>1. targets'[b][j] = targets[b][j]
      BY <1>6, <2>2
    <3>2. Direct(b, j) \/ Detour(b, j)
      BY DEF SplitInv, Routed
    <3>3. ASSUME Direct(b, j) PROVE Direct(b, j)'
      BY <2>2, <3>1, <3>3 DEF Direct
    <3>4. ASSUME Detour(b, j) PROVE Detour(b, j)'
      BY <1>3, <1>4, <3>1, <3>4 DEF Detour
    <3> QED
      BY <3>2, <3>3, <3>4
  <2> QED
    BY <2>1, <2>2
<1>9. Private'
  <2>1. \A b \in CE!Blocks : DOMAIN targets'[b] = 1..Len(orig[b])
    BY <1>7 DEF Shape
  <2>2. ASSUME NEW c \in New', NEW b \in CE!Blocks, c \in CE!Range(targets'[b])
        PROVE  IF c = new THEN b = f ELSE c \in New /\ c \in CE!Range(targets[b])
    <3>1. PICK j \in 1..Len(orig[b]) : c = targets'[b][j]
      BY <2>1, <2>2 DEF CE!Range
    <3>2. targets[b][j] \in DOMAIN targets
      <4>1. targets[b] \in Seq(DOMAIN targets) /\ j \in DOMAIN targets[b]
        BY <1>5 DEF SplitInv, Shape
      <4> QED
        BY <4>1
    <3>3. c = new <=> b = f /\ j = k
      BY <1>0, <1>6, <3>1, <3>2
    <3>4. CASE c # new
      BY <1>3, <1>5, <1>6, <3>1, <3>3, <3>4 DEF CE!Range
    <3> QED
      BY <3>3, <3>4
  <2> SUFFICES ASSUME NEW c \in New', NEW p \in CE!Blocks, NEW q \in CE!Blocks,
                      c \in CE!Range(targets'[p]), c \in CE!Range(targets'[q])
               PROVE  p = q
    BY <1>3 DEF Private
  <2> QED
    BY <2>2 DEF SplitInv, Private
<1>10. Phis'
  <2>1. incoming \in [CE!Blocks -> SUBSET DOMAIN targets]
          /\ \A b \in CE!Blocks : incoming[b] = CE!PredOf(targets, b)
    BY DEF SplitInv, Phis
  <2>2. incoming' \in [CE!Blocks -> SUBSET DOMAIN targets']
    BY <1>1, <1>0, <2>1
  <2>3. ASSUME NEW b \in CE!Blocks, NEW p \in DOMAIN targets'
        PROVE  p \in incoming'[b] <=> b \in CE!Range(targets'[p])
    <3>1. incoming'[b] = IF b = to THEN (incoming[b] \ {f}) \cup {new} ELSE incoming[b]
      BY <1>0, <2>1
    <3>2. \A q \in DOMAIN targets : q \in incoming[b] <=> b \in CE!Range(targets[q])
      BY <2>1 DEF CE!PredOf, CE!SuccOf
    <3>3. CASE p = new
      <4>1. b \in CE!Range(targets'[p]) <=> b = to
        BY <1>0, <3>3 DEF CE!Range
      <4> QED
        BY <1>0, <2>1, <3>1, <3>3, <4>1
    <3>4. CASE p # new /\ p # f
      <4>1. p \in DOMAIN targets /\ targets'[p] = targets[p]
        BY <1>0, <3>4
      <4> QED
        BY <1>0, <3>1, <3>2, <3>4, <4>1
    <3>5. CASE p = f
      <4>1. b \in CE!Range(targets'[f]) <=> \E j \in 1..Len(orig[f]) : j # k /\ targets[f][j] = b
        <5>1. DOMAIN targets'[f] = 1..Len(orig[f])
          <6>1. targets'[f] \in Seq(DOMAIN targets') /\ Len(targets'[f]) = Len(orig'[f])
            BY <1>1, <1>3, <1>7 DEF Shape
          <6>2. orig' = orig
            BY <1>2 DEF SplitInto
          <6> QED
            BY <6>1, <6>2
        <5>2. \A j \in 1..Len(orig[f]) : targets'[f][j] = IF j = k THEN new ELSE targets[f][j]
          BY <1>1, <1>6
        <5>3. new # b
          BY <1>0
        <5> QED
          BY <5>1, <5>2, <5>3 DEF CE!Range
      <4>2. b \in CE!Range(targets[f]) <=> \E j \in 1..Len(orig[f]) : targets[f][j] = b
        BY <1>1, <1>5 DEF CE!Range
      <4>3. \A j \in 1..Len(orig[f]) : targets[f][j] = to => j = k
        BY OneArm, <1>1 DEF to
      <4>4. f \in DOMAIN targets /\ f # new
        BY <1>1, <1>0, <1>3
      <4>5. b \in CE!Range(targets'[f]) <=> b # to /\ b \in CE!Range(targets[f])
        BY <1>1, <4>1, <4>2, <4>3
      <4> QED
        BY <3>1, <3>2, <3>5, <4>4, <4>5
    <3> QED
      BY <3>3, <3>4, <3>5
  <2>4. \A b \in CE!Blocks : incoming'[b] = CE!PredOf(targets', b)
    BY <2>2, <2>3 DEF CE!PredOf, CE!SuccOf
  <2> QED
    BY <1>3, <2>2, <2>4 DEF Phis
<1> QED
  BY <1>7, <1>8, <1>9, <1>10 DEF SplitInv

LEMMA SplitKeeps ==
  ASSUME NumBlocks \in Nat, SplitInv, CE!Next \/ UNCHANGED splitting
  PROVE  SplitInv'
<1>1. CASE CE!Split
  <2>1. PICK e \in toSplit : CE!SplitEdge(e[1], orig[e[1]][e[2]]) /\ toSplit' = toSplit \ {e}
    BY <1>1 DEF CE!Split
  <2>2. e \in CE!Arms(orig)
    BY DEF SplitInv, Shape, CE!CriticalEdges
  <2>3. PICK f, k : e = <<f, k>>
    BY <2>2 DEF CE!Arms
  <2>4. CE!SplitEdge(f, orig[f][k]) /\ toSplit' = toSplit \ {<<f, k>>} /\ <<f, k>> \in toSplit
    BY <2>1, <2>3
  <2>5. splitPc = "split" /\ splitPc' = splitPc /\ UNCHANGED <<orig, inlined>>
    BY <1>1 DEF CE!Split
  <2> QED
    BY <2>4, <2>5, SplitStep
<1>2. ASSUME UNCHANGED <<orig, inlined, targets, incoming, toSplit>>, splitPc' = "done" => toSplit = {}
      PROVE  SplitInv'
  <2>1. Shape'
    BY <1>2 DEF SplitInv, Shape, New, CE!Blocks
  <2>2. Routed'
    BY <1>2 DEF SplitInv, Routed, Direct, Detour, New, CE!Blocks
  <2>3. Private'
    BY <1>2 DEF SplitInv, Private, New, CE!Blocks
  <2>4. Phis'
    BY <1>2 DEF SplitInv, Phis, CE!Blocks
  <2> QED
    BY <1>2, <2>1, <2>2, <2>3, <2>4 DEF SplitInv
<1>3. CASE CE!Finish
  BY <1>2, <1>3 DEF CE!Finish
<1>4. CASE UNCHANGED <<orig, inlined, targets, incoming, toSplit, splitPc>>
  BY <1>2, <1>4 DEF SplitInv
<1> QED
  BY <1>1, <1>3, <1>4 DEF CE!Next, CE!Returned, CE!vars, splitting

-----------------------------------------------------------------------------
LEMMA NotMany ==
  ASSUME NEW S, NEW x, S \subseteq {x}
  PROVE  ~(Cardinality(S) > 1)
<1>1. S = {} \/ S = {x}
  OBVIOUS
<1>2. Cardinality({}) = 0 /\ Cardinality({x}) = 1
  BY FS_EmptySet, FS_Singleton
<1> QED
  BY <1>1, <1>2

LEMMA AtMostOne ==
  ASSUME NEW S, IsFiniteSet(S), ~(Cardinality(S) > 1), NEW x \in S, NEW y \in S
  PROVE  x = y
<1> SUFFICES ASSUME x # y PROVE FALSE
  OBVIOUS
<1>1. IsFiniteSet({x}) /\ Cardinality({x}) = 1
  BY FS_Singleton
<1>2. IsFiniteSet({x} \cup {y}) /\ Cardinality({x} \cup {y}) = 2
  <2>1. IsFiniteSet({x} \cup {y}) /\ Cardinality({x} \cup {y}) = Cardinality({x}) + 1
    <3>1. y \notin {x}
      OBVIOUS
    <3> QED
      BY <1>1, <3>1, FS_AddElement, Zenon
  <2> QED
    BY <1>1, <2>1
<1>3. Cardinality({x} \cup {y}) <= Cardinality(S)
  BY FS_Subset, {x} \cup {y} \subseteq S
<1>4. Cardinality(S) \in Nat
  BY FS_CardinalityType
<1> QED
  BY <1>2, <1>3, <1>4

\* An edge into an original block, from a block with two successors, was not
\* critical: its source is the only predecessor, and no new block was put
\* before its end.
LEMMA OnePredecessor ==
  ASSUME NumBlocks \in Nat, SplitInv, toSplit = {},
         NEW from \in DOMAIN targets, NEW to \in CE!Range(targets[from]), Len(targets[from]) > 1
  PROVE  CE!PredOf(targets, to) \subseteq {from}
<1>1. CE!Blocks \subseteq DOMAIN targets /\ DOMAIN orig = CE!Blocks
  BY DEF SplitInv, Shape, CE!Blocks
<1>2. from \in CE!Blocks
  <2>1. \A c \in New : \E a \in CE!Blocks : targets[c] = <<a>>
    BY DEF SplitInv, Shape
  <2>2. \A a \in CE!Blocks : ~(Len(<<a>>) > 1)
    OBVIOUS
  <2> QED
    BY <2>1, <2>2 DEF New
<1>3. \A b \in CE!Blocks : DOMAIN targets[b] = 1..Len(orig[b]) /\ DOMAIN orig[b] = 1..Len(orig[b])
  BY DEF SplitInv, Shape
<1>4. PICK k \in 1..Len(orig[from]) : targets[from][k] = to
  BY <1>2, <1>3 DEF CE!Range
<1>5. to \in DOMAIN targets
  <2>1. targets[from] \in Seq(DOMAIN targets)
    BY <1>2 DEF SplitInv, Shape
  <2> QED
    BY <1>2, <1>3, <1>4, <2>1
<1>6. \A c \in New : \E a \in CE!Blocks : targets[c] = <<a>> /\ CE!Range(targets[c]) = {a}
        /\ CE!Cardinality(CE!PredOf(orig, a)) > 1
  <2>1. \A c \in New : \E a \in CE!Blocks : targets[c] = <<a>> /\ CE!Cardinality(CE!PredOf(orig, a)) > 1
    BY DEF SplitInv, Shape
  <2>2. \A a \in CE!Blocks : CE!Range(<<a>>) = {a}
    BY DEF CE!Range
  <2> QED
    BY <2>1, <2>2, Zenon
<1> SUFFICES ASSUME NEW p \in DOMAIN targets, to \in CE!Range(targets[p]) PROVE p = from
  BY DEF CE!PredOf, CE!SuccOf
<1>7. CASE to \in New
  <2>1. p \in CE!Blocks
    BY <1>6, <1>7 DEF New
  <2> QED
    BY <1>2, <1>7, <2>1 DEF SplitInv, Private
<1>8. CASE to \in CE!Blocks
  <2>1. orig[from][k] = to /\ <<from, k>> \notin CE!CriticalEdges(orig)
    BY <1>2, <1>4, <1>8 DEF SplitInv, Routed, Direct, Detour, New
  <2>2. ~CE!IsCritical(orig, from, to)
    BY <1>2, <2>1, ArmsOf DEF CE!CriticalEdges, SplitInv, Shape
  <2>3. ~(CE!Cardinality(CE!PredOf(orig, to)) > 1)
    BY <1>2, <2>2 DEF CE!IsCritical, SplitInv, Shape
  <2>4. p \in CE!Blocks
    BY <1>6, <2>3 DEF New
  <2>5. PICK j \in 1..Len(orig[p]) : targets[p][j] = to
    BY <1>3, <2>4 DEF CE!Range
  <2>6. orig[p][j] = to
    BY <1>8, <2>4, <2>5 DEF SplitInv, Routed, Direct, Detour, New
  <2>7. from \in CE!PredOf(orig, to) /\ p \in CE!PredOf(orig, to)
    BY <1>1, <1>2, <1>3, <2>1, <2>4, <2>6 DEF CE!PredOf, CE!SuccOf, CE!Range
  <2>8. IsFiniteSet(CE!PredOf(orig, to))
    <3>1. IsFiniteSet(CE!Blocks)
      BY FS_Interval DEF CE!Blocks
    <3> QED
      BY <1>1, <3>1, FS_Subset DEF CE!PredOf
  <2> QED
    BY <2>3, <2>7, <2>8, AtMostOne, Counted
<1> QED
  BY <1>5, <1>7, <1>8 DEF New

LEMMA SplitDone ==
  ASSUME NumBlocks \in Nat, SplitInv
  PROVE  CE!NoCriticalEdge
<1> SUFFICES ASSUME splitPc = "done", NEW from \in DOMAIN targets, NEW to \in CE!SuccOf(targets, from),
                    CE!IsCritical(targets, from, to)
             PROVE  FALSE
  BY DEF CE!NoCriticalEdge
<1>1. CE!PredOf(targets, to) \subseteq {from}
  BY OnePredecessor DEF SplitInv, CE!IsCritical, CE!SuccOf
<1> QED
  BY <1>1, NotMany, Counted DEF CE!IsCritical

LEMMA FlowKept ==
  ASSUME NumBlocks \in Nat, SplitInv
  PROVE  CE!SameFlow
<1>1. ASSUME NEW b \in CE!Blocks
      PROVE  [k \in DOMAIN targets[b] |-> CE!Beyond(targets[b][k])] = orig[b]
  <2>1. DOMAIN targets[b] = 1..Len(orig[b]) /\ orig[b] \in Seq(CE!Blocks)
    BY DEF SplitInv, Shape
  <2>2. ASSUME NEW k \in 1..Len(orig[b]) PROVE CE!Beyond(targets[b][k]) = orig[b][k]
    <3>1. CASE Direct(b, k)
      BY <2>1, <3>1 DEF Direct, CE!Beyond
    <3>2. CASE Detour(b, k)
      BY <3>2 DEF Detour, CE!Beyond, New
    <3> QED
      BY <3>1, <3>2 DEF SplitInv, Routed
  <2>3. orig[b] = [k \in 1..Len(orig[b]) |-> orig[b][k]]
    BY <2>1
  <2> QED
    BY <2>1, <2>2, <2>3
<1> QED
  BY <1>1 DEF CE!SameFlow, SplitInv, Phis
-----------------------------------------------------------------------------
(* The passes, one at a time *)

\* While another pass runs, this one rests in an initial state.
LEMMA AtRest == SplitRests => CE!Init
<1> SUFFICES ASSUME SplitRests PROVE CE!Init
  OBVIOUS
<1>1. /\ orig = NoEdges /\ targets = NoEdges /\ incoming = [b \in Blocks |-> {}]
      /\ toSplit = {} /\ inlined = {} /\ splitPc = "split" /\ CE!Blocks = Blocks
  BY DEF SplitRests, CE!Blocks, Blocks
<1>2. /\ DOMAIN NoEdges = Blocks
      /\ \A b \in Blocks : NoEdges[b] = <<>> /\ DOMAIN NoEdges[b] = {} /\ Len(NoEdges[b]) = 0
  BY DEF NoEdges
<1>3. NoEdges \in CE!CFGs /\ CE!ArmsDiffer(NoEdges)
  <2>1. NoEdges \in CE!CFGs
    BY <1>1 DEF NoEdges, CE!CFGs
  <2>2. CE!ArmsDiffer(NoEdges)
    BY <1>2 DEF CE!ArmsDiffer
  <2> QED
    BY <2>1, <2>2
<1>4. \A b : CE!PredOf(NoEdges, b) = {}
  BY <1>2 DEF CE!PredOf, CE!SuccOf, CE!Range
<1>5. CE!CriticalEdges(NoEdges) = {}
  <2>1. \A b \in Blocks : {b} \X DOMAIN NoEdges[b] = {}
    BY <1>2
  <2>2. CE!Arms(NoEdges) = {}
    BY <1>2, <2>1 DEF CE!Arms
  <2> QED
    BY <2>2 DEF CE!CriticalEdges
<1> QED
  BY <1>1, <1>3, <1>4, <1>5 DEF CE!Init

LEMMA SplitInvariance == MCSpec => []SplitInv
<1>0. NumBlocks \in Nat
  BY NumBlocksAssumption
<1>1. MCInit => SplitInv
  BY <1>0, AtRest, SplitStarts DEF MCInit
<1>2. SplitInv /\ [MCNext]_MCVars => SplitInv'
  <2> SUFFICES ASSUME SplitInv, [MCNext]_MCVars PROVE SplitInv'
    OBVIOUS
  <2>1. CE!Next \/ UNCHANGED splitting
    BY DEF MCNext, MCVars, splitting
  <2> QED
    BY <1>0, <2>1, SplitKeeps
<1> QED
  BY <1>1, <1>2, PTL DEF MCSpec

\* Every edge that could carry the phi moves of another one gets a block of
\* its own, in graphs of any size: what generate_func relies on when it emits
\* the moves of a phi at the end of the predecessor.
THEOREM NoneLeft == MCSpec => []NoCriticalEdge
<1>1. SplitInv => NoCriticalEdge
  BY NumBlocksAssumption, SplitDone DEF NoCriticalEdge
<1> QED
  BY <1>1, SplitInvariance, PTL

\* At every moment of the loop each branch leads to the block it led to, arm
\* by arm, and the phis of a block name exactly its predecessors.
THEOREM FlowAsBefore == MCSpec => []SameFlow
<1>1. SplitInv => SameFlow
  BY NumBlocksAssumption, FlowKept DEF SameFlow
<1> QED
  BY <1>1, SplitInvariance, PTL

-----------------------------------------------------------------------------
(* The liveness fixpoint, for every flow graph and every set of registers: *)
(* what the sweeps collect is always live, and once a whole sweep changes  *)
(* nothing everything live has been collected.  Then the intervals built   *)
(* from it cover the points from which a use is reached.                   *)

FlowType ==
  /\ flow \in [LV!Blocks -> SUBSET LV!Blocks]
  /\ liveIn \in [LV!Blocks -> SUBSET Regs]
  /\ liveOut \in [LV!Blocks -> SUBSET Regs]
  /\ visit \in 0..FlowBlocks

\* A block whose sets satisfy the flow equations.
Solved(b) == liveOut[b] = LV!NewOut(b) /\ liveIn[b] = LV!NewIn(b)

\* The blocks this sweep has visited without a change are solved, and all of
\* them are once the fixpoint has been left.
AllSolved ==
  /\ livePc = "sweep" /\ ~again => \A b \in 0..visit - 1 : Solved(b)
  /\ livePc # "sweep" => \A b \in LV!Blocks : Solved(b)

LiveInv == FlowType /\ AllSolved /\ LV!NeverTooLive

LEMMA FlowFacts == LV!Blocks = 0..FlowBlocks - 1 /\ FlowBlocks \in Nat \ {0}
  BY LivenessAssumption DEF LV!Blocks

LEMMA LiveStarts == LV!Init => LiveInv
<1> SUFFICES ASSUME LV!Init PROVE LiveInv
  OBVIOUS
<1>1. flow \in [LV!Blocks -> SUBSET LV!Blocks]
  BY DEF LV!Init, LV!Programs
<1>2. FlowType
  BY <1>1, FlowFacts DEF LV!Init, FlowType
<1>3. AllSolved
  BY DEF LV!Init, AllSolved
<1>4. LV!NeverTooLive
  BY DEF LV!Init, LV!NeverTooLive
<1> QED
  BY <1>2, <1>3, <1>4 DEF LiveInv

\* What the equations put into a block's live-in set is live there.
LEMMA NewInIsLive ==
  ASSUME FlowType, LV!NeverTooLive, NEW b \in LV!Blocks, NEW r \in LV!NewIn(b)
  PROVE  r \in Regs /\ b \in LV!LiveBlocks(r)
<1>1. r \in Regs
  BY DEF LV!NewIn, LV!NewOut, LV!PhiUses, LV!Use
<1> SUFFICES ASSUME NEW S \in SUBSET LV!Blocks, LV!ClosedFor(S, r), b \notin S PROVE FALSE
  BY <1>1 DEF LV!LiveBlocks
<1>2. /\ r \notin LV!Use(b)
      /\ r \in LV!Def(b) \/ (r \notin LV!PhiUses(b) /\ flow[b] \cap S = {})
  BY DEF LV!ClosedFor
<1>3. r \in LV!NewOut(b) /\ r \notin LV!Def(b)
  BY <1>2 DEF LV!NewIn
<1>4. PICK s \in flow[b] : r \in liveIn[s]
  BY <1>2, <1>3 DEF LV!NewOut
<1>5. s \in LV!Blocks /\ s \in LV!LiveBlocks(r)
  BY <1>4 DEF FlowType, LV!NeverTooLive
<1>6. s \in S
  BY <1>5 DEF LV!LiveBlocks
<1> QED
  BY <1>2, <1>3, <1>4, <1>6

\* A solution of the equations contains everything live: the blocks that list
\* a register are closed for it.
LEMMA SolutionIsComplete ==
  ASSUME FlowType, \A b \in LV!Blocks : Solved(b),
         NEW r \in Regs, NEW b \in LV!LiveBlocks(r)
  PROVE  r \in liveIn[b]
<1> DEFINE Listed == {c \in LV!Blocks : r \in liveIn[c]}
<1>1. ASSUME NEW c \in LV!Blocks, c \notin Listed
      PROVE  /\ r \notin LV!Use(c)
             /\ r \in LV!Def(c) \/ (r \notin LV!PhiUses(c) /\ flow[c] \cap Listed = {})
  <2>1. r \notin LV!NewIn(c)
    BY <1>1 DEF Solved
  <2>2. r \notin LV!Use(c) /\ (r \in LV!Def(c) \/ r \notin LV!NewOut(c))
    BY <2>1 DEF LV!NewIn
  <2>3. r \notin LV!NewOut(c) => r \notin LV!PhiUses(c) /\ flow[c] \cap Listed = {}
    BY DEF LV!NewOut
  <2> QED
    BY <2>2, <2>3
<1>2. LV!ClosedFor(Listed, r)
  BY <1>1 DEF LV!ClosedFor
<1>3. Listed \in SUBSET LV!Blocks /\ b \in LV!Blocks
  BY DEF LV!LiveBlocks
<1>4. b \in Listed
  BY <1>2, <1>3 DEF LV!LiveBlocks
<1> QED
  BY <1>4

\* The equations read nothing but the program and the live-in sets.
LEMMA SameFunction ==
  ASSUME LV!input' = LV!input
  PROVE  /\ \A r : LV!LiveBlocks(r)' = LV!LiveBlocks(r)
         /\ liveIn' = liveIn => \A b : LV!NewOut(b)' = LV!NewOut(b) /\ LV!NewIn(b)' = LV!NewIn(b)
<1>1. flow' = flow /\ at' = at /\ allocas' = allocas /\ uses' = uses /\ phiArgs' = phiArgs
  BY DEF LV!input
<1>2. \A b : LV!Use(b)' = LV!Use(b) /\ LV!Def(b)' = LV!Def(b) /\ LV!PhiUses(b)' = LV!PhiUses(b)
  BY <1>1 DEF LV!Use, LV!Def, LV!PhiUses
<1>3. \A S, r : LV!ClosedFor(S, r)' <=> LV!ClosedFor(S, r)
  BY <1>1, <1>2 DEF LV!ClosedFor
<1>4. \A r : LV!LiveBlocks(r)' = LV!LiveBlocks(r)
  BY <1>3 DEF LV!LiveBlocks
<1>5. ASSUME liveIn' = liveIn PROVE \A b : LV!NewOut(b)' = LV!NewOut(b)
  BY <1>1, <1>2, <1>5 DEF LV!NewOut
<1>6. ASSUME liveIn' = liveIn PROVE \A b : LV!NewIn(b)' = LV!NewIn(b)
  BY <1>2, <1>5, <1>6 DEF LV!NewIn
<1> QED
  BY <1>4, <1>5, <1>6

LEMMA LiveSweepKeeps == LiveInv /\ LV!Sweep => LiveInv'
<1> SUFFICES ASSUME LiveInv, LV!Sweep PROVE LiveInv'
  OBVIOUS
<1>1. visit \in LV!Blocks /\ visit \in Nat /\ FlowType
  BY FlowFacts DEF LiveInv, FlowType, LV!Sweep
<1>2. /\ LV!input' = LV!input /\ visit' = visit + 1 /\ livePc' = livePc /\ livePc = "sweep"
      /\ liveOut' = [liveOut EXCEPT ![visit] = LV!NewOut(visit)]
      /\ liveIn' = [liveIn EXCEPT ![visit] = LV!NewIn(visit)]
      /\ again' = (again \/ LV!NewOut(visit) # liveOut[visit] \/ LV!NewIn(visit) # liveIn[visit])
  BY DEF LV!Sweep
<1>3. LV!NewOut(visit) \subseteq Regs /\ LV!NewIn(visit) \subseteq Regs
  BY DEF LV!NewOut, LV!NewIn, LV!PhiUses, LV!Use
<1>4. FlowType'
  <2>1. flow' = flow
    BY <1>2 DEF LV!input
  <2>2. visit' \in 0..FlowBlocks
    BY <1>1, <1>2, FlowFacts
  <2> QED
    BY <2>1, <2>2, <1>1, <1>2, <1>3 DEF FlowType
<1>5. AllSolved'
  <2>1. ASSUME ~again', NEW b \in 0..visit' - 1 PROVE Solved(b)'
    <3>1. ~again /\ LV!NewOut(visit) = liveOut[visit] /\ LV!NewIn(visit) = liveIn[visit]
      BY <2>1, <1>2
    <3>2. liveIn' = liveIn /\ liveOut' = liveOut
      BY <3>1, <1>1, <1>2 DEF FlowType
    <3>3. LV!NewOut(b)' = LV!NewOut(b) /\ LV!NewIn(b)' = LV!NewIn(b)
      BY <3>2, <1>2, SameFunction
    <3>4. liveOut[b] = LV!NewOut(b) /\ liveIn[b] = LV!NewIn(b)
      <4>1. CASE b = visit
        BY <4>1, <3>1
      <4>2. CASE b \in 0..visit - 1
        BY <4>2, <3>1, <1>2 DEF LiveInv, AllSolved, Solved
      <4> QED
        BY <4>1, <4>2, <1>1, <1>2
    <3> QED
      BY <3>2, <3>3, <3>4 DEF Solved
  <2> QED
    BY <2>1, <1>2 DEF AllSolved
<1>6. LV!NeverTooLive'
  <2> SUFFICES ASSUME NEW b \in LV!Blocks, NEW r \in liveIn'[b] PROVE b \in LV!LiveBlocks(r)'
    BY DEF LV!NeverTooLive
  <2>1. LV!LiveBlocks(r)' = LV!LiveBlocks(r)
    BY <1>2, SameFunction
  <2>2. CASE b = visit
    <3>1. r \in LV!NewIn(visit)
      BY <2>2, <1>1, <1>2 DEF FlowType
    <3> QED
      BY <3>1, <2>1, <2>2, <1>1, NewInIsLive DEF LiveInv
  <2>3. CASE b # visit
    <3>1. r \in liveIn[b]
      BY <2>3, <1>1, <1>2 DEF FlowType
    <3> QED
      BY <3>1, <2>1 DEF LiveInv, LV!NeverTooLive
  <2> QED
    BY <2>2, <2>3
<1> QED
  BY <1>4, <1>5, <1>6 DEF LiveInv

LEMMA LiveEndSweepKeeps == LiveInv /\ LV!EndSweep => LiveInv'
<1> SUFFICES ASSUME LiveInv, LV!EndSweep PROVE LiveInv'
  OBVIOUS
<1>1. /\ LV!input' = LV!input /\ flow' = flow /\ liveIn' = liveIn /\ liveOut' = liveOut
      /\ visit = FlowBlocks /\ visit' = 0 /\ livePc = "sweep"
      /\ livePc' = IF again THEN "sweep" ELSE "build"
  BY DEF LV!EndSweep, LV!input
<1>2. FlowType'
  BY <1>1, FlowFacts DEF LiveInv, FlowType
<1>3. \A b : LV!NewOut(b)' = LV!NewOut(b) /\ LV!NewIn(b)' = LV!NewIn(b) /\ LV!LiveBlocks(b)' = LV!LiveBlocks(b)
  BY <1>1, SameFunction
<1>4. LV!NeverTooLive'
  BY <1>1, <1>3 DEF LiveInv, LV!NeverTooLive
<1>5. AllSolved'
  <2>1. ASSUME livePc' # "sweep", NEW b \in LV!Blocks PROVE Solved(b)'
    <3>1. ~again
      BY <2>1, <1>1
    <3>2. Solved(b)
      BY <3>1, <1>1, FlowFacts DEF LiveInv, AllSolved
    <3> QED
      BY <3>2, <1>1, <1>3 DEF Solved
  <2>2. 0..visit' - 1 = {}
    BY <1>1
  <2> QED
    BY <2>1, <2>2 DEF AllSolved
<1> QED
  BY <1>2, <1>4, <1>5 DEF LiveInv

\* Steps that leave the sets alone after the fixpoint, and stuttering.
LEMMA RestKeeps ==
  ASSUME LiveInv, UNCHANGED <<LV!input, liveIn, liveOut, visit, again>>,
         livePc' = livePc \/ (livePc # "sweep" /\ livePc' # "sweep")
  PROVE  LiveInv'
<1>1. flow' = flow
  BY DEF LV!input
<1>2. FlowType'
  BY <1>1 DEF LiveInv, FlowType
<1>3. \A b : LV!NewOut(b)' = LV!NewOut(b) /\ LV!NewIn(b)' = LV!NewIn(b) /\ LV!LiveBlocks(b)' = LV!LiveBlocks(b)
  BY SameFunction
<1>4. LV!NeverTooLive'
  BY <1>3 DEF LiveInv, LV!NeverTooLive
<1>5. AllSolved'
  BY <1>3 DEF LiveInv, AllSolved, Solved
<1> QED
  BY <1>2, <1>4, <1>5 DEF LiveInv

LEMMA LiveStepKeeps == LiveInv /\ [LV!Next]_LV!vars => LiveInv'
<1> SUFFICES ASSUME LiveInv, [LV!Next]_LV!vars PROVE LiveInv'
  OBVIOUS
<1>1. CASE LV!Sweep
  BY <1>1, LiveSweepKeeps
<1>2. CASE LV!EndSweep
  BY <1>2, LiveEndSweepKeeps
<1>3. CASE LV!BuildIntervals
  BY <1>3, RestKeeps DEF LV!BuildIntervals
<1>4. CASE UNCHANGED LV!vars
  BY <1>4, RestKeeps DEF LV!vars
<1> QED
  BY <1>1, <1>2, <1>3, <1>4 DEF LV!Next, LV!Returned

LEMMA LiveInvariance == LV!Spec => []LiveInv
  BY LiveStarts, LiveStepKeeps, PTL DEF LV!Spec

\* No sweep ever lists a register in a block where it is not live.
THEOREM NothingDeadKept == LV!Spec => []LV!NeverTooLive
<1>1. LiveInv => LV!NeverTooLive
  BY DEF LiveInv
<1> QED
  BY <1>1, LiveInvariance, PTL

\* When the fixpoint loop is left, the live-in sets are the live registers.
THEOREM LivenessComputed == LV!Spec => []LivenessExact
<1>1. ASSUME LiveInv PROVE LivenessExact
  <2> SUFFICES ASSUME livePc # "sweep", NEW b \in LV!Blocks
               PROVE  liveIn[b] = {r \in Regs : b \in LV!LiveBlocks(r)}
    BY DEF LivenessExact, LV!LivenessExact
  <2>1. ASSUME NEW r \in liveIn[b] PROVE r \in Regs /\ b \in LV!LiveBlocks(r)
    BY <1>1 DEF LiveInv, LV!NeverTooLive, FlowType
  <2>2. ASSUME NEW r \in Regs, b \in LV!LiveBlocks(r) PROVE r \in liveIn[b]
    BY <1>1, <2>2, SolutionIsComplete DEF LiveInv, AllSolved
  <2> QED
    BY <2>1, <2>2
<1> QED
  BY <1>1, LiveInvariance, PTL

-----------------------------------------------------------------------------
(* The intervals of build_intervals cover every point where their register *)
(* is live, in every function whose definitions come first in the layout.  *)

LastPoint == 3 * FlowBlocks

\* The recursive definition of LivePoints has a solution.
Grows(f, r, N) == f = [k \in 0..N |-> IF k = 0 THEN {n \in LV!Points : LV!Uses(r, n)} ELSE LV!Backward(r, f[k - 1])]

LEMMA GrowsExists ==
  ASSUME NEW r, NEW N \in Nat
  PROVE  \E f : Grows(f, r, N)
<1> DEFINE D == {m \in 0..N : \E f : Grows(f, r, m)}
           Base == {n \in LV!Points : LV!Uses(r, n)}
<1>1. 0 \in D
  <2>1. Grows([k \in 0..0 |-> Base], r, 0)
    BY DEF Grows
  <2> QED
    BY <2>1
<1>2. ASSUME NEW m \in D, m < N PROVE m + 1 \in D
  <2>1. PICK f : Grows(f, r, m)
    OBVIOUS
  <2> DEFINE g == [k \in 0..m + 1 |-> IF k <= m THEN f[k] ELSE LV!Backward(r, f[m])]
  <2>2. ASSUME NEW k \in 0..m + 1
        PROVE  g[k] = IF k = 0 THEN Base ELSE LV!Backward(r, g[k - 1])
    <3>1. CASE k = 0
      BY <2>1, <3>1 DEF Grows
    <3>2. CASE k # 0 /\ k <= m
      <4>1. k \in 0..m /\ k - 1 \in 0..m + 1 /\ k - 1 <= m
        BY <3>2
      <4>2. g[k] = f[k] /\ g[k - 1] = f[k - 1]
        BY <3>2, <4>1
      <4>3. f[k] = LV!Backward(r, f[k - 1])
        BY <2>1, <3>2, <4>1 DEF Grows
      <4> QED
        BY <3>2, <4>2, <4>3
    <3>3. CASE k = m + 1
      BY <3>3
    <3> QED
      BY <3>1, <3>2, <3>3
  <2>3. g = [k \in 0..m + 1 |-> IF k = 0 THEN Base ELSE LV!Backward(r, g[k - 1])]
    BY <2>2
  <2> HIDE DEF g
  <2>4. Grows(g, r, m + 1)
    BY <2>3 DEF Grows
  <2> QED
    BY <1>2, <2>4
<1>3. N \in D
  <2>1. D \in SUBSET (0..N)
    OBVIOUS
  <2> HIDE DEF D
  <2> QED
    BY <1>1, <1>2, <2>1, UpTo
<1> QED
  BY <1>3

LEMMA LivePointsGrow ==
  ASSUME NEW r
  PROVE  \E f : Grows(f, r, LastPoint) /\ LV!LivePoints(r) = f[LastPoint]
<1> DEFINE within[k \in 0..3 * FlowBlocks] ==
             IF k = 0 THEN {n \in LV!Points : LV!Uses(r, n)} ELSE LV!Backward(r, within[k - 1])
<1>1. LV!LivePoints(r) = within[3 * FlowBlocks]
  BY DEF LV!LivePoints
<1>2. \E f : f = [k \in 0..3 * FlowBlocks |-> IF k = 0 THEN {n \in LV!Points : LV!Uses(r, n)} ELSE LV!Backward(r, f[k - 1])]
  <2> HIDE DEF within
  <2>1. LastPoint \in Nat
    BY FlowFacts DEF LastPoint
  <2>2. PICK f : Grows(f, r, LastPoint)
    BY <2>1, GrowsExists
  <2>3. f = [k \in 0..3 * FlowBlocks |->
              IF k = 0 THEN {n \in LV!Points : LV!Uses(r, n)} ELSE LV!Backward(r, f[k - 1])]
    BY <2>2 DEF Grows, LastPoint
  <2> QED
    BY <2>3
<1>3. Grows(within, r, LastPoint)
  BY <1>2 DEF Grows, LastPoint
<1> QED
  BY <1>1, <1>3 DEF LastPoint

LEMMA BackwardType ==
  ASSUME NEW r, NEW S
  PROVE  S \subseteq LV!Backward(r, S) /\ LV!Backward(r, S) \subseteq S \cup LV!Points
BY DEF LV!Backward

\* A set of points that has the uses of r, and with a live point the live
\* points before it, has all live points.
LEMMA LivePointsLeast ==
  ASSUME NEW r, NEW S,
         \A n \in LV!Points : LV!Uses(r, n) => n \in S,
         \A n \in LV!LivePoints(r), m \in LV!Points :
           n \in S /\ at[r] # m /\ n \in LV!Follows(m) => m \in S
  PROVE  LV!LivePoints(r) \subseteq S
<1>1. PICK f : Grows(f, r, LastPoint) /\ LV!LivePoints(r) = f[LastPoint]
  BY LivePointsGrow
<1>2. LastPoint \in Nat
  BY FlowFacts DEF LastPoint
<1>3. f[0] = {n \in LV!Points : LV!Uses(r, n)} /\ \A k \in 1..LastPoint : f[k] = LV!Backward(r, f[k - 1])
  <2>1. \A k \in 0..LastPoint : f[k] = IF k = 0 THEN {n \in LV!Points : LV!Uses(r, n)} ELSE LV!Backward(r, f[k - 1])
    BY <1>1, Zenon DEF Grows
  <2>2. 0 \in 0..LastPoint /\ \A k \in 1..LastPoint : k \in 0..LastPoint /\ k # 0
    BY <1>2
  <2> QED
    BY <2>1, <2>2, Zenon
<1>4. ASSUME NEW k \in 0..LastPoint PROVE f[k] \subseteq f[LastPoint]
  <2> DEFINE D == {j \in 0..LastPoint : k <= j => f[k] \subseteq f[j]}
  <2>1. 0 \in D
    BY <1>2
  <2>2. ASSUME NEW j \in D, j < LastPoint PROVE j + 1 \in D
    <3>1. f[j + 1] = LV!Backward(r, f[j]) /\ j + 1 \in 0..LastPoint
      BY <1>2, <1>3, <2>2
    <3>2. f[j] \subseteq f[j + 1]
      BY <3>1, BackwardType
    <3>3. k <= j + 1 => k <= j \/ k = j + 1
      BY <1>2
    <3> QED
      BY <3>1, <3>2, <3>3
  <2>3. LastPoint \in D
    <3>1. D \in SUBSET (0..LastPoint)
      OBVIOUS
    <3> HIDE DEF D
    <3> QED
      BY <1>2, <2>1, <2>2, <3>1, UpTo
  <2> QED
    BY <1>2, <2>3
<1> DEFINE D == {k \in 0..LastPoint : f[k] \subseteq S /\ f[k] \subseteq LV!Points}
<1>5. 0 \in D
  BY <1>2, <1>3
<1>6. ASSUME NEW k \in D, k < LastPoint PROVE k + 1 \in D
  <2>1. f[k + 1] = LV!Backward(r, f[k]) /\ k + 1 \in 0..LastPoint
    BY <1>2, <1>3, <1>6
  <2>2. ASSUME NEW m \in f[k + 1] PROVE m \in S /\ m \in LV!Points
    <3>1. m \in f[k] \/ (m \in LV!Points /\ at[r] # m /\ \E n \in f[k] : n \in LV!Follows(m))
      BY <2>1, <2>2 DEF LV!Backward
    <3> QED
      BY <1>1, <1>4, <3>1
  <2> QED
    BY <2>1, <2>2
<1>7. LastPoint \in D
  <2>1. D \in SUBSET (0..LastPoint)
    OBVIOUS
  <2> HIDE DEF D
  <2> QED
    BY <1>2, <1>5, <1>6, <2>1, UpTo
<1> QED
  BY <1>1, <1>7

-----------------------------------------------------------------------------
\* What the intervals are made of.
InputOK == LV!Programs /\ LV!DefinedFirst
Built ==
  livePc = "done" =>
    \A r \in Regs \ allocas :
      iv[r].start = at[r] /\ iv[r].end \in Int /\ \A n \in LV!LastUses(r) : n \in Int /\ n <= iv[r].end

\* A use of r in the rest of the block, or r live at its end.
Ahead(r, n) ==
  \E b \in LV!Blocks : n \in LV!InstrsOf(b)
          /\ (r \in liveOut[b] \/ \E u \in uses[r] \cap LV!InstrsOf(b) : n <= u)

LEMMA PointFacts ==
  /\ \A n \in LV!Points : n \in Int /\ \E b \in LV!Blocks : n \in LV!InstrsOf(b)
  /\ \A b \in LV!Blocks : b \in Int /\ LV!InstrsOf(b) \subseteq LV!Points
  /\ \A b, c \in LV!Blocks : LV!InstrsOf(b) \cap LV!InstrsOf(c) # {} => b = c
<1>1. LV!Blocks = 0..FlowBlocks - 1 /\ FlowBlocks \in Nat
  BY FlowFacts
<1>2. ASSUME NEW n \in LV!Points PROVE \E b \in LV!Blocks : n \in LV!InstrsOf(b)
  <2>1. n \in Int /\ 1 <= n /\ n <= 3 * FlowBlocks
    BY <1>1 DEF LV!Points
  <2>2. (n - 1) \div 3 \in LV!Blocks
    BY <1>1, <2>1
  <2>3. n \in LV!InstrsOf((n - 1) \div 3)
    BY <2>1 DEF LV!InstrsOf, LV!PhiAt, LV!BodyAt, LV!JumpAt
  <2> QED
    BY <2>2, <2>3
<1>3. ASSUME NEW b \in LV!Blocks PROVE b \in Int /\ LV!InstrsOf(b) \subseteq LV!Points
  BY <1>1 DEF LV!InstrsOf, LV!PhiAt, LV!BodyAt, LV!JumpAt, LV!Points
<1>4. ASSUME NEW b \in LV!Blocks, NEW c \in LV!Blocks, LV!InstrsOf(b) \cap LV!InstrsOf(c) # {} PROVE b = c
  BY <1>1, <1>4 DEF LV!InstrsOf, LV!PhiAt, LV!BodyAt, LV!JumpAt
<1>5. \A n \in LV!Points : n \in Int
  BY DEF LV!Points
<1> QED
  BY <1>2, <1>3, <1>4, <1>5

LEMMA SameBlockAhead ==
  ASSUME NEW r, NEW m \in LV!Points, NEW n \in LV!Points, n = m + 1,
         n \notin {LV!PhiAt(b) : b \in LV!Blocks}, Ahead(r, n)
  PROVE  Ahead(r, m)
<1>1. PICK b \in LV!Blocks : n \in LV!InstrsOf(b)
        /\ (r \in liveOut[b] \/ \E u \in uses[r] \cap LV!InstrsOf(b) : n <= u)
  BY DEF Ahead
<1>2. m \in LV!InstrsOf(b)
  BY <1>1, PointFacts DEF LV!InstrsOf, LV!PhiAt, LV!BodyAt, LV!JumpAt
<1>3. ASSUME NEW u \in uses[r] \cap LV!InstrsOf(b), n <= u PROVE m <= u
  <2>1. m \in Int /\ n \in Int /\ u \in Int
    BY PointFacts
  <2> QED
    BY <1>3, <2>1
<1> QED
  BY <1>1, <1>2, <1>3 DEF Ahead

\* After the fixpoint, a live point has a use ahead in its block, or its
\* register is live at the end of it.
LEMMA LiveMeansAhead ==
  ASSUME FlowType, InputOK, \A b \in LV!Blocks : Solved(b),
         NEW r \in Regs \ allocas, NEW p \in LV!LivePoints(r)
  PROVE  p \in LV!Points /\ Ahead(r, p)
<1> DEFINE S == {n \in LV!Points : Ahead(r, n)}
<1>1. ASSUME NEW n \in LV!Points, LV!Uses(r, n) PROVE n \in S
  <2>1. PICK b \in LV!Blocks : n \in LV!InstrsOf(b)
    BY PointFacts
  <2>2. CASE n \in uses[r]
    BY <2>1, <2>2, PointFacts DEF Ahead
  <2>3. CASE \E c \in LV!Blocks : n = LV!JumpAt(c) /\ r \in LV!PhiUses(c)
    <3>1. PICK c \in LV!Blocks : n = LV!JumpAt(c) /\ r \in LV!PhiUses(c)
      BY <2>3
    <3>2. r \in liveOut[c]
      BY <3>1 DEF Solved, LV!NewOut
    <3>3. n \in LV!InstrsOf(c)
      BY <3>1 DEF LV!InstrsOf
    <3> QED
      BY <3>2, <3>3 DEF Ahead
  <2> QED
    BY <1>1, <2>2, <2>3 DEF LV!Uses
<1>2. ASSUME NEW n \in LV!LivePoints(r), NEW m \in LV!Points, n \in S, at[r] # m, n \in LV!Follows(m)
      PROVE  m \in S
  <2>1. at[r] < n
    BY DEF InputOK, LV!DefinedFirst
  <2>2. CASE n = m + 1 /\ n \notin {LV!PhiAt(b) : b \in LV!Blocks}
    BY <1>2, <2>2, SameBlockAhead
  <2>3. ASSUME NEW b \in LV!Blocks, m = LV!JumpAt(b), NEW s \in flow[b], n = LV!PhiAt(s) PROVE m \in S
    <3>1. s \in LV!Blocks
      BY DEF FlowType
    <3>2. n \in LV!InstrsOf(s) /\ m \in LV!InstrsOf(b)
      BY <2>3 DEF LV!InstrsOf
    <3>3. at[r] \notin LV!InstrsOf(s)
      BY <2>1, <2>3, <3>1, PointFacts DEF LV!InstrsOf, LV!PhiAt, LV!BodyAt, LV!JumpAt
    <3>4. r \in liveOut[s] \/ \E u \in uses[r] \cap LV!InstrsOf(s) : n <= u
      BY <1>2, <3>1, <3>2, PointFacts DEF Ahead
    <3>5. r \in liveIn[s]
      BY <3>1, <3>3, <3>4 DEF Solved, LV!NewIn, LV!Use, LV!Def
    <3>6. r \in liveOut[b]
      BY <3>1, <3>5 DEF Solved, LV!NewOut
    <3> QED
      BY <3>2, <3>6 DEF Ahead
  <2> QED
    BY <1>2, <2>2, <2>3 DEF LV!Follows
<1> HIDE DEF S
<1>3. LV!LivePoints(r) \subseteq S
  BY <1>1, <1>2, LivePointsLeast
<1> QED
  BY <1>3 DEF S

\* The end of the interval is the greatest of the last uses.
LEMMA EndIsLast ==
  ASSUME FlowType, InputOK, NEW r \in Regs, NEW n \in LV!LastUses(r)
  PROVE  LV!IntervalEnd(r) \in LV!LastUses(r) /\ LV!IntervalEnd(r) \in Int /\ n \in Int /\ n <= LV!IntervalEnd(r)
<1>1. LV!LastUses(r) \subseteq LV!Points
  <2>1. \A b \in LV!Blocks : LV!JumpAt(b) \in LV!Points
    BY PointFacts DEF LV!InstrsOf
  <2>2. uses[r] \subseteq LV!Points
    BY DEF InputOK, LV!Programs
  <2>3. \A e \in phiArgs : e[1] \in LV!Blocks
    BY DEF InputOK, LV!Programs
  <2> QED
    BY <2>1, <2>2, <2>3 DEF LV!LastUses
<1>2. LV!LastUses(r) \in SUBSET (0..LastPoint) /\ LastPoint \in Nat
  BY <1>1, FlowFacts DEF LV!Points, LastPoint
<1>3. \E e \in LV!LastUses(r) : \A m \in LV!LastUses(r) : m <= e
  BY <1>2, Greatest
<1>4. LV!IntervalEnd(r) \in LV!LastUses(r) /\ \A m \in LV!LastUses(r) : m <= LV!IntervalEnd(r)
  BY <1>3 DEF LV!IntervalEnd
<1> QED
  BY <1>1, <1>4, PointFacts

LEMMA Covered ==
  ASSUME LiveInv, InputOK, Built
  PROVE  IntervalsCover
<1> SUFFICES ASSUME livePc = "done", NEW r \in Regs \ allocas, NEW p \in LV!LivePoints(r)
             PROVE  iv[r].start < p /\ p <= iv[r].end
  BY DEF IntervalsCover, LV!IntervalsCover
<1>1. iv[r].start = at[r] /\ iv[r].end \in Int /\ \A n \in LV!LastUses(r) : n \in Int /\ n <= iv[r].end
  BY DEF Built
<1>2. at[r] < p
  BY DEF InputOK, LV!DefinedFirst
<1>3. FlowType /\ \A b \in LV!Blocks : Solved(b)
  BY DEF LiveInv, AllSolved
<1>4. p \in LV!Points /\ Ahead(r, p)
  BY <1>3, LiveMeansAhead
<1>5. PICK b \in LV!Blocks : p \in LV!InstrsOf(b)
        /\ (r \in liveOut[b] \/ \E u \in uses[r] \cap LV!InstrsOf(b) : p <= u)
  BY <1>4 DEF Ahead
<1>6. \E m \in LV!LastUses(r) : p <= m
  <2>1. CASE r \in liveOut[b]
    <3>1. LV!JumpAt(b) \in LV!LastUses(r)
      BY <2>1 DEF LV!LastUses
    <3>2. p <= LV!JumpAt(b)
      BY <1>5, PointFacts DEF LV!InstrsOf, LV!PhiAt, LV!BodyAt, LV!JumpAt
    <3> QED
      BY <3>1, <3>2
  <2>2. CASE \E u \in uses[r] \cap LV!InstrsOf(b) : p <= u
    BY <2>2 DEF LV!LastUses
  <2> QED
    BY <1>5, <2>1, <2>2
<1>7. PICK m \in LV!LastUses(r) : p <= m
  BY <1>6
<1>8. p <= iv[r].end
  <2>1. p \in Int
    BY <1>4, PointFacts
  <2> QED
    BY <1>1, <1>7, <2>1
<1> QED
  BY <1>1, <1>2, <1>8

-----------------------------------------------------------------------------
LEMMA BuiltKeeps ==
  ASSUME LiveInv, InputOK, Built, [LV!Next]_LV!vars
  PROVE  InputOK' /\ Built'
<1>1. LV!input' = LV!input
  BY DEF LV!Next, LV!Sweep, LV!EndSweep, LV!BuildIntervals, LV!Returned, LV!vars
<1>2. flow' = flow /\ at' = at /\ allocas' = allocas /\ uses' = uses /\ phiArgs' = phiArgs
  BY <1>1 DEF LV!input
<1>3. \A r : LV!LivePoints(r)' = LV!LivePoints(r)
  <2>1. \A r, n : LV!Uses(r, n)' <=> LV!Uses(r, n)
    BY <1>2 DEF LV!Uses, LV!PhiUses
  <2>2. \A r, S : LV!Backward(r, S)' = LV!Backward(r, S)
    BY <1>2 DEF LV!Backward, LV!Follows
  <2> QED
    BY <2>1, <2>2 DEF LV!LivePoints
<1>4. InputOK'
  BY <1>2, <1>3 DEF InputOK, LV!Programs, LV!DefinedFirst
<1>5. ASSUME liveOut' = liveOut PROVE \A r : LV!LastUses(r)' = LV!LastUses(r)
  BY <1>2, <1>5 DEF LV!LastUses
<1>6. ASSUME LV!BuildIntervals PROVE Built'
  <2>1. \A r : LV!LastUses(r)' = LV!LastUses(r)
    BY <1>5, <1>6 DEF LV!BuildIntervals
  <2>2. ASSUME NEW r \in Regs \ allocas
        PROVE  /\ iv'[r].start = at[r] /\ iv'[r].end \in Int
               /\ \A n \in LV!LastUses(r) : n \in Int /\ n <= iv'[r].end
    <3>1. iv'[r].start = at[r] /\ iv'[r].end = LV!IntervalEnd(r)
      BY <1>6 DEF LV!BuildIntervals
    <3>2. LV!IntervalEnd(r) \in Int
      <4>1. CASE LV!LastUses(r) = {}
        BY <4>1 DEF LV!IntervalEnd, InputOK, LV!Programs, LV!PhiAt, LV!BodyAt, LV!Blocks
      <4>2. CASE LV!LastUses(r) # {}
        BY <4>2, EndIsLast DEF LiveInv
      <4> QED
        BY <4>1, <4>2
    <3>3. \A n \in LV!LastUses(r) : n \in Int /\ n <= LV!IntervalEnd(r)
      BY EndIsLast DEF LiveInv
    <3> QED
      BY <3>1, <3>2, <3>3
  <2> QED
    BY <1>2, <2>1, <2>2 DEF Built
<1>7. ASSUME LV!Sweep \/ LV!EndSweep PROVE Built'
  BY <1>7 DEF LV!Sweep, LV!EndSweep, Built
<1>8. ASSUME UNCHANGED LV!vars PROVE Built'
  <2>1. \A r : LV!LastUses(r)' = LV!LastUses(r)
    BY <1>5, <1>8 DEF LV!vars
  <2> QED
    BY <1>2, <1>8, <2>1 DEF LV!vars, Built
<1>9. Built'
  BY <1>6, <1>7, <1>8 DEF LV!Next, LV!Returned
<1> QED
  BY <1>4, <1>9

\* In every function whose definitions come first in its layout, whatever its
\* graph and its loops, the interval build_intervals gives a register spans
\* all points where the register is live: linear_coloring, which sees nothing
\* but the intervals, may reuse a machine register outside of them.
THEOREM LivePointsCovered == LV!Spec => []IntervalsCover
<1>1. LV!Init => InputOK /\ Built
  BY DEF LV!Init, InputOK, Built
<1>2. LiveInv /\ InputOK /\ Built /\ [LV!Next]_LV!vars => (InputOK /\ Built)'
  BY BuiltKeeps
<1>3. LiveInv /\ InputOK /\ Built => IntervalsCover
  BY Covered
<1> QED
  BY <1>1, <1>2, <1>3, LiveInvariance, PTL DEF LV!Spec
=============================================================================
