--------------------------- MODULE Mem2RegProofs ---------------------------
(***************************************************************************)
(* PromoteAlloca keeps the values, for functions of any size, any control  *)
(* flow and any accesses.                                                  *)
(*                                                                         *)
(* A slot gets a version at a phi or at a write.  Which of these places    *)
(* counts at a given access is said without paths and without the stacks   *)
(* of the renamer: it is the last one among the dominators.  That this is  *)
(* the same seen from a block and from each of its predecessors, if the    *)
(* block has no phi, is all that the placement of the phis is for.  The    *)
(* renamer pushes and finds exactly these versions, and the final run      *)
(* keeps in the register of each what memory holds.                        *)
(***************************************************************************)
EXTENDS Mem2Reg, ProofLibrary

IsInput ==
  /\ Graph(Blocks, succ) /\ AllReachable(succ)
  /\ code \in [Blocks -> Seq(Accesses)] /\ WellDefined(succ, code)
  /\ kids = Children /\ df = Frontier

\* insert_phi_for_slot is done with a block that defines the slot when its
\* frontier has phis for the slot.
Defines(b, s) == b \in DefBlocks(s) \/ <<b, s>> \in phis
Done(b, s) == \A c \in df[b] : <<c, s>> \in phis
Placed ==
  /\ phis \subseteq (Blocks \ {0}) \X Promotable
  /\ \A s \in Promotable : \A b \in Blocks : Defines(b, s) => Done(b, s)

\* Where slot s gets a version: the writes, and position 0 of the blocks with
\* a phi.  Those before position k of block b are in its dominators.
Places(s) ==
  {<<b, 0>> : b \in {c \in Blocks : <<c, s>> \in phis}} \cup
  {p \in Points : Writes(code[p[1]][p[2]], s)}
Before(b, k, s) ==
  {x \in Places(s) : x[1] \in Dominators(succ, b) /\ (x[1] = b => x[2] <= k)}
IsLast(x, P) ==
  /\ x \in P
  /\ \A y \in P : y[1] \in StrictDominators(succ, x[1]) \/ (y[1] = x[1] /\ y[2] <= x[2])

\* The register that place x gives to slot s.
Operand(rep, x, s) ==
  IF x[2] = 0 THEN Phi(<<x[1], s>>) ELSE CheckUse([replaced |-> rep], x)
IsVersion(r, rep, b, k, s) ==
  \E x \in Before(b, k, s) : IsLast(x, Before(b, k, s)) /\ r = Operand(rep, x, s)

\* The register is defined before position k of block b.
Available(r, b, k) ==
  \E c \in Dominators(succ, b) :
    \/ \E s \in Promotable : r = Phi(<<c, s>>)
    \/ \E j \in Positions(c) : r = Def(c, j) /\ (c = b => j <= k)

\* The loads among the points Q are replaced by the versions.
Promoted(p) == \E s \in Promotable : Reads(code[p[1]][p[2]], s)
Replaces(rep, Q) == DOMAIN rep = {p \in Q : Promoted(p)}
Replaced(rep, Q) ==
  /\ Replaces(rep, Q)
  /\ \A p \in DOMAIN rep : \A s \in Promotable :
       Reads(code[p[1]][p[2]], s) =>
         IsVersion(rep[p], rep, p[1], p[2] - 1, s) /\ Available(rep[p], p[1], p[2] - 1)
PointsOf(D) == {p \in Points : p[1] \in D}

\* The top of a stack is the version at position k of block b.
Holds(stack, rep, b, k, s) ==
  \/ stack = <<>> /\ Before(b, k, s) = {}
  \/ stack # <<>> /\ IsVersion(Head(stack), rep, b, k, s)

\* The phis have their operands for the blocks D.
Joining(D, n) == {b \in D : n[1] \in succ[b] /\ Before(b, Len(code[b]), n[2]) # {}}
Joined(inc, rep, D) ==
  /\ DOMAIN inc = phis
  /\ \A n \in phis :
       /\ DOMAIN inc[n] = Joining(D, n)
       /\ \A b \in Joining(D, n) : IsVersion(inc[n][b], rep, b, Len(code[b]), n[2])

\* The register of the version holds what the slot holds.
Agrees(m, e, b, k, s) ==
  \/ Before(b, k, s) = {} /\ m[s] = Undef
  \/ \E x \in Before(b, k, s) :
       IsLast(x, Before(b, k, s)) /\ RegisterOf(e, Operand(replaced, x, s)) = m[s]

-----------------------------------------------------------------------------
(* What the places before a point are, in a function that is ready for the *)
(* renamer.                                                                *)

LEMMA InputFacts ==
  ASSUME IsInput
  PROVE  /\ NumBlocks \in Nat \ {0} /\ 0 \in Blocks
         /\ Graph(Blocks, succ) /\ AllReachable(succ) /\ DOMAIN succ = Blocks
         /\ \A p \in Blocks : succ[p] \subseteq Blocks \ {0}
         /\ \A b \in Blocks : Dominators(succ, b) \subseteq Blocks /\ b \in Dominators(succ, b)
         /\ \A b \in Blocks : code[b] \in Seq(Accesses) /\ Len(code[b]) \in Nat
         /\ \A b \in Blocks : \A k \in Positions(b) : code[b][k] \in Accesses /\ <<b, k>> \in Points
<1>1. NumBlocks \in Nat \ {0} /\ 0 \in Blocks
  BY Mem2RegAssumption DEF Blocks
<1>2. Graph(Blocks, succ) /\ AllReachable(succ) /\ DOMAIN succ = Blocks
  BY DEF IsInput, Graph
<1>3. \A p \in Blocks : succ[p] \subseteq Blocks \ {0}
  BY <1>2 DEF Graph
<1>4. \A b \in Blocks : Dominators(succ, b) \subseteq Blocks /\ b \in Dominators(succ, b)
  BY <1>2, DominatesItself
<1>5. \A b \in Blocks : code[b] \in Seq(Accesses) /\ Len(code[b]) \in Nat
  BY DEF IsInput
<1>6. \A b \in Blocks : \A k \in Positions(b) : code[b][k] \in Accesses /\ <<b, k>> \in Points
  BY <1>5 DEF Positions, Points
<1> QED
  BY <1>1, <1>2, <1>3, <1>4, <1>5, <1>6

LEMMA PlaceFacts ==
  ASSUME IsInput, Placed, NEW s, NEW x \in Places(s)
  PROVE  /\ x[1] \in Blocks /\ x[2] \in 0..Len(code[x[1]]) /\ x = <<x[1], x[2]>>
         /\ x[2] = 0 => <<x[1], s>> \in phis
         /\ x[2] # 0 => x \in Points /\ Writes(code[x[1]][x[2]], s)
         /\ Defines(x[1], s)
<1>1. CASE x \in {<<b, 0>> : b \in {c \in Blocks : <<c, s>> \in phis}}
  <2>1. PICK b \in Blocks : x = <<b, 0>> /\ <<b, s>> \in phis
    BY <1>1
  <2>2. x[1] = b /\ x[2] = 0
    BY <2>1
  <2>3. 0 \in 0..Len(code[b])
    BY InputFacts
  <2> QED
    BY <2>1, <2>2, <2>3 DEF Defines
<1>2. CASE x \in {p \in Points : Writes(code[p[1]][p[2]], s)}
  <2>0. PICK b \in Blocks : \E k \in Positions(b) : x = <<b, k>>
    BY <1>2 DEF Points
  <2>1. PICK k \in Positions(b) : x = <<b, k>>
    BY <2>0
  <2>2. k \in 1..Len(code[b]) /\ Writes(code[b][k], s) /\ x \in Points
    BY <1>2, <2>1 DEF Positions
  <2>3. b \in DefBlocks(s)
    BY <2>1, <2>2 DEF DefBlocks
  <2> QED
    BY <2>1, <2>2, <2>3, InputFacts DEF Defines
<1> QED
  BY <1>1, <1>2 DEF Places

LEMMA BeforeIsPlace ==
  ASSUME NEW b, NEW k, NEW s, NEW x \in Before(b, k, s)
  PROVE  x \in Places(s)
  BY DEF Before

\* Seen from a block without a phi and from its predecessors, the places are
\* the same: one that reaches a predecessor only has the block in its frontier.
LEMMA NoPhi ==
  ASSUME IsInput, Placed, NEW s \in Promotable, NEW p \in Blocks, NEW c \in succ[p],
         <<c, s>> \notin phis
  PROVE  Before(p, Len(code[p]), s) = Before(c, 0, s)
<1>1. c \in Blocks
  BY InputFacts
<1>2. ASSUME NEW x \in Before(p, Len(code[p]), s) PROVE x \in Before(c, 0, s)
  <2>1. x \in Places(s) /\ x[1] \in Dominators(succ, p)
    BY DEF Before
  <2>2. x[1] \in Blocks /\ Defines(x[1], s)
    BY <2>1, PlaceFacts
  <2>3. c \notin df[x[1]]
    BY <2>2 DEF Placed, Done
  <2>4. ~InFrontier(succ, x[1], c)
    BY <1>1, <2>2, <2>3 DEF IsInput, Frontier
  <2>5. x[1] \in StrictDominators(succ, c)
    BY <2>1, <2>4, InputFacts DEF InFrontier
  <2> QED
    BY <2>1, <2>5 DEF Before, StrictDominators
<1>3. ASSUME NEW x \in Before(c, 0, s) PROVE x \in Before(p, Len(code[p]), s)
  <2>1. x \in Places(s) /\ x[1] \in Dominators(succ, c) /\ (x[1] = c => x[2] <= 0)
    BY DEF Before
  <2>2. x[1] \in Blocks /\ x[2] \in 0..Len(code[x[1]]) /\ (x[2] = 0 => <<x[1], s>> \in phis)
    BY <2>1, PlaceFacts
  <2>3. x[1] # c
    <3> SUFFICES ASSUME x[1] = c PROVE FALSE
      OBVIOUS
    <3>1. x[2] \in Nat /\ x[2] <= 0
      BY <2>1, <2>2, InputFacts
    <3>2. x[2] = 0
      BY <3>1
    <3> QED
      BY <2>2, <3>2
  <2>4. x[1] \in Dominators(succ, p)
    BY <1>1, <2>1, <2>3, InputFacts, AboveThePredecessors DEF StrictDominators
  <2> QED
    BY <2>1, <2>2, <2>4, InputFacts DEF Before
<1> QED
  BY <1>2, <1>3

\* The newest place is the last one.
LEMMA Newest ==
  ASSUME IsInput, Placed, NEW s, NEW b \in Blocks, NEW k, <<b, k>> \in Places(s)
  PROVE  IsLast(<<b, k>>, Before(b, k, s))
<1>1. <<b, k>> \in Before(b, k, s)
  <2>1. PICK x \in Places(s) : x = <<b, k>>
    OBVIOUS
  <2>2. k <= k
    <3>1. x[1] = b /\ x[2] = k
      BY <2>1
    <3>2. k \in 0..Len(code[b])
      BY <3>1, PlaceFacts
    <3> QED
      BY <3>2, InputFacts
  <2> QED
    BY <2>2, InputFacts DEF Before
<1>2. ASSUME NEW y \in Before(b, k, s)
      PROVE  y[1] \in StrictDominators(succ, b) \/ (y[1] = b /\ y[2] <= k)
  BY DEF Before, StrictDominators
<1> QED
  BY <1>1, <1>2 DEF IsLast

\* An access that does not write the slot changes nothing for it.
LEMMA Unwritten ==
  ASSUME IsInput, Placed, NEW s, NEW b \in Blocks, NEW k \in Positions(b),
         ~Writes(code[b][k], s)
  PROVE  Before(b, k, s) = Before(b, k - 1, s)
<1>0. k \in 1..Len(code[b]) /\ Len(code[b]) \in Nat
  BY InputFacts DEF Positions
<1>1. ASSUME NEW x \in Places(s), x[1] = b, x[2] <= k PROVE x[2] <= k - 1
  <2>1. x[2] \in 0..Len(code[b]) /\ (x[2] # 0 => Writes(code[b][x[2]], s))
    BY <1>1, PlaceFacts
  <2>2. x[2] # k
    BY <1>0, <2>1
  <2> QED
    BY <1>0, <1>1, <2>1, <2>2
<1>2. ASSUME NEW x \in Places(s), x[2] <= k - 1 PROVE x[2] <= k
  <2>1. x[2] \in 0..Len(code[x[1]]) /\ x[1] \in Blocks
    BY PlaceFacts
  <2>2. x[2] \in Int
    BY <2>1, InputFacts
  <2> QED
    BY <1>0, <1>2, <2>2
<1> QED
  BY <1>1, <1>2 DEF Before

\* Without a phi nothing changes at the start of a block.
LEMMA Unjoined ==
  ASSUME IsInput, Placed, NEW s, NEW b \in Blocks, <<b, s>> \notin phis
  PROVE  Before(b, 0, s) = Before(b, -1, s)
<1>1. ASSUME NEW x \in Places(s), x[1] = b PROVE ~(x[2] <= 0) /\ ~(x[2] <= -1)
  <2>1. x[2] \in 0..Len(code[b]) /\ x[2] # 0
    BY <1>1, PlaceFacts
  <2> QED
    BY <2>1, InputFacts
<1> QED
  BY <1>1 DEF Before

\* The child of a block in the dominator tree starts where the block ends.
LEMMA AtChild ==
  ASSUME IsInput, Placed, NEW s, NEW b \in Blocks, NEW c \in kids[b]
  PROVE  /\ c \in Blocks /\ c # 0
         /\ Dominators(succ, c) = Dominators(succ, b) \cup {c}
         /\ Before(c, -1, s) = Before(b, Len(code[b]), s)
<1>1. c \in Blocks \ {0} /\ IsIdom(succ, b, c)
  BY DEF IsInput, Children
<1>2. b \in Dominators(succ, c) /\ b # c
  BY <1>1 DEF IsIdom, StrictDominators
<1>3. Dominators(succ, c) \subseteq Dominators(succ, b) \cup {c}
  BY <1>1 DEF IsIdom, StrictDominators
<1>4. Dominators(succ, b) \subseteq Dominators(succ, c)
  BY <1>1, <1>2, InputFacts, Transitive
<1>5. c \notin Dominators(succ, b)
  BY <1>1, <1>2, InputFacts, Antisymmetric
<1>6. c \in Dominators(succ, c)
  BY <1>1, InputFacts
<1>7. ASSUME NEW x \in Places(s)
      PROVE  x \in Before(c, -1, s) <=> x \in Before(b, Len(code[b]), s)
  <2>1. x[2] \in 0..Len(code[x[1]]) /\ x[1] \in Blocks
    BY PlaceFacts
  <2>2. ~(x[2] <= -1)
    BY <2>1, InputFacts
  <2>3. x[1] = b => x[2] <= Len(code[b])
    BY <2>1, InputFacts
  <2> QED
    BY <1>3, <1>4, <1>5, <2>2, <2>3 DEF Before
<1>8. Before(c, -1, s) = Before(b, Len(code[b]), s)
  BY <1>7 DEF Before
<1> QED
  BY <1>1, <1>3, <1>4, <1>6, <1>8

\* The places before a later point of a block are more.
LEMMA Earlier ==
  ASSUME IsInput, Placed, NEW s, NEW b \in Blocks, NEW j \in Int, NEW k \in Int, j <= k
  PROVE  Before(b, j, s) \subseteq Before(b, k, s)
<1>1. ASSUME NEW x \in Places(s), x[2] <= j PROVE x[2] <= k
  <2>1. x[2] \in 0..Len(code[x[1]]) /\ x[1] \in Blocks
    BY PlaceFacts
  <2>2. x[2] \in Int
    BY <2>1, InputFacts
  <2> QED
    BY <1>1, <2>2
<1> QED
  BY <1>1 DEF Before

\* A load has a version: otherwise some path leads to it without a store.
LEMMA LoadHasVersion ==
  ASSUME IsInput, Placed, NEW s \in Promotable, NEW b \in Blocks, NEW k \in Positions(b),
         Reads(code[b][k], s)
  PROVE  Before(b, k - 1, s) # {}
<1> SUFFICES ASSUME Before(b, k - 1, s) = {} PROVE FALSE
  OBVIOUS
<1>0. k \in 1..Len(code[b]) /\ Len(code[b]) \in Nat /\ DOMAIN code[b] = Positions(b) /\ s \in Slots
  BY InputFacts DEF Positions, Promotable
<1>1. ASSUME NEW j \in 1..k - 1 PROVE ~Writes(code[b][j], s)
  <2> SUFFICES ASSUME Writes(code[b][j], s) PROVE FALSE
    OBVIOUS
  <2>1. j \in Positions(b) /\ j <= k - 1
    BY <1>0 DEF Positions
  <2>2. <<b, j>> \in Places(s)
    BY <2>1, InputFacts DEF Places
  <2>3. <<b, j>> \in Before(b, k - 1, s)
    BY <2>1, <2>2, InputFacts DEF Before
  <2> QED
    BY <2>3
<1>2. PICK S \in SUBSET Blocks :
        0 \in S /\ b \notin S /\ \A x \in S : Silent(code[x], s) => succ[x] \subseteq S
  BY <1>0, <1>1 DEF IsInput, WellDefined
<1> DEFINE U == {x \in Blocks : Before(x, 0, s) = {} => x \in S}
<1>3. 0 \in U
  BY <1>2, InputFacts
<1>4. ASSUME NEW x \in U, NEW y \in succ[x] PROVE y \in U
  <2> SUFFICES ASSUME Before(y, 0, s) = {} PROVE y \in S
    BY InputFacts
  <2>1. y \in Blocks /\ <<y, 0>> \notin Places(s)
    BY InputFacts DEF Before
  <2>2. <<y, s>> \notin phis
    BY <2>1 DEF Places
  <2>3. Before(x, Len(code[x]), s) = {}
    BY <2>2, NoPhi
  <2>4. Before(x, 0, s) = {}
    <3>1. 0 \in Int /\ Len(code[x]) \in Int /\ 0 <= Len(code[x])
      BY InputFacts
    <3>2. Before(x, 0, s) \subseteq Before(x, Len(code[x]), s)
      BY <3>1, Earlier
    <3> QED
      BY <2>3, <3>2
  <2>5. Silent(code[x], s)
    <3> SUFFICES ASSUME NEW j \in DOMAIN code[x], Writes(code[x][j], s) PROVE FALSE
      BY DEF Silent
    <3>1. j \in Positions(x) /\ j <= Len(code[x])
      BY InputFacts DEF Positions
    <3>2. <<x, j>> \in Before(x, Len(code[x]), s)
      BY <3>1, InputFacts DEF Before, Places
    <3> QED
      BY <2>3, <3>2
  <2> QED
    BY <1>2, <2>4, <2>5
<1>5. U = Blocks
  <2> HIDE DEF U
  <2>1. U \in SUBSET Blocks
    BY DEF U
  <2> QED
    BY <1>3, <1>4, <2>1, InputFacts, EverythingReached
<1>6. Before(b, 0, s) = {}
  <2>1. 0 \in Int /\ k - 1 \in Int /\ 0 <= k - 1
    BY <1>0
  <2>2. Before(b, 0, s) \subseteq Before(b, k - 1, s)
    BY <2>1, Earlier
  <2> QED
    BY <2>2
<1> QED
  BY <1>2, <1>5, <1>6

-----------------------------------------------------------------------------
(* The loads replaced so far, and what replacing one more keeps.           *)

\* The points before position k of block b are among Q.
Seen(Q, b, k) ==
  \A x \in Points : x[1] \in Dominators(succ, b) /\ (x[1] = b => x[2] <= k) => x \in Q
Closed(Q) == Q \subseteq Points /\ \A p \in Q : Seen(Q, p[1], p[2] - 1)
Extends(rep2, rep) == \A p \in DOMAIN rep : p \in DOMAIN rep2 /\ rep2[p] = rep[p]

LEMMA AccessFacts ==
  ASSUME NEW a \in Accesses
  PROVE  /\ a.slot \in Slots
         /\ a.op = "copy" => a.from \in Slots
         /\ \A s : Reads(a, s) => s \in Slots
         /\ \A s, u : Reads(a, s) /\ Reads(a, u) => s = u
  BY DEF Accesses, Reads

LEMMA SeenPlaces ==
  ASSUME IsInput, Placed, NEW Q, NEW b, NEW k, Seen(Q, b, k), NEW s, NEW x \in Before(b, k, s)
  PROVE  x[2] = 0 \/ x \in Q
<1>1. x \in Places(s) /\ x[1] \in Dominators(succ, b) /\ (x[1] = b => x[2] <= k)
  BY DEF Before
<1>2. x[2] # 0 => x \in Points
  BY <1>1, PlaceFacts
<1> QED
  BY <1>1, <1>2 DEF Seen

\* Replacing more loads does not change what an earlier place provides.
LEMMA Stable ==
  ASSUME NEW rep, NEW Q, Replaces(rep, Q),
         NEW rep2, NEW Q2, Replaces(rep2, Q2),
         Q \subseteq Q2, Extends(rep2, rep), NEW s, NEW x, x[2] = 0 \/ x \in Q
  PROVE  Operand(rep2, x, s) = Operand(rep, x, s)
<1>1. CASE x[2] = 0
  BY <1>1 DEF Operand
<1>2. CASE x[2] # 0 /\ x \in DOMAIN rep
  BY <1>2 DEF Operand, CheckUse, Extends
<1>3. CASE x[2] # 0 /\ x \notin DOMAIN rep
  <2>1. x \notin DOMAIN rep2
    BY <1>3 DEF Replaces
  <2> QED
    BY <1>3, <2>1 DEF Operand, CheckUse
<1> QED
  BY <1>1, <1>2, <1>3

LEMMA VersionKept ==
  ASSUME IsInput, Placed, NEW rep, NEW Q, Replaces(rep, Q),
         NEW rep2, NEW Q2, Replaces(rep2, Q2),
         Q \subseteq Q2, Extends(rep2, rep),
         NEW s, NEW b, NEW k, Seen(Q, b, k), NEW r, IsVersion(r, rep, b, k, s)
  PROVE  IsVersion(r, rep2, b, k, s)
<1>1. PICK x \in Before(b, k, s) : IsLast(x, Before(b, k, s)) /\ r = Operand(rep, x, s)
  BY DEF IsVersion
<1>2. x[2] = 0 \/ x \in Q
  BY SeenPlaces
<1>3. Operand(rep2, x, s) = Operand(rep, x, s)
  BY <1>2, Stable
<1>4. IsLast(x, Before(b, k, s)) /\ r = Operand(rep2, x, s)
  BY <1>1, <1>3
<1> QED
  BY <1>4 DEF IsVersion

\* The register of a place is defined before every point the place is before.
LEMMA PlaceAvailable ==
  ASSUME IsInput, Placed, NEW rep, NEW Q, Replaced(rep, Q), NEW b \in Blocks, NEW k \in Int,
         Seen(Q, b, k), NEW s \in Promotable, NEW x \in Before(b, k, s)
  PROVE  Available(Operand(rep, x, s), b, k)
<1>1. x \in Places(s) /\ x[1] \in Dominators(succ, b) /\ (x[1] = b => x[2] <= k)
  BY DEF Before
<1>2. /\ x[1] \in Blocks /\ x[2] \in 0..Len(code[x[1]]) /\ Len(code[x[1]]) \in Nat
      /\ x = <<x[1], x[2]>>
  BY <1>1, PlaceFacts, InputFacts
<1>3. CASE x[2] = 0
  <2>1. \E u \in Promotable : Operand(rep, x, s) = Phi(<<x[1], u>>)
    BY <1>3 DEF Operand
  <2> QED
    BY <1>1, <2>1 DEF Available
<1>4. CASE x[2] # 0 /\ x \notin DOMAIN rep
  <2>1. Operand(rep, x, s) = Def(x[1], x[2])
    BY <1>4 DEF Operand, CheckUse
  <2>2. x[2] \in Positions(x[1])
    BY <1>2, <1>4 DEF Positions
  <2> QED
    BY <1>1, <2>1, <2>2 DEF Available
<1>5. CASE x[2] # 0 /\ x \in DOMAIN rep
  <2>1. Operand(rep, x, s) = rep[x]
    BY <1>5 DEF Operand, CheckUse
  <2>2. PICK u \in Promotable : Reads(code[x[1]][x[2]], u)
    BY <1>5 DEF Replaced, Replaces, Promoted
  <2>3. Available(rep[x], x[1], x[2] - 1)
    BY <1>5, <2>2 DEF Replaced
  <2>4. \A c \in Dominators(succ, x[1]) : c \in Dominators(succ, b)
    BY <1>1, InputFacts, Transitive
  <2>5. ASSUME NEW c \in Dominators(succ, x[1]), c = b PROVE c = x[1]
    BY <1>1, <1>2, <2>5, InputFacts, Antisymmetric
  <2>6. PICK c \in Dominators(succ, x[1]) :
          \/ \E u2 \in Promotable : rep[x] = Phi(<<c, u2>>)
          \/ \E j \in Positions(c) : rep[x] = Def(c, j) /\ (c = x[1] => j <= x[2] - 1)
    BY <2>3 DEF Available
  <2>7. CASE \E u2 \in Promotable : rep[x] = Phi(<<c, u2>>)
    BY <2>1, <2>4, <2>7 DEF Available
  <2>8. CASE \E j \in Positions(c) : rep[x] = Def(c, j) /\ (c = x[1] => j <= x[2] - 1)
    <3>1. PICK j \in Positions(c) : rep[x] = Def(c, j) /\ (c = x[1] => j <= x[2] - 1)
      BY <2>8
    <3>2. c \in Blocks /\ j \in Int
      BY <1>2, <3>1, InputFacts DEF Positions
    <3>3. c = b => j <= k
      BY <1>1, <1>2, <2>5, <3>1, <3>2
    <3> QED
      BY <2>1, <2>4, <3>1, <3>3 DEF Available
  <2> QED
    BY <2>6, <2>7, <2>8
<1> QED
  BY <1>3, <1>4, <1>5

\* Replacing the load at a point by the version there.
LEMMA ReplaceOne ==
  ASSUME IsInput, Placed, NEW rep, NEW Q, Closed(Q), Replaced(rep, Q),
         NEW rep2, NEW Q2, Q \subseteq Q2, Extends(rep2, rep),
         Replaces(rep2, Q2),
         \A p \in DOMAIN rep2 \ DOMAIN rep : \A s \in Promotable :
           Reads(code[p[1]][p[2]], s) =>
             /\ IsVersion(rep2[p], rep, p[1], p[2] - 1, s) /\ Seen(Q, p[1], p[2] - 1)
             /\ Available(rep2[p], p[1], p[2] - 1)
  PROVE  Replaced(rep2, Q2)
<1> SUFFICES ASSUME NEW p \in DOMAIN rep2, NEW s \in Promotable, Reads(code[p[1]][p[2]], s)
             PROVE  IsVersion(rep2[p], rep2, p[1], p[2] - 1, s) /\ Available(rep2[p], p[1], p[2] - 1)
  BY DEF Replaced
<1>1. Replaces(rep, Q) /\ DOMAIN rep = {q \in Q : Promoted(q)}
  BY DEF Replaced, Replaces
<1>2. /\ IsVersion(rep2[p], rep, p[1], p[2] - 1, s) /\ Seen(Q, p[1], p[2] - 1)
      /\ Available(rep2[p], p[1], p[2] - 1)
  <2>1. CASE p \in DOMAIN rep
    <3>1. p \in Q /\ rep2[p] = rep[p]
      BY <1>1, <2>1 DEF Extends
    <3> QED
      BY <2>1, <3>1 DEF Replaced, Closed
  <2>2. CASE p \notin DOMAIN rep
    BY <2>2
  <2> QED
    BY <2>1, <2>2
<1> QED
  BY <1>1, <1>2, VersionKept

-----------------------------------------------------------------------------
(* rename goes through block b.  The blocks D have been gone through; they *)
(* contain the dominators of each of them, and those of b but for b.       *)

Reps == UNION {[T -> Registers] : T \in SUBSET Points}
RenStates == [versions : [Promotable -> Seq(Registers)], replaced : Reps, ok : BOOLEAN]

Upward(D) == D \subseteq Blocks /\ \A d \in D : Dominators(succ, d) \subseteq D
Visit(D, b) == b \in Blocks /\ Upward(D) /\ StrictDominators(succ, b) \subseteq D
Passed(D, b, k) == {p \in Points : p[1] \in D \/ (p[1] = b /\ p[2] <= k)}

\* What the state has at position k.
Current(st, D, b, k) ==
  /\ st \in RenStates /\ st.ok
  /\ Replaced(st.replaced, Passed(D, b, k))
  /\ \A s \in Promotable : Holds(st.versions[s], st.replaced, b, k, s)

\* The state after the load at position k, if there is one to replace.
AfterLoading(st2, st, D, b, k) ==
  /\ st2 \in RenStates /\ st2.ok /\ st2.versions = st.versions
  /\ Replaced(st2.replaced, Passed(D, b, k)) /\ Extends(st2.replaced, st.replaced)

LEMMA PointFacts ==
  ASSUME NEW x \in Points
  PROVE  x[1] \in Blocks /\ x[2] \in Positions(x[1]) /\ x[2] \in Nat \ {0} /\ x = <<x[1], x[2]>>
<1>1. PICK b \in Blocks : x \in {b} \X Positions(b)
  BY DEF Points
<1>2. x[2] \in Nat \ {0}
  BY <1>1 DEF Positions
<1> QED
  BY <1>1, <1>2

LEMMA UpToClosed ==
  ASSUME IsInput, NEW D, NEW b, Visit(D, b), NEW k \in Int
  PROVE  Closed(Passed(D, b, k)) /\ Seen(Passed(D, b, k), b, k)
<1>1. Seen(Passed(D, b, k), b, k)
  BY DEF Seen, Passed, Visit, StrictDominators
<1>2. ASSUME NEW p \in Passed(D, b, k) PROVE Seen(Passed(D, b, k), p[1], p[2] - 1)
  <2> SUFFICES ASSUME NEW x \in Points, x[1] \in Dominators(succ, p[1]),
                      x[1] = p[1] => x[2] <= p[2] - 1
               PROVE  x \in Passed(D, b, k)
    BY DEF Seen
  <2>1. p \in Points /\ p[2] \in Nat /\ x[2] \in Nat
    BY PointFacts DEF Passed
  <2>2. CASE p[1] \in D
    BY <2>2 DEF Passed, Visit, Upward
  <2>3. CASE p[1] = b /\ p[2] <= k /\ x[1] = b
    BY <2>1, <2>3 DEF Passed
  <2>4. CASE p[1] = b /\ x[1] # b
    BY <2>4 DEF Passed, Visit, StrictDominators
  <2> QED
    BY <2>2, <2>3, <2>4 DEF Passed
<1> QED
  BY <1>1, <1>2 DEF Closed, Passed

LEMMA OneMore ==
  ASSUME NEW D, NEW b, NEW k \in Int
  PROVE  /\ Passed(D, b, k - 1) \subseteq Passed(D, b, k)
         /\ Passed(D, b, k) \subseteq Passed(D, b, k - 1) \cup {<<b, k>>}
<1>1. ASSUME NEW p \in Points PROVE p[2] <= k - 1 => p[2] <= k
  BY PointFacts
<1>2. ASSUME NEW p \in Points, p[1] = b, p[2] <= k, p # <<b, k>> PROVE p[2] <= k - 1
  BY <1>2, PointFacts
<1> QED
  BY <1>1, <1>2 DEF Passed

LEMMA NothingToReplace ==
  ASSUME NEW D, NEW b, NEW k \in Int, ~Promoted(<<b, k>>),
         NEW rep, Replaced(rep, Passed(D, b, k - 1))
  PROVE  Replaced(rep, Passed(D, b, k))
<1>1. {p \in Passed(D, b, k) : Promoted(p)} = {p \in Passed(D, b, k - 1) : Promoted(p)}
  BY OneMore
<1> QED
  BY <1>1 DEF Replaced, Replaces

LEMMA RegisterTypes ==
  ASSUME IsInput, NEW b \in Blocks
  PROVE  /\ \A k \in Positions(b) : Def(b, k) \in Registers
         /\ \A s \in Promotable : Phi(<<b, s>>) \in Registers
<1>1. ASSUME NEW k \in Positions(b) PROVE Def(b, k) \in Registers
  <2>1. <<b, k>> \in Points /\ <<b, k>>[1] = b /\ <<b, k>>[2] = k
    BY InputFacts
  <2> QED
    BY <2>1 DEF Registers
<1>2. ASSUME NEW s \in Promotable PROVE Phi(<<b, s>>) \in Registers
  BY DEF Registers, Promotable
<1> QED
  BY <1>1, <1>2

LEMMA Loaded ==
  ASSUME IsInput, Placed, NEW D, NEW b \in Blocks, Visit(D, b), NEW k \in Positions(b),
         NEW st, Current(st, D, b, k - 1), NEW s \in Slots, Reads(code[b][k], s)
  PROVE  AfterLoading(Load(st, <<b, k>>, s), st, D, b, k)
<1>0. k \in Int /\ k - 1 \in Int /\ <<b, k>> \in Points /\ code[b][k] \in Accesses
  BY InputFacts DEF Positions
<1>1. CASE s \notin Promotable
  <2>1. Load(st, <<b, k>>, s) = st
    BY <1>1 DEF Load
  <2>2. ~Promoted(<<b, k>>)
    BY <1>0, <1>1, AccessFacts DEF Promoted
  <2>3. Replaced(st.replaced, Passed(D, b, k))
    BY <1>0, <2>2, NothingToReplace DEF Current
  <2> QED
    BY <2>1, <2>3 DEF Current, AfterLoading, Extends
<1>2. CASE s \in Promotable
  <2> DEFINE p == <<b, k>>
             rep == st.replaced
             r == Head(st.versions[s])
             rep2 == Over(rep, One(p, r))
             Q == Passed(D, b, k - 1)
  <2>1. st \in RenStates /\ st.ok /\ Replaced(rep, Q) /\ Holds(st.versions[s], rep, b, k - 1, s)
    BY <1>2 DEF Current
  <2>2. st.versions[s] # <<>> /\ IsVersion(r, rep, b, k - 1, s)
    BY <1>2, <2>1, LoadHasVersion DEF Holds
  <2>3. r \in Registers
    BY <1>2, <2>1, <2>2 DEF RenStates
  <2>4. DOMAIN rep2 = DOMAIN rep \cup {p} /\ \A q \in DOMAIN rep : rep2[q] = rep[q]
    BY DEF Over, One
  <2>5. rep2 \in Reps
    <3>1. PICK T \in SUBSET Points : rep \in [T -> Registers]
      BY <2>1 DEF RenStates, Reps
    <3>2. rep2 \in [T \cup {p} -> Registers]
      BY <2>3, <3>1 DEF Over, One
    <3> QED
      BY <1>0, <3>1, <3>2 DEF Reps
  <2>6. Load(st, p, s) = [st EXCEPT !.replaced = rep2]
    BY <1>2, <2>2 DEF Load
  <2>7. /\ Load(st, p, s) \in RenStates /\ Load(st, p, s).ok
        /\ Load(st, p, s).versions = st.versions /\ Load(st, p, s).replaced = rep2
    BY <2>1, <2>5, <2>6 DEF RenStates
  <2>8. Extends(rep2, rep)
    BY <2>4 DEF Extends
  <2>9. Q \subseteq Passed(D, b, k) /\ Closed(Q) /\ Seen(Q, b, k - 1)
    BY <1>0, OneMore, UpToClosed
  <2>10. Replaces(rep2, Passed(D, b, k))
    <3>1. DOMAIN rep = {q \in Q : Promoted(q)}
      BY <2>1 DEF Replaced, Replaces
    <3>2. Promoted(p) /\ p \in Passed(D, b, k)
      BY <1>0, <1>2 DEF Promoted, Passed
    <3>3. Passed(D, b, k) \subseteq Q \cup {p}
      BY <1>0, OneMore
    <3> HIDE DEF p, rep, rep2, Q
    <3> QED
      BY <2>4, <2>9, <3>1, <3>2, <3>3 DEF Replaces
  <2>11. Available(r, b, k - 1)
    <3>1. PICK x \in Before(b, k - 1, s) : r = Operand(rep, x, s)
      BY <2>2 DEF IsVersion
    <3> HIDE DEF r, rep, Q
    <3> QED
      BY <1>0, <1>2, <2>1, <2>9, <3>1, PlaceAvailable
  <2>12. ASSUME NEW q \in DOMAIN rep2 \ DOMAIN rep, NEW u \in Promotable, Reads(code[q[1]][q[2]], u)
         PROVE  /\ IsVersion(rep2[q], rep, q[1], q[2] - 1, u) /\ Seen(Q, q[1], q[2] - 1)
                /\ Available(rep2[q], q[1], q[2] - 1)
    <3>1. q = p /\ q[1] = b /\ q[2] = k
      BY <2>4, <2>12
    <3>2. u = s
      BY <1>0, <2>12, <3>1, AccessFacts
    <3>3. rep2[q] = r
      BY <2>12, <3>1 DEF Over, One
    <3> QED
      BY <2>2, <2>9, <2>11, <3>1, <3>2, <3>3
  <2>13. Replaced(rep2, Passed(D, b, k))
    <3> HIDE DEF p, rep, rep2, Q
    <3> QED
      BY <2>1, <2>8, <2>9, <2>10, <2>12, ReplaceOne
  <2> QED
    BY <2>7, <2>8, <2>13 DEF AfterLoading
<1> QED
  BY <1>1, <1>2

\* One stack lies on top of another.
OnTop(t, u) == Len(u) <= Len(t) /\ \A i \in 1..Len(u) : t[Len(t) - Len(u) + i] = u[i]

LEMMA OnTopFacts ==
  ASSUME NEW X, NEW t \in Seq(X), NEW u \in Seq(X)
  PROVE  /\ OnTop(t, t)
         /\ \A r \in X : OnTop(t, u) => OnTop(<<r>> \o t, u)
         /\ \A v \in Seq(X) : OnTop(t, u) /\ OnTop(u, v) => OnTop(t, v)
<1>1. OnTop(t, t)
  BY DEF OnTop
<1>2. ASSUME NEW r \in X, OnTop(t, u) PROVE OnTop(<<r>> \o t, u)
  <2> DEFINE w == <<r>> \o t
  <2>1. w \in Seq(X) /\ Len(w) = Len(t) + 1 /\ \A i \in 1..Len(t) : w[i + 1] = t[i]
    OBVIOUS
  <2>2. Len(t) \in Nat /\ Len(u) \in Nat /\ Len(u) <= Len(t)
    BY <1>2 DEF OnTop
  <2>3. ASSUME NEW i \in 1..Len(u) PROVE w[Len(w) - Len(u) + i] = u[i]
    <3>1. Len(t) - Len(u) + i \in 1..Len(t) /\ Len(w) - Len(u) + i = (Len(t) - Len(u) + i) + 1
      BY <2>1, <2>2
    <3>2. t[Len(t) - Len(u) + i] = u[i]
      BY <1>2 DEF OnTop
    <3> HIDE DEF w
    <3> QED
      BY <2>1, <3>1, <3>2
  <2> HIDE DEF w
  <2>4. Len(u) <= Len(w)
    BY <2>1, <2>2
  <2>5. OnTop(w, u)
    BY <2>3, <2>4 DEF OnTop
  <2> QED
    BY <2>5 DEF w
<1>3. ASSUME NEW v \in Seq(X), OnTop(t, u), OnTop(u, v) PROVE OnTop(t, v)
  <2>1. Len(t) \in Nat /\ Len(u) \in Nat /\ Len(v) \in Nat /\ Len(v) <= Len(u) /\ Len(u) <= Len(t)
    BY <1>3 DEF OnTop
  <2>2. ASSUME NEW i \in 1..Len(v) PROVE t[Len(t) - Len(v) + i] = v[i]
    <3> DEFINE j == Len(u) - Len(v) + i
    <3>1. j \in 1..Len(u) /\ Len(t) - Len(u) + j = Len(t) - Len(v) + i
      BY <2>1
    <3>2. u[j] = v[i]
      BY <1>3 DEF OnTop
    <3> HIDE DEF j
    <3>3. t[Len(t) - Len(u) + j] = u[j]
      BY <1>3, <3>1 DEF OnTop
    <3> QED
      BY <3>1, <3>2, <3>3
  <2>3. Len(v) <= Len(t)
    BY <2>1
  <2> QED
    BY <2>2, <2>3 DEF OnTop
<1> QED
  BY <1>1, <1>2, <1>3

\* Back to the lower stack: the rollback.
LEMMA TakenOff ==
  ASSUME NEW X, NEW t \in Seq(X), NEW u \in Seq(X), OnTop(t, u)
  PROVE  /\ Len(t) - Len(u) \in 0..Len(t)
         /\ SubSeq(t, 1 + (Len(t) - Len(u)), Len(t)) = u
<1>1. Len(t) \in Nat /\ Len(u) \in Nat /\ Len(u) <= Len(t)
  BY DEF OnTop
<1> DEFINE n == Len(t) - Len(u)
<1>2. n \in 0..Len(t) /\ Len(t) = n + Len(u)
  BY <1>1
<1> HIDE DEF n
<1> DEFINE v == SubSeq(t, 1 + n, Len(t))
<1>3. v = [i \in 1..Len(u) |-> t[n + i]]
  <2>1. v \in Seq(X) /\ Len(v) = Len(u) /\ \A i \in 1..Len(u) : v[i] = t[n + i]
    BY <1>1, <1>2
  <2> HIDE DEF v
  <2> QED
    BY <2>1
<1>4. \A i \in 1..Len(u) : t[n + i] = u[i]
  BY DEF OnTop, n
<1>5. u = [i \in 1..Len(u) |-> u[i]]
  OBVIOUS
<1>6. v = u
  BY <1>3, <1>4, <1>5
<1> QED
  BY <1>2, <1>6 DEF n

LEMMA HoldsOn ==
  ASSUME IsInput, Placed, NEW D, NEW b \in Blocks, Visit(D, b), NEW k \in Positions(b),
         NEW st, Current(st, D, b, k - 1), NEW st2, AfterLoading(st2, st, D, b, k),
         NEW s \in Promotable, ~Writes(code[b][k], s)
  PROVE  Holds(st2.versions[s], st2.replaced, b, k, s)
<1>0. k \in Int /\ k - 1 \in Int
  BY InputFacts DEF Positions
<1>1. Before(b, k, s) = Before(b, k - 1, s)
  BY Unwritten
<1>2. st2.versions = st.versions /\ Holds(st.versions[s], st.replaced, b, k - 1, s)
  BY DEF Current, AfterLoading
<1>3. CASE st.versions[s] = <<>>
  BY <1>1, <1>2, <1>3 DEF Holds
<1>4. CASE st.versions[s] # <<>>
  <2> DEFINE r == Head(st.versions[s])
  <2>1. IsVersion(r, st.replaced, b, k - 1, s)
    BY <1>2, <1>4 DEF Holds
  <2>2. /\ Replaces(st.replaced, Passed(D, b, k - 1)) /\ Replaces(st2.replaced, Passed(D, b, k))
        /\ Extends(st2.replaced, st.replaced)
    BY DEF Current, AfterLoading, Replaced
  <2>3. Passed(D, b, k - 1) \subseteq Passed(D, b, k) /\ Seen(Passed(D, b, k - 1), b, k - 1)
    BY <1>0, OneMore, UpToClosed
  <2> HIDE DEF r
  <2>4. IsVersion(r, st2.replaced, b, k - 1, s)
    BY <2>1, <2>2, <2>3, VersionKept
  <2>5. IsVersion(r, st2.replaced, b, k, s)
    BY <1>1, <2>4 DEF IsVersion
  <2> QED
    BY <1>2, <1>4, <2>5 DEF Holds, r
<1> QED
  BY <1>3, <1>4

\* What an access does to the state.
Progress(st2, st, D, b, k) ==
  /\ Current(st2, D, b, k)
  /\ Extends(st2.replaced, st.replaced)
  /\ \A s \in Promotable : OnTop(st2.versions[s], st.versions[s])

LEMMA NotWritten ==
  ASSUME IsInput, Placed, NEW D, NEW b \in Blocks, Visit(D, b), NEW k \in Positions(b),
         NEW st, Current(st, D, b, k - 1), NEW st2, AfterLoading(st2, st, D, b, k),
         \A s \in Promotable : ~Writes(code[b][k], s)
  PROVE  Progress(st2, st, D, b, k)
<1>1. \A s \in Promotable : Holds(st2.versions[s], st2.replaced, b, k, s)
  BY HoldsOn
<1>2. \A s \in Promotable : OnTop(st2.versions[s], st.versions[s])
  BY OnTopFacts DEF AfterLoading, RenStates
<1> QED
  BY <1>1, <1>2 DEF Progress, Current, AfterLoading

LEMMA Written ==
  ASSUME IsInput, Placed, NEW D, NEW b \in Blocks, Visit(D, b), NEW k \in Positions(b),
         NEW st, Current(st, D, b, k - 1), NEW st2, AfterLoading(st2, st, D, b, k),
         NEW u \in Promotable, Writes(code[b][k], u)
  PROVE  Progress(Push(st2, u, CheckUse(st2, <<b, k>>)), st, D, b, k)
<1> DEFINE p == <<b, k>>
           r == CheckUse(st2, p)
           st3 == Push(st2, u, r)
<1>1. st2 \in RenStates /\ st2.ok /\ st2.versions = st.versions
  BY DEF AfterLoading
<1>2. r \in Registers
  <2>1. PICK T \in SUBSET Points : st2.replaced \in [T -> Registers]
    BY <1>1 DEF RenStates, Reps
  <2>2. Def(b, k) \in Registers
    BY RegisterTypes
  <2> QED
    BY <2>1, <2>2 DEF CheckUse
<1>3. st2.versions \in [Promotable -> Seq(Registers)]
  BY <1>1 DEF RenStates
<1>4. /\ st3.replaced = st2.replaced /\ st3.ok
      /\ st3.versions = [st2.versions EXCEPT ![u] = <<r>> \o @]
      /\ st3 \in RenStates
  <2>1. st3 = [st2 EXCEPT !.versions[u] = <<r>> \o @]
    BY DEF Push
  <2>2. <<r>> \o st2.versions[u] \in Seq(Registers)
    BY <1>2, <1>3
  <2>3. st3 = [versions |-> [st2.versions EXCEPT ![u] = <<r>> \o @],
               replaced |-> st2.replaced, ok |-> st2.ok]
    BY <1>1, <2>1 DEF RenStates
  <2> HIDE DEF st3, r
  <2>4. [st2.versions EXCEPT ![u] = <<r>> \o @] \in [Promotable -> Seq(Registers)]
    BY <1>3, <2>2
  <2>5. st2.replaced \in Reps /\ st2.ok \in BOOLEAN
    BY <1>1 DEF RenStates
  <2> QED
    BY <1>1, <2>3, <2>4, <2>5 DEF RenStates
<1>5. Holds(st3.versions[u], st3.replaced, b, k, u)
  <2>1. st3.versions[u] = <<r>> \o st2.versions[u]
    BY <1>3, <1>4
  <2>2. st3.versions[u] # <<>> /\ Head(st3.versions[u]) = r
    <3>1. st2.versions[u] \in Seq(Registers)
      BY <1>3
    <3> HIDE DEF r, st3
    <3>2. <<r>> \o st2.versions[u] # <<>> /\ Head(<<r>> \o st2.versions[u]) = r
      BY <1>2, <3>1
    <3> QED
      BY <2>1, <3>2
  <2>3. p \in Places(u) /\ p \in Before(b, k, u)
    <3>1. k <= k
      BY InputFacts DEF Positions
    <3> QED
      BY <3>1, InputFacts DEF Places, Before
  <2>4. IsLast(p, Before(b, k, u))
    BY <2>3, Newest
  <2>5. r = Operand(st3.replaced, p, u)
    <3>1. k # 0
      BY InputFacts DEF Positions
    <3> QED
      BY <1>4, <3>1 DEF Operand, CheckUse
  <2> HIDE DEF r, p, st3
  <2>6. IsVersion(r, st3.replaced, b, k, u)
    BY <2>3, <2>4, <2>5 DEF IsVersion
  <2> QED
    BY <2>2, <2>6 DEF Holds
<1>6. ASSUME NEW s \in Promotable, s # u
      PROVE  Holds(st3.versions[s], st3.replaced, b, k, s)
  <2>1. ~Writes(code[b][k], s)
    BY <1>6 DEF Writes
  <2>2. Holds(st2.versions[s], st2.replaced, b, k, s)
    BY <2>1, HoldsOn
  <2>3. st3.versions[s] = st2.versions[s]
    BY <1>3, <1>4, <1>6
  <2> QED
    BY <1>4, <2>2, <2>3
<1>7. ASSUME NEW s \in Promotable PROVE OnTop(st3.versions[s], st.versions[s])
  <2>1. OnTop(st2.versions[s], st2.versions[s])
    BY <1>3, OnTopFacts
  <2>2. st3.versions[s] = IF s = u THEN <<r>> \o st2.versions[s] ELSE st2.versions[s]
    BY <1>3, <1>4
  <2>3. st2.versions[s] \in Seq(Registers)
    BY <1>3
  <2> HIDE DEF r, st3
  <2>4. OnTop(<<r>> \o st2.versions[s], st2.versions[s])
    BY <1>2, <2>1, <2>3, OnTopFacts
  <2> QED
    BY <1>1, <2>1, <2>2, <2>4
<1>8. Replaced(st3.replaced, Passed(D, b, k)) /\ Extends(st3.replaced, st.replaced)
  BY <1>4 DEF AfterLoading
<1> HIDE DEF st3
<1>9. Current(st3, D, b, k)
  BY <1>4, <1>5, <1>6, <1>8 DEF Current
<1>10. Progress(st3, st, D, b, k)
  BY <1>7, <1>8, <1>9 DEF Progress
<1> QED
  BY <1>10 DEF st3, r, p

LEMMA Accessed ==
  ASSUME IsInput, Placed, NEW D, NEW b \in Blocks, Visit(D, b), NEW k \in Positions(b),
         NEW st, Current(st, D, b, k - 1)
  PROVE  Progress(Access(st, b, k), st, D, b, k)
<1> DEFINE a == code[b][k]
           p == <<b, k>>
<1>0. a \in Accesses /\ p \in Points /\ k \in Int
  BY InputFacts DEF Positions
<1>1. Promotable \subseteq Slots /\ a.slot \in Slots /\ (a.op = "copy" => a.from \in Slots)
  BY <1>0, AccessFacts DEF Promotable
<1>2. ASSUME \A s \in Promotable : ~Reads(a, s) PROVE AfterLoading(st, st, D, b, k)
  <2>1. ~Promoted(p)
    BY <1>2 DEF Promoted
  <2>2. Replaced(st.replaced, Passed(D, b, k))
    BY <1>0, <2>1, NothingToReplace DEF Current
  <2> QED
    BY <2>2 DEF AfterLoading, Current, Extends
<1>3. CASE a.op = "store" /\ a.slot \in Promotable
  <2>1. AfterLoading(st, st, D, b, k)
    BY <1>2, <1>3 DEF Reads
  <2>2. p \notin DOMAIN st.replaced
    <3>1. ~Promoted(p)
      BY <1>3 DEF Promoted, Reads
    <3> QED
      BY <3>1 DEF Current, Replaced, Replaces
  <2>3. CheckUse(st, p) = Def(b, k)
    BY <2>2 DEF CheckUse
  <2>4. Access(st, b, k) = Push(st, a.slot, CheckUse(st, p))
    BY <1>3, <2>3 DEF Access
  <2>5. Writes(a, a.slot)
    BY <1>3 DEF Writes
  <2> QED
    BY <1>3, <2>1, <2>4, <2>5, Written
<1>4. CASE a.op = "load"
  <2>1. Access(st, b, k) = Load(st, p, a.slot)
    BY <1>4 DEF Access
  <2>2. AfterLoading(Access(st, b, k), st, D, b, k)
    BY <1>1, <1>4, <2>1, Loaded DEF Reads
  <2>3. \A s \in Promotable : ~Writes(a, s)
    BY <1>4 DEF Writes
  <2> QED
    BY <2>2, <2>3, NotWritten
<1>5. CASE a.op = "copy"
  <2> DEFINE st2 == Load(st, p, a.from)
  <2>1. AfterLoading(st2, st, D, b, k)
    BY <1>1, <1>5, Loaded DEF Reads
  <2>2. CASE a.slot \in Promotable
    <3>1. Access(st, b, k) = Push(st2, a.slot, CheckUse(st2, p))
      BY <1>5, <2>2 DEF Access
    <3>2. Writes(a, a.slot)
      BY <1>5 DEF Writes
    <3> HIDE DEF st2
    <3> QED
      BY <2>1, <2>2, <3>1, <3>2, Written
  <2>3. CASE a.slot \notin Promotable
    <3>1. Access(st, b, k) = st2
      BY <1>5, <2>3 DEF Access
    <3>2. \A s \in Promotable : ~Writes(a, s)
      BY <2>3 DEF Writes
    <3> HIDE DEF st2
    <3> QED
      BY <2>1, <3>1, <3>2, NotWritten
  <2> QED
    BY <2>2, <2>3
<1>6. CASE ~(a.op = "store" /\ a.slot \in Promotable) /\ a.op # "load" /\ a.op # "copy"
  <2>1. Access(st, b, k) = st
    BY <1>6 DEF Access
  <2>2. \A s \in Promotable : ~Writes(a, s) /\ ~Reads(a, s)
    BY <1>6 DEF Writes, Reads
  <2>3. AfterLoading(st, st, D, b, k)
    BY <1>2, <2>2
  <2> QED
    BY <2>1, <2>2, <2>3, NotWritten
<1> QED
  BY <1>3, <1>4, <1>5, <1>6

\* rename is called for block b: the stacks hold the versions its dominators
\* leave, and it starts with a version for each of its phis.
Ready(D, b) ==
  /\ versions \in [Promotable -> Seq(Registers)] /\ replaced \in Reps
  /\ Replaced(replaced, PointsOf(D))
  /\ \A s \in Promotable : Holds(versions[s], replaced, b, -1, s)
Called == [versions |-> versions, replaced |-> replaced]
Start(b) ==
  [versions |-> [s \in Promotable |->
     IF <<b, s>> \in phis THEN <<Phi(<<b, s>>)>> \o versions[s] ELSE versions[s]],
   replaced |-> replaced, ok |-> TRUE]

LEMMA Begun ==
  ASSUME IsInput, Placed, NEW D, NEW b \in Blocks, Visit(D, b), Ready(D, b)
  PROVE  Progress(Start(b), Called, D, b, 0)
<1> DEFINE st == Start(b)
<1>1. /\ st.ok /\ st.replaced = replaced /\ Called.versions = versions /\ Called.replaced = replaced
      /\ \A s \in Promotable : st.versions[s] =
           IF <<b, s>> \in phis THEN <<Phi(<<b, s>>)>> \o versions[s] ELSE versions[s]
  BY DEF Start, Called
<1>2. ASSUME NEW s \in Promotable
      PROVE  /\ versions[s] \in Seq(Registers) /\ st.versions[s] \in Seq(Registers)
             /\ OnTop(st.versions[s], versions[s]) /\ Holds(st.versions[s], replaced, b, 0, s)
  <2>1. versions[s] \in Seq(Registers) /\ Phi(<<b, s>>) \in Registers
    BY RegisterTypes DEF Ready
  <2>2. CASE <<b, s>> \in phis
    <3> DEFINE r == Phi(<<b, s>>)
    <3>1. st.versions[s] = <<r>> \o versions[s]
      BY <1>1, <2>2
    <3>2. OnTop(<<r>> \o versions[s], versions[s])
      BY <2>1, OnTopFacts
    <3>3. <<b, 0>> \in Places(s)
      BY <2>2 DEF Places
    <3>4. IsLast(<<b, 0>>, Before(b, 0, s)) /\ <<b, 0>> \in Before(b, 0, s)
      BY <3>3, Newest DEF IsLast
    <3>5. r = Operand(replaced, <<b, 0>>, s)
      BY DEF Operand
    <3>6. IsVersion(r, replaced, b, 0, s)
      BY <3>4, <3>5 DEF IsVersion
    <3> HIDE DEF r, st
    <3>7. /\ <<r>> \o versions[s] \in Seq(Registers) /\ <<r>> \o versions[s] # <<>>
          /\ Head(<<r>> \o versions[s]) = r
      BY <2>1 DEF r
    <3> QED
      BY <2>1, <3>1, <3>2, <3>6, <3>7 DEF Holds
  <2>3. CASE <<b, s>> \notin phis
    <3>1. st.versions[s] = versions[s]
      BY <1>1, <2>3
    <3>2. Before(b, 0, s) = Before(b, -1, s)
      BY <2>3, Unjoined
    <3>3. Holds(versions[s], replaced, b, 0, s)
      BY <3>2 DEF Ready, Holds, IsVersion
    <3> QED
      BY <2>1, <3>1, <3>3, OnTopFacts
  <2> QED
    BY <2>2, <2>3
<1>3. st \in RenStates
  <2> DEFINE v == st.versions
  <2>1. v \in [Promotable -> Seq(Registers)]
    <3>1. \A s \in Promotable : st.versions[s] \in Seq(Registers)
      BY <1>2
    <3> QED
      BY <3>1 DEF Start
  <2>2. replaced \in Reps
    BY DEF Ready
  <2>3. st = [versions |-> v, replaced |-> replaced, ok |-> TRUE]
    BY DEF Start
  <2> HIDE DEF st, v
  <2> QED
    BY <2>1, <2>2, <2>3 DEF RenStates
<1>4. Passed(D, b, 0) = PointsOf(D)
  BY PointFacts DEF Passed, PointsOf
<1> HIDE DEF st
<1>5. Current(st, D, b, 0)
  BY <1>1, <1>2, <1>3, <1>4 DEF Current, Ready
<1>6. Progress(st, Called, D, b, 0)
  BY <1>1, <1>2, <1>5 DEF Progress, Extends
<1> QED
  BY <1>6 DEF st

LEMMA GoesOn ==
  ASSUME NEW D, NEW b, NEW st3, NEW k3, NEW st2, NEW k2, NEW st,
         Progress(st3, st2, D, b, k3), Progress(st2, st, D, b, k2),
         \A s \in Promotable : st.versions[s] \in Seq(Registers)
  PROVE  Progress(st3, st, D, b, k3)
<1>1. Extends(st3.replaced, st.replaced)
  BY DEF Progress, Extends
<1>2. ASSUME NEW s \in Promotable PROVE OnTop(st3.versions[s], st.versions[s])
  <2>1. st3.versions[s] \in Seq(Registers) /\ st2.versions[s] \in Seq(Registers)
    BY DEF Progress, Current, RenStates
  <2>2. OnTop(st3.versions[s], st2.versions[s]) /\ OnTop(st2.versions[s], st.versions[s])
    BY DEF Progress
  <2> QED
    BY <2>1, <2>2, OnTopFacts
<1> QED
  BY <1>1, <1>2 DEF Progress

LEMMA RenamedBlock ==
  ASSUME IsInput, Placed, NEW D, NEW b \in Blocks, Visit(D, b), Ready(D, b)
  PROVE  Progress(Renamed(b), Called, D, b, Len(code[b]))
<1> DEFINE N == Len(code[b])
           start == Start(b)
           Good(st, k) == Progress(st, Called, D, b, k)
           step == [k \in 1..N |-> [st \in RenStates |->
                      IF Access(st, b, k) \in RenStates THEN Access(st, b, k) ELSE st]]
           upTo[k \in 0..N] ==
             IF k = 0 THEN start ELSE LET st == upTo[k - 1] IN Access(st, b, k)
<1>1. N \in Nat /\ Positions(b) = 1..N
  BY InputFacts DEF Positions
<1>2. Good(start, 0)
  BY Begun
<1>3. ASSUME NEW st, NEW k \in 1..N, Good(st, k - 1) PROVE Good(Access(st, b, k), k)
  <2>1. Progress(Access(st, b, k), st, D, b, k)
    BY <1>1, <1>3, Accessed DEF Progress
  <2>2. \A s \in Promotable : Called.versions[s] \in Seq(Registers)
    BY DEF Called, Ready
  <2> QED
    BY <1>3, <2>1, <2>2, GoesOn
<1>4. \A st, k : Good(st, k) => st \in RenStates
  BY DEF Progress, Current
<1>5. Renamed(b) = upTo[N]
  BY DEF Renamed, Start
<1> HIDE DEF start, N, Good
<1>6. \E f : IsRecursion(f, N, RenStates, start, step)
  <2>1. start \in RenStates
    BY <1>2, <1>4
  <2>2. step \in Steps(N, RenStates)
    BY DEF Steps
  <2> HIDE DEF step
  <2> QED
    BY <1>1, <2>1, <2>2, Recursion
<1>7. PICK f : IsRecursion(f, N, RenStates, start, step)
  BY <1>6
<1>8. \A k \in 0..N : Good(f[k], k)
  <2> DEFINE E == {k \in 0..N : Good(f[k], k)}
  <2>1. 0 \in E
    BY <1>1, <1>2, <1>7 DEF IsRecursion
  <2>2. ASSUME NEW k \in 0..N - 1, k \in E PROVE k + 1 \in E
    <3>1. k + 1 \in 1..N /\ (k + 1) - 1 = k
      BY <1>1
    <3>2. Good(f[k], k)
      BY <2>2
    <3>3. Good(Access(f[k], b, k + 1), k + 1)
      BY <1>3, <3>1, <3>2
    <3>4. f[k + 1] = step[k + 1][f[k]]
      BY <1>7, <3>1 DEF IsRecursion
    <3>5. f[k + 1] = Access(f[k], b, k + 1)
      BY <1>4, <3>1, <3>2, <3>3, <3>4
    <3> QED
      BY <1>1, <3>1, <3>3, <3>5
  <2>3. \A k \in 0..N : k \in E
    <3> HIDE DEF E
    <3> QED
      BY <1>1, <2>1, <2>2, AllUpTo
  <2> QED
    BY <2>3
<1>9. f = [k \in 0..N |-> IF k = 0 THEN start ELSE LET st == f[k - 1] IN Access(st, b, k)]
  <2>1. f \in [0..N -> RenStates] /\ f[0] = start
    BY <1>7 DEF IsRecursion
  <2>2. ASSUME NEW k \in 1..N PROVE f[k] = Access(f[k - 1], b, k)
    <3>1. k - 1 \in 0..N /\ Good(f[k - 1], k - 1)
      BY <1>1, <1>8
    <3>2. Good(Access(f[k - 1], b, k), k)
      BY <1>3, <3>1
    <3>3. f[k] = step[k][f[k - 1]]
      BY <1>7 DEF IsRecursion
    <3> QED
      BY <1>4, <3>1, <3>2, <3>3
  <2>3. \A k \in 0..N : k = 0 \/ k \in 1..N
    BY <1>1
  <2> QED
    BY <2>1, <2>2, <2>3
<1>10. upTo = [k \in 0..N |-> IF k = 0 THEN start ELSE LET st == upTo[k - 1] IN Access(st, b, k)]
  BY <1>9
<1>11. \A k \in 0..N : Good(upTo[k], k)
  <2> DEFINE E == {k \in 0..N : Good(upTo[k], k)}
  <2> HIDE DEF upTo
  <2>1. 0 \in E
    BY <1>1, <1>2, <1>10
  <2>2. ASSUME NEW k \in 0..N - 1, k \in E PROVE k + 1 \in E
    <3>1. k + 1 \in 1..N /\ k + 1 \in 0..N /\ (k + 1) - 1 = k /\ k + 1 # 0
      BY <1>1
    <3>2. upTo[k + 1] = Access(upTo[k], b, k + 1)
      BY <1>10, <3>1
    <3> QED
      BY <1>3, <2>2, <3>1, <3>2
  <2>3. \A k \in 0..N : k \in E
    <3> HIDE DEF E
    <3> QED
      BY <1>1, <2>1, <2>2, AllUpTo
  <2> QED
    BY <2>3
<1>12. Good(Renamed(b), N)
  BY <1>1, <1>5, <1>11
<1> QED
  BY <1>12 DEF Good, N

LEMMA AllSeen ==
  ASSUME IsInput, NEW D, Upward(D), NEW b \in D, NEW k
  PROVE  Seen(PointsOf(D), b, k)
  BY DEF Seen, PointsOf, Upward

LEMMA WholeBlock ==
  ASSUME IsInput, NEW D, NEW b \in Blocks
  PROVE  Passed(D, b, Len(code[b])) = PointsOf(D \cup {b})
<1>1. ASSUME NEW p \in Points, p[1] = b PROVE p[2] <= Len(code[b])
  BY <1>1, PointFacts, InputFacts DEF Positions
<1> QED
  BY <1>1 DEF Passed, PointsOf

\* The stack of a slot is empty where no place comes before.
LEMMA EmptyStack ==
  ASSUME NEW stack, NEW rep, NEW b, NEW k, NEW s, Holds(stack, rep, b, k, s)
  PROVE  stack = <<>> <=> Before(b, k, s) = {}
  BY DEF Holds, IsVersion

LEMMA JoinedMore ==
  ASSUME IsInput, Placed, NEW D, NEW b \in Blocks, Visit(D, b), Ready(D, b),
         Joined(incoming, replaced, D), NEW st, Progress(st, Called, D, b, Len(code[b]))
  PROVE  Joined(WithOperands(b, st), st.replaced, D \cup {b})
<1> DEFINE inc == WithOperands(b, st)
           D2 == D \cup {b}
<1>1. /\ Replaces(replaced, PointsOf(D)) /\ Replaces(st.replaced, PointsOf(D2))
      /\ Extends(st.replaced, replaced) /\ PointsOf(D) \subseteq PointsOf(D2)
  <2>1. Replaced(st.replaced, PointsOf(D2)) /\ Extends(st.replaced, replaced)
    BY WholeBlock DEF Progress, Current, Called
  <2>2. PointsOf(D) \subseteq PointsOf(D2)
    BY DEF PointsOf
  <2> QED
    BY <2>1, <2>2 DEF Ready, Replaced
<1>2. DOMAIN inc = phis
  BY DEF WithOperands
<1>3. ASSUME NEW n \in phis
      PROVE  /\ DOMAIN inc[n] = Joining(D2, n)
             /\ \A d \in Joining(D2, n) : IsVersion(inc[n][d], st.replaced, d, Len(code[d]), n[2])
  <2> DEFINE s == n[2]
             r == Head(st.versions[s])
             Adds == n[1] \in succ[b] /\ Before(b, Len(code[b]), s) # {}
  <2>1. s \in Promotable /\ n \in phis
    BY DEF Placed
  <2>2. Holds(st.versions[s], st.replaced, b, Len(code[b]), s)
    BY <2>1 DEF Progress, Current
  <2>3. inc[n] = IF Adds /\ b \notin DOMAIN incoming[n]
                 THEN Over(incoming[n], One(b, r)) ELSE incoming[n]
    BY <2>2, EmptyStack DEF WithOperands
  <2>4. DOMAIN incoming[n] = Joining(D, n)
    BY DEF Joined
  <2>5. Joining(D2, n) = IF Adds THEN Joining(D, n) \cup {b} ELSE Joining(D, n)
    BY DEF Joining
  <2>6. ASSUME NEW d \in Joining(D, n)
        PROVE  IsVersion(incoming[n][d], st.replaced, d, Len(code[d]), s)
    <3>1. IsVersion(incoming[n][d], replaced, d, Len(code[d]), s)
      BY DEF Joined
    <3>2. Seen(PointsOf(D), d, Len(code[d]))
      BY AllSeen DEF Visit, Joining
    <3> HIDE DEF s, D2
    <3> QED
      BY <1>1, <3>1, <3>2, VersionKept
  <2>7. Adds => IsVersion(r, st.replaced, b, Len(code[b]), s)
    BY <2>2, EmptyStack DEF Holds
  <2> HIDE DEF Adds, r, inc, D2
  <2>8. CASE Adds /\ b \notin DOMAIN incoming[n]
    <3>1. /\ DOMAIN inc[n] = DOMAIN incoming[n] \cup {b} /\ inc[n][b] = r
          /\ \A d \in DOMAIN incoming[n] : inc[n][d] = incoming[n][d]
      BY <2>3, <2>8 DEF Over, One
    <3> QED
      BY <2>4, <2>5, <2>6, <2>7, <2>8, <3>1
  <2>9. CASE ~(Adds /\ b \notin DOMAIN incoming[n])
    <3>1. inc[n] = incoming[n]
      BY <2>3, <2>9
    <3>2. Joining(D2, n) = Joining(D, n)
      BY <2>4, <2>5, <2>9
    <3> QED
      BY <2>4, <2>6, <3>1, <3>2
  <2> QED
    BY <2>8, <2>9
<1> QED
  BY <1>2, <1>3 DEF Joined

-----------------------------------------------------------------------------
(* insert_phi_for_slot.  While a slot is being done, the blocks that       *)
(* define it and are not done are in the worklist.                         *)

Placing ==
  /\ slotsLeft \subseteq Promotable /\ work \subseteq Blocks
  /\ phis \subseteq (Blocks \ {0}) \X (Promotable \ slotsLeft)
  /\ work # {} => slot \in Promotable \ slotsLeft
  /\ \A s \in Promotable \ slotsLeft : \A b \in Blocks :
       Defines(b, s) => (b \in work /\ s = slot) \/ Done(b, s)

LEMMA FrontierFacts ==
  ASSUME IsInput, NEW b \in Blocks
  PROVE  df[b] \subseteq Blocks \ {0}
  BY InputFacts DEF IsInput, Frontier, InFrontier

LEMMA InputKept ==
  ASSUME UNCHANGED input
  PROVE  /\ IsInput' <=> IsInput
         /\ Promotable' = Promotable /\ \A s : DefBlocks(s)' = DefBlocks(s)
<1>1. UNCHANGED <<succ, code, kids, df>>
  BY DEF input
<1>2. IsInput' <=> IsInput
  BY <1>1 DEF IsInput, Children, Frontier
<1>3. Promotable' = Promotable /\ \A s : DefBlocks(s)' = DefBlocks(s)
  BY <1>1 DEF Promotable, DefBlocks, Points, Positions
<1> QED
  BY <1>2, <1>3

LEMMA PlacingStarts ==
  ASSUME IsInput, Placing, StartSlot
  PROVE  Placing'
<1>1. PICK s \in slotsLeft : slot' = s /\ slotsLeft' = slotsLeft \ {s} /\ work' = DefBlocks(s)
  BY DEF StartSlot
<1>2. work = {} /\ phis' = phis /\ UNCHANGED input
  BY DEF StartSlot
<1>3. Promotable' = Promotable /\ \A u : DefBlocks(u)' = DefBlocks(u)
  BY <1>2, InputKept
<1>4. s \in Promotable /\ DefBlocks(s) \subseteq Blocks
  BY <1>1 DEF Placing, DefBlocks
<1>5. ASSUME NEW u \in Promotable \ slotsLeft', NEW b \in Blocks, Defines(b, u)'
      PROVE  (b \in work' /\ u = slot') \/ Done(b, u)'
  <2>1. Defines(b, u) /\ df' = df
    BY <1>2, <1>3, <1>5 DEF Defines, input
  <2>2. CASE u = s
    BY <1>1, <2>1, <2>2 DEF Placing, Defines
  <2>3. CASE u # s
    <3>1. Done(b, u)
      BY <1>1, <1>2, <1>5, <2>1, <2>3 DEF Placing
    <3> QED
      BY <1>2, <2>1, <3>1 DEF Done
  <2> QED
    BY <2>2, <2>3
<1> QED
  BY <1>1, <1>2, <1>3, <1>4, <1>5 DEF Placing

LEMMA PlacingGoesOn ==
  ASSUME IsInput, Placing, PlacePhis
  PROVE  Placing'
<1> DEFINE New(b) == {c \in df[b] : <<c, slot>> \notin phis}
<1>1. PICK b \in work : /\ phis' = phis \cup (New(b) \X {slot})
                        /\ work' = (work \cup (New(b) \ DefBlocks(slot))) \ {b}
  BY DEF PlacePhis
<1>2. UNCHANGED <<slotsLeft, slot, df>> /\ UNCHANGED input
  BY DEF PlacePhis, input
<1>3. Promotable' = Promotable /\ \A u : DefBlocks(u)' = DefBlocks(u)
  BY <1>2, InputKept
<1>4. b \in Blocks /\ slot \in Promotable \ slotsLeft /\ New(b) \subseteq Blocks \ {0}
  BY FrontierFacts DEF Placing
<1>5. ASSUME NEW u \in Promotable \ slotsLeft, NEW d \in Blocks, Defines(d, u)'
      PROVE  (d \in work' /\ u = slot) \/ Done(d, u)'
  <2>1. Done(d, u) => Done(d, u)'
    BY <1>1, <1>2 DEF Done
  <2>2. CASE Defines(d, u)
    <3>1. (d \in work /\ u = slot) \/ Done(d, u)
      BY <2>2 DEF Placing
    <3>2. CASE d = b /\ u = slot
      BY <1>1, <1>2, <3>2 DEF Done
    <3> QED
      BY <1>1, <2>1, <3>1, <3>2
  <2>3. CASE ~Defines(d, u)
    <3>1. u = slot /\ d \in New(b) /\ d \notin DefBlocks(slot)
      BY <1>1, <1>3, <1>5, <2>3 DEF Defines
    <3>2. CASE d = b
      BY <1>1, <1>2, <3>1, <3>2 DEF Done
    <3>3. CASE d # b
      BY <1>1, <3>1, <3>3
    <3> QED
      BY <3>2, <3>3
  <2> QED
    BY <2>2, <2>3
<1>6. phis' \subseteq (Blocks \ {0}) \X (Promotable \ slotsLeft) /\ work' \subseteq Blocks
  BY <1>1, <1>4 DEF Placing
<1> QED
  BY <1>2, <1>3, <1>4, <1>5, <1>6 DEF Placing

LEMMA AllPlaced ==
  ASSUME Placing, work = {}, slotsLeft = {}
  PROVE  Placed
  BY DEF Placing, Placed

-----------------------------------------------------------------------------
(* The definitions mean the same after a step of the renamer and in the    *)
(* final run.                                                              *)

LEMMA MeaningKept ==
  ASSUME UNCHANGED input, UNCHANGED phis
  PROVE  /\ IsInput' <=> IsInput
         /\ Placed' <=> Placed
         /\ Promotable' = Promotable
         /\ Points' = Points
         /\ \A b, k, s : Before(b, k, s)' = Before(b, k, s)
         /\ \A D : Upward(D)' <=> Upward(D)
         /\ \A D : PointsOf(D)' = PointsOf(D)
         /\ Reps' = Reps /\ Registers' = Registers
         /\ \A rep, Q : Replaced(rep, Q)' <=> Replaced(rep, Q)
         /\ \A stack, rep, b, k, s : Holds(stack, rep, b, k, s)' <=> Holds(stack, rep, b, k, s)
         /\ \A inc, rep, D : Joined(inc, rep, D)' <=> Joined(inc, rep, D)
<1>1. UNCHANGED <<succ, code, kids, df, phis>>
  BY DEF input
<1>2. /\ IsInput' <=> IsInput
      /\ Promotable' = Promotable /\ \A s : DefBlocks(s)' = DefBlocks(s)
  BY InputKept
<1>3. Placed' <=> Placed
  BY <1>1, <1>2 DEF Placed, Defines, Done
<1>4. Points' = Points
  BY <1>1 DEF Points, Positions
<1>5. ASSUME NEW s PROVE Places(s)' = Places(s)
  BY <1>1, <1>4 DEF Places
<1>6. ASSUME NEW b, NEW k, NEW s PROVE Before(b, k, s)' = Before(b, k, s)
  BY <1>1, <1>5 DEF Before
<1>7. ASSUME NEW D PROVE (Upward(D)' <=> Upward(D)) /\ PointsOf(D)' = PointsOf(D)
  BY <1>1, <1>4 DEF Upward, PointsOf
<1>8. Registers' = Registers
  BY <1>4 DEF Registers
<1>9. Reps' = Reps
  BY <1>4, <1>8 DEF Reps
<1>10. ASSUME NEW x, NEW P PROVE IsLast(x, P)' <=> IsLast(x, P)
  BY <1>1 DEF IsLast
<1>11. ASSUME NEW r, NEW rep, NEW b, NEW k, NEW s
       PROVE  IsVersion(r, rep, b, k, s)' <=> IsVersion(r, rep, b, k, s)
  BY <1>6, <1>10 DEF IsVersion, Operand, CheckUse
<1>12. ASSUME NEW r, NEW b, NEW k PROVE Available(r, b, k)' <=> Available(r, b, k)
  BY <1>1, <1>2 DEF Available, Positions
<1>13. ASSUME NEW rep, NEW Q PROVE Replaced(rep, Q)' <=> Replaced(rep, Q)
  <2>1. \A p : Promoted(p)' <=> Promoted(p)
    BY <1>1, <1>2 DEF Promoted
  <2>2. Replaces(rep, Q)' <=> Replaces(rep, Q)
    BY <2>1 DEF Replaces
  <2> QED
    BY <1>1, <1>2, <1>11, <1>12, <2>2 DEF Replaced
<1>14. ASSUME NEW stack, NEW rep, NEW b, NEW k, NEW s
       PROVE  Holds(stack, rep, b, k, s)' <=> Holds(stack, rep, b, k, s)
  BY <1>6, <1>11 DEF Holds
<1>15. ASSUME NEW inc, NEW rep, NEW D PROVE Joined(inc, rep, D)' <=> Joined(inc, rep, D)
  <2>1. \A n : Joining(D, n)' = Joining(D, n)
    BY <1>1, <1>6 DEF Joining
  <2> QED
    BY <1>1, <1>11, <2>1 DEF Joined
<1> QED
  BY <1>2, <1>3, <1>4, <1>6, <1>7, <1>8, <1>9, <1>13, <1>14, <1>15

-----------------------------------------------------------------------------
(* SlotRenamer.  Of the calls of rename in progress, each has the stacks   *)
(* W[i] where it goes through its children.                                *)

Under(stacks, pushes) ==
  [s \in Promotable |-> SubSeq(stacks[s], 1 + pushes[s], Len(stacks[s]))]
Frames(D) == [block : D, left : SUBSET Blocks, pushes : [Promotable -> Nat]]
\* The calls of rename have come everywhere or will.
Covered(D, calls) ==
  \A b \in D : \A c \in kids[b] :
    c \in D \/ \E i \in 1..Len(calls) : calls[i].block = b /\ c \in calls[i].left
AllHold(stacks, rep, b) == \A s \in Promotable : Holds(stacks[s], rep, b, Len(code[b]), s)
Leveled(W, calls, rep) ==
  /\ W \in Seq([Promotable -> Seq(Registers)]) /\ Len(W) = Len(calls)
  /\ \A i \in 1..Len(calls) :
       calls[i].left \subseteq kids[calls[i].block] /\ AllHold(W[i], rep, calls[i].block)
  /\ \A i \in 1..Len(calls) - 1 : W[i + 1] = Under(W[i], calls[i].pushes)
Walked(D) ==
  /\ Upward(D) /\ 0 \in D
  /\ replaced \in Reps /\ Replaced(replaced, PointsOf(D)) /\ Joined(incoming, replaced, D)
Renaming(D, W) ==
  /\ Walked(D) /\ frames \in Seq(Frames(D)) /\ Covered(D, frames)
  /\ Leveled(W, frames, replaced)
  /\ frames # <<>> => versions = W[1]

\* One call of rename, down to its loop over the children.
LEMMA CallFacts ==
  ASSUME IsInput, Placed, NEW D, NEW b \in Blocks, Visit(D, b), Ready(D, b),
         Joined(incoming, replaced, D), NEW st, st = Renamed(b), NEW D2, D2 = D \cup {b},
         NEW pushes, pushes = [s \in Promotable |-> Len(st.versions[s]) - Len(versions[s])]
  PROVE  /\ st.ok /\ st.versions \in [Promotable -> Seq(Registers)] /\ st.replaced \in Reps
         /\ Upward(D2) /\ Replaced(st.replaced, PointsOf(D2))
         /\ Joined(WithOperands(b, st), st.replaced, D2)
         /\ AllHold(st.versions, st.replaced, b)
         /\ pushes \in [Promotable -> Nat] /\ versions = Under(st.versions, pushes)
         /\ \A d \in D : \A stacks : AllHold(stacks, replaced, d) => AllHold(stacks, st.replaced, d)
<1>1. Progress(st, Called, D, b, Len(code[b]))
  BY RenamedBlock
<1>2. Current(st, D, b, Len(code[b])) /\ PointsOf(D2) = Passed(D, b, Len(code[b]))
  BY <1>1, WholeBlock DEF Progress
<1>3. /\ st.ok /\ st.versions \in [Promotable -> Seq(Registers)] /\ st.replaced \in Reps
      /\ Replaced(st.replaced, PointsOf(D2)) /\ AllHold(st.versions, st.replaced, b)
  BY <1>2 DEF Current, RenStates, AllHold
<1>4. Upward(D2)
  BY DEF Upward, Visit, StrictDominators
<1>5. Joined(WithOperands(b, st), st.replaced, D2)
  BY <1>1, JoinedMore
<1>6. ASSUME NEW s \in Promotable
      PROVE  /\ pushes[s] \in Nat
             /\ SubSeq(st.versions[s], 1 + pushes[s], Len(st.versions[s])) = versions[s]
  <2> DEFINE t == st.versions[s]
             u == versions[s]
  <2>1. t \in Seq(Registers) /\ u \in Seq(Registers) /\ OnTop(t, u)
    BY <1>1, <1>3 DEF Ready, Progress, Called
  <2>2. pushes[s] = Len(t) - Len(u)
    OBVIOUS
  <2> HIDE DEF t, u
  <2>3. Len(t) - Len(u) \in 0..Len(t) /\ SubSeq(t, 1 + (Len(t) - Len(u)), Len(t)) = u
    BY <2>1, TakenOff
  <2>4. Len(t) \in Nat /\ Len(t) - Len(u) \in Nat
    BY <2>1, <2>3
  <2>5. pushes[s] \in Nat /\ SubSeq(t, 1 + pushes[s], Len(t)) = u
    BY <2>2, <2>3, <2>4
  <2> QED
    BY <2>5 DEF t, u
<1>7. pushes \in [Promotable -> Nat] /\ versions = Under(st.versions, pushes)
  <2>1. versions = [s \in Promotable |-> versions[s]]
    BY DEF Ready
  <2> QED
    BY <1>6, <2>1 DEF Under
<1>8. ASSUME NEW d \in D, NEW stacks, AllHold(stacks, replaced, d), NEW s \in Promotable
      PROVE  Holds(stacks[s], st.replaced, d, Len(code[d]), s)
  <2>1. Holds(stacks[s], replaced, d, Len(code[d]), s)
    BY <1>8 DEF AllHold
  <2>2. /\ Replaces(replaced, PointsOf(D)) /\ Replaces(st.replaced, PointsOf(D2))
        /\ PointsOf(D) \subseteq PointsOf(D2) /\ Extends(st.replaced, replaced)
    BY <1>1, <1>3 DEF Ready, Replaced, PointsOf, Progress, Called
  <2>3. Seen(PointsOf(D), d, Len(code[d]))
    BY AllSeen DEF Visit
  <2>4. \A r : IsVersion(r, replaced, d, Len(code[d]), s)
                 => IsVersion(r, st.replaced, d, Len(code[d]), s)
    BY <2>2, <2>3, VersionKept
  <2> QED
    BY <2>1, <2>4 DEF Holds
<1> QED
  BY <1>3, <1>4, <1>5, <1>7, <1>8 DEF AllHold

LEMMA RenamingKept ==
  ASSUME UNCHANGED input, UNCHANGED phis
  PROVE  /\ \A D : Frames(D)' = Frames(D)
         /\ \A D, calls : Covered(D, calls)' <=> Covered(D, calls)
         /\ \A W, calls, rep : Leveled(W, calls, rep)' <=> Leveled(W, calls, rep)
<1>1. UNCHANGED <<succ, code, kids, df, phis>>
  BY DEF input
<1>2. Promotable' = Promotable /\ Registers' = Registers
  BY MeaningKept
<1>3. ASSUME NEW D PROVE Frames(D)' = Frames(D)
  BY <1>2 DEF Frames
<1>4. ASSUME NEW D, NEW calls PROVE Covered(D, calls)' <=> Covered(D, calls)
  BY <1>1 DEF Covered
<1>5. ASSUME NEW stacks, NEW rep, NEW b PROVE AllHold(stacks, rep, b)' <=> AllHold(stacks, rep, b)
  BY <1>1, <1>2, MeaningKept DEF AllHold
<1>6. ASSUME NEW stacks, NEW pushes PROVE Under(stacks, pushes)' = Under(stacks, pushes)
  BY <1>2 DEF Under
<1>7. ASSUME NEW W, NEW calls, NEW rep PROVE Leveled(W, calls, rep)' <=> Leveled(W, calls, rep)
  BY <1>1, <1>2, <1>5, <1>6 DEF Leveled
<1> QED
  BY <1>3, <1>4, <1>7

LEMMA Entered ==
  ASSUME IsInput, Placed, RenameEntry,
         frames = <<>>, replaced = <<>>, versions = [s \in Promotable |-> <<>>],
         incoming = [n \in phis |-> <<>>]
  PROVE  pc' = "rename" /\ \E D, W : Renaming(D, W)'
<1> DEFINE st == Renamed(0)
           D == {0}
           pushes == [s \in Promotable |-> Len(st.versions[s]) - Len(versions[s])]
           call == [block |-> 0, left |-> kids[0], pushes |-> pushes]
<1>1. /\ versions' = st.versions /\ replaced' = st.replaced /\ incoming' = WithOperands(0, st)
      /\ frames' = <<call>> \o <<>> /\ pc' = IF st.ok THEN "rename" ELSE "thrown"
      /\ UNCHANGED input /\ UNCHANGED phis
  BY DEF RenameEntry, Call, placing
<1>2. 0 \in Blocks /\ Dominators(succ, 0) = {0} /\ kids[0] \subseteq Blocks
  BY InputFacts, EntryDominators, AtChild DEF IsInput, Children
<1>3. ASSUME NEW k \in {-1, 0}, NEW s \in Promotable PROVE Before(0, k, s) = {}
  <2> SUFFICES ASSUME NEW x \in Before(0, k, s) PROVE FALSE
    OBVIOUS
  <2>1. x \in Places(s) /\ x[1] = 0 /\ x[2] <= k
    BY <1>2 DEF Before
  <2>2. x[2] \in 0..Len(code[0]) /\ (x[2] = 0 => <<0, s>> \in phis)
    BY <2>1, PlaceFacts
  <2> QED
    BY <1>2, <2>1, <2>2, InputFacts DEF Placed
<1>4. Ready({}, 0) /\ Visit({}, 0)
  <2>1. versions \in [Promotable -> Seq(Registers)]
    OBVIOUS
  <2>2. replaced \in Reps
    <3>1. <<>> \in [{} -> Registers]
      OBVIOUS
    <3> QED
      BY <3>1 DEF Reps
  <2>3. Replaced(replaced, PointsOf({}))
    BY DEF Replaced, Replaces, PointsOf
  <2>4. \A s \in Promotable : Holds(versions[s], replaced, 0, -1, s)
    BY <1>3 DEF Holds
  <2>5. Visit({}, 0)
    BY <1>2 DEF Visit, Upward, StrictDominators
  <2> QED
    BY <2>1, <2>2, <2>3, <2>4, <2>5 DEF Ready
<1>5. Joined(incoming, replaced, {})
  BY DEF Joined, Joining
<1> HIDE DEF st, pushes
<1>6. /\ st.ok /\ st.versions \in [Promotable -> Seq(Registers)] /\ st.replaced \in Reps
      /\ Upward(D) /\ Replaced(st.replaced, PointsOf(D))
      /\ Joined(WithOperands(0, st), st.replaced, D)
      /\ AllHold(st.versions, st.replaced, 0) /\ pushes \in [Promotable -> Nat]
  <2>1. st = Renamed(0) /\ D = {} \cup {0}
    BY DEF st
  <2>2. pushes = [s \in Promotable |-> Len(st.versions[s]) - Len(versions[s])]
    BY DEF pushes
  <2> HIDE DEF D
  <2> QED
    BY <1>2, <1>4, <1>5, <2>1, <2>2, CallFacts
<1>0. PICK W : W = <<st.versions>>
  OBVIOUS
<1> DEFINE calls == <<call>>
<1>7. calls \in Seq(Frames(D)) /\ Len(calls) = 1 /\ calls[1] = call
  BY <1>2, <1>6 DEF Frames
<1>8. Covered(D, calls)
  <2> SUFFICES ASSUME NEW c \in kids[0]
               PROVE  \E i \in 1..Len(calls) : calls[i].block = 0 /\ c \in calls[i].left
    BY DEF Covered
  <2>1. calls[1].block = 0 /\ c \in calls[1].left /\ 1 \in 1..Len(calls)
    BY <1>7
  <2> QED
    BY <2>1
<1>9. Leveled(W, calls, st.replaced)
  <2>1. W \in Seq([Promotable -> Seq(Registers)]) /\ Len(W) = 1 /\ W[1] = st.versions
    BY <1>0, <1>6
  <2>2. \A i \in 1..1 : i = 1
    OBVIOUS
  <2>3. 1..(1 - 1) = {}
    OBVIOUS
  <2> QED
    BY <1>6, <1>7, <2>1, <2>2, <2>3 DEF Leveled
<1>10. frames' = calls
  BY <1>1
<1> HIDE DEF call, calls
<1>11. Walked(D)'
  <2>1. Upward(D)' /\ replaced' \in Reps'
    BY <1>1, <1>6, MeaningKept
  <2>2. Replaced(replaced, PointsOf(D))'
    BY <1>1, <1>6, MeaningKept
  <2>3. Joined(incoming, replaced, D)'
    BY <1>1, <1>6, MeaningKept
  <2> QED
    BY <2>1, <2>2, <2>3 DEF Walked
<1>12. Renaming(D, W)'
  <2>1. (frames \in Seq(Frames(D)))'
    BY <1>1, <1>7, <1>10, RenamingKept
  <2>2. Covered(D, frames)'
    BY <1>1, <1>8, <1>10, RenamingKept
  <2>3. Leveled(W, frames, replaced)'
    BY <1>1, <1>9, <1>10, RenamingKept
  <2>4. versions' = W[1]
    BY <1>0, <1>1
  <2> HIDE DEF D
  <2> QED
    BY <1>11, <2>1, <2>2, <2>3, <2>4 DEF Renaming
<1>13. pc' = "rename"
  BY <1>1, <1>6
<1> QED
  BY <1>12, <1>13

\* A child is called: its versions start where those of its parent end.
LEMMA ChildReady ==
  ASSUME IsInput, Placed, NEW D, NEW W, Renaming(D, W), frames # <<>>,
         NEW c \in frames[1].left
  PROVE  /\ frames[1] \in Frames(D) /\ c \in Blocks /\ c \in kids[frames[1].block]
         /\ Visit(D, c) /\ Ready(D, c)
<1> DEFINE b == frames[1].block
<1>1. frames \in Seq(Frames(D)) /\ Len(frames) \in Nat /\ 1 \in 1..Len(frames)
  BY DEF Renaming
<1>2. frames[1] \in Frames(D)
  BY <1>1
<1>3. b \in D /\ b \in Blocks
  BY <1>2 DEF Frames, Renaming, Walked, Upward
<1>4. c \in kids[b] /\ AllHold(versions, replaced, b) /\ versions \in [Promotable -> Seq(Registers)]
  BY <1>1 DEF Renaming, Leveled
<1> HIDE DEF b
<1>5. c \in Blocks /\ Dominators(succ, c) = Dominators(succ, b) \cup {c}
  BY <1>3, <1>4, AtChild
<1>6. Visit(D, c)
  BY <1>3, <1>5 DEF Visit, Renaming, Walked, Upward, StrictDominators
<1>7. \A s \in Promotable : Holds(versions[s], replaced, c, -1, s)
  <2> TAKE s \in Promotable
  <2>1. Before(c, -1, s) = Before(b, Len(code[b]), s)
    BY <1>3, <1>4, AtChild
  <2>2. Holds(versions[s], replaced, b, Len(code[b]), s)
    BY <1>4 DEF AllHold
  <2> QED
    BY <2>1, <2>2 DEF Holds, IsVersion
<1>8. Ready(D, c)
  BY <1>4, <1>7 DEF Ready, Renaming, Walked
<1> QED
  BY <1>2, <1>4, <1>5, <1>6, <1>8 DEF b

LEMMA Descended ==
  ASSUME IsInput, Placed, RenameChild, NEW D, NEW W, Renaming(D, W)
  PROVE  pc' = "rename" /\ \E D2, W2 : Renaming(D2, W2)'
<1>1. frames # <<>> /\ UNCHANGED input /\ UNCHANGED phis
  BY DEF RenameChild, placing
<1>2. frames \in Seq(Frames(D)) /\ Len(frames) \in Nat /\ 1 \in 1..Len(frames)
        /\ Head(frames) = frames[1]
  BY <1>1 DEF Renaming
<1>3. PICK c \in frames[1].left : Call(c, <<[frames[1] EXCEPT !.left = @ \ {c}]>> \o Tail(frames))
  BY <1>2 DEF RenameChild
<1>4. /\ frames[1] \in Frames(D) /\ c \in Blocks /\ c \in kids[frames[1].block]
      /\ Visit(D, c) /\ Ready(D, c) /\ Joined(incoming, replaced, D)
  BY <1>1, ChildReady DEF Renaming, Walked
<1>5. PICK st : st = Renamed(c)
  OBVIOUS
<1>6. PICK pushes : pushes = [s \in Promotable |-> Len(st.versions[s]) - Len(versions[s])]
  OBVIOUS
<1>7. PICK D2 : D2 = D \cup {c}
  OBVIOUS
<1> DEFINE top == [frames[1] EXCEPT !.left = @ \ {c}]
           call == [block |-> c, left |-> kids[c], pushes |-> pushes]
           calls == <<call>> \o (<<top>> \o Tail(frames))
<1>8. /\ versions' = st.versions /\ replaced' = st.replaced /\ incoming' = WithOperands(c, st)
      /\ frames' = calls /\ pc' = IF st.ok THEN "rename" ELSE "thrown"
  BY <1>3, <1>5, <1>6 DEF Call
<1>9. /\ st.ok /\ st.versions \in [Promotable -> Seq(Registers)] /\ st.replaced \in Reps
      /\ Upward(D2) /\ Replaced(st.replaced, PointsOf(D2))
      /\ Joined(WithOperands(c, st), st.replaced, D2)
      /\ AllHold(st.versions, st.replaced, c)
      /\ pushes \in [Promotable -> Nat] /\ versions = Under(st.versions, pushes)
      /\ \A d \in D : \A stacks : AllHold(stacks, replaced, d) => AllHold(stacks, st.replaced, d)
  BY <1>4, <1>5, <1>6, <1>7, CallFacts
<1>10. /\ top \in Frames(D) /\ top.block = frames[1].block /\ top.pushes = frames[1].pushes
       /\ top.left = frames[1].left \ {c} /\ call \in Frames(D2) /\ Frames(D) \subseteq Frames(D2)
  <2>1. kids[c] \subseteq Blocks
    BY <1>4 DEF IsInput, Children
  <2> QED
    BY <1>4, <1>7, <1>9, <2>1 DEF Frames
<1>11. PICK W2 : W2 = <<st.versions>> \o W
  OBVIOUS
<1> HIDE DEF top, call
<1>12. /\ calls \in Seq(Frames(D2)) /\ Len(calls) = Len(frames) + 1
       /\ calls[1] = call /\ calls[2] = top
       /\ \A i \in 2..Len(frames) : calls[i + 1] = frames[i]
  <2>1. frames \in Seq(Frames(D2)) /\ top \in Frames(D2) /\ call \in Frames(D2)
    BY <1>2, <1>10
  <2>2. Tail(frames) \in Seq(Frames(D2)) /\ Len(Tail(frames)) = Len(frames) - 1
        /\ \A i \in 1..Len(frames) - 1 : Tail(frames)[i] = frames[i + 1]
    BY <1>1, <2>1
  <2> DEFINE rest == <<top>> \o Tail(frames)
  <2>3. rest \in Seq(Frames(D2)) /\ Len(rest) = Len(frames) /\ rest[1] = top
        /\ \A i \in 2..Len(frames) : rest[i] = frames[i]
    <3>1. \A i \in 2..Len(frames) : rest[i] = Tail(frames)[i - 1] /\ i - 1 \in 1..Len(frames) - 1
            /\ (i - 1) + 1 = i
      BY <1>2, <2>1, <2>2
    <3> QED
      BY <1>2, <2>1, <2>2, <3>1
  <2> HIDE DEF rest
  <2>4. calls = <<call>> \o rest
    BY DEF rest
  <2>5. calls \in Seq(Frames(D2)) /\ Len(calls) = Len(frames) + 1 /\ calls[1] = call
        /\ \A i \in 1..Len(frames) : calls[i + 1] = rest[i]
    BY <1>2, <2>1, <2>3, <2>4
  <2>6. calls[2] = rest[1]
    BY <1>2, <2>5
  <2> QED
    BY <1>2, <2>3, <2>5, <2>6
<1> HIDE DEF calls
\* The old calls are one position further; only the parent's left is less.
<1>13. ASSUME NEW i \in 1..Len(frames)
       PROVE  /\ calls[i + 1].block = frames[i].block /\ calls[i + 1].pushes = frames[i].pushes
              /\ calls[i + 1].left \subseteq frames[i].left
              /\ frames[i].left \subseteq calls[i + 1].left \cup {c}
  <2>1. CASE i = 1
    BY <1>10, <1>12, <2>1
  <2>2. CASE i # 1
    <3>1. i \in 2..Len(frames)
      BY <1>2, <2>2
    <3> QED
      BY <1>12, <3>1
  <2> QED
    BY <2>1, <2>2
<1>14. Covered(D2, calls)
  <2> SUFFICES ASSUME NEW b \in D2, NEW d \in kids[b], d \notin D2
               PROVE  \E i \in 1..Len(calls) : calls[i].block = b /\ d \in calls[i].left
    BY DEF Covered
  <2>1. CASE b = c
    <3>1. calls[1].block = b /\ d \in calls[1].left /\ 1 \in 1..Len(calls)
      BY <1>2, <1>12, <2>1 DEF call
    <3> QED
      BY <3>1
  <2>2. CASE b # c
    <3>1. PICK i \in 1..Len(frames) : frames[i].block = b /\ d \in frames[i].left
      BY <1>7, <2>2 DEF Renaming, Covered
    <3>2. d # c /\ i + 1 \in 1..Len(calls)
      BY <1>2, <1>7, <1>12
    <3>3. calls[i + 1].block = b /\ d \in calls[i + 1].left
      BY <1>13, <3>1, <3>2
    <3> QED
      BY <3>2, <3>3
  <2> QED
    BY <2>1, <2>2
<1>15. Leveled(W2, calls, st.replaced)
  <2>1. W \in Seq([Promotable -> Seq(Registers)]) /\ Len(W) = Len(frames) /\ versions = W[1]
    BY <1>1 DEF Renaming, Leveled
  <2>2. /\ W2 \in Seq([Promotable -> Seq(Registers)]) /\ Len(W2) = Len(calls)
        /\ W2[1] = st.versions /\ \A i \in 1..Len(frames) : W2[i + 1] = W[i]
    BY <1>2, <1>9, <1>11, <1>12, <2>1
  <2>3. \A i \in 1..Len(calls) : i = 1 \/ (i - 1 \in 1..Len(frames) /\ (i - 1) + 1 = i)
    BY <1>2, <1>12
  <2>4. ASSUME NEW i \in 1..Len(calls)
        PROVE  calls[i].left \subseteq kids[calls[i].block]
                /\ AllHold(W2[i], st.replaced, calls[i].block)
    <3>1. CASE i = 1
      BY <1>9, <1>12, <2>2, <3>1 DEF call
    <3>2. CASE i # 1
      <4>1. PICK j \in 1..Len(frames) : i = j + 1
        BY <2>3, <3>2
      <4>2. frames[j].block \in D
        <5>1. frames[j] \in Frames(D)
          BY <1>2
        <5> QED
          BY <5>1 DEF Frames
      <4>3. frames[j].left \subseteq kids[frames[j].block] /\ AllHold(W[j], replaced, frames[j].block)
        BY DEF Renaming, Leveled
      <4>4. W2[j + 1] = W[j] /\ AllHold(W[j], st.replaced, frames[j].block)
        BY <1>9, <2>2, <4>2, <4>3
      <4> QED
        BY <1>13, <4>1, <4>3, <4>4
    <3> QED
      BY <3>1, <3>2
  <2>5. ASSUME NEW i \in 1..Len(calls) - 1 PROVE W2[i + 1] = Under(W2[i], calls[i].pushes)
    <3>1. CASE i = 1
      <4>1. 1 + 1 = 2 /\ W2[2] = versions
        BY <1>2, <2>1, <2>2
      <4> QED
        BY <1>9, <1>12, <2>2, <3>1, <4>1 DEF call
    <3>2. CASE i # 1
      <4>1. PICK j \in 1..Len(frames) - 1 : i = j + 1
        BY <1>2, <1>12, <3>2
      <4>2. j \in 1..Len(frames) /\ j + 1 \in 1..Len(frames)
        BY <1>2
      <4>3. W[j + 1] = Under(W[j], frames[j].pushes)
        BY DEF Renaming, Leveled
      <4> QED
        BY <1>13, <2>2, <4>1, <4>2, <4>3
    <3> QED
      BY <3>1, <3>2
  <2> QED
    BY <2>2, <2>4, <2>5 DEF Leveled
<1>16. Walked(D2)'
  <2>1. Upward(D2)' /\ replaced' \in Reps' /\ 0 \in D2
    BY <1>1, <1>7, <1>8, <1>9, MeaningKept DEF Renaming, Walked
  <2>2. Replaced(replaced, PointsOf(D2))' /\ Joined(incoming, replaced, D2)'
    BY <1>1, <1>8, <1>9, MeaningKept
  <2> QED
    BY <2>1, <2>2 DEF Walked
<1>17. Renaming(D2, W2)'
  <2>1. (frames \in Seq(Frames(D2)))'
    BY <1>1, <1>8, <1>12, RenamingKept
  <2>2. Covered(D2, frames)' /\ Leveled(W2, frames, replaced)'
    BY <1>1, <1>8, <1>14, <1>15, RenamingKept
  <2>3. versions' = W2[1]
    <3>1. W \in Seq([Promotable -> Seq(Registers)])
      BY DEF Renaming, Leveled
    <3> QED
      BY <1>8, <1>9, <1>11, <3>1
  <2> QED
    BY <1>16, <2>1, <2>2, <2>3 DEF Renaming
<1> QED
  BY <1>8, <1>9, <1>17

LEMMA Ascended ==
  ASSUME IsInput, Placed, Rollback, NEW D, NEW W, Renaming(D, W)
  PROVE  \E D2, W2 : Renaming(D2, W2)'
<1>1. /\ frames # <<>> /\ frames' = Tail(frames) /\ UNCHANGED <<incoming, replaced>>
      /\ UNCHANGED input /\ UNCHANGED phis
  BY DEF Rollback, placing
<1>2. frames \in Seq(Frames(D)) /\ Len(frames) \in Nat /\ 1 \in 1..Len(frames)
        /\ Head(frames) = frames[1]
  BY <1>1 DEF Renaming
<1>3. frames[1].left = {} /\ versions' = Under(versions, frames[1].pushes)
  BY <1>2 DEF Rollback, Under
<1>4. W \in Seq([Promotable -> Seq(Registers)]) /\ Len(W) = Len(frames) /\ versions = W[1]
  BY <1>1 DEF Renaming, Leveled
<1>5. PICK calls : calls = Tail(frames)
  OBVIOUS
<1>6. PICK W2 : W2 = Tail(W)
  OBVIOUS
<1>7. /\ calls \in Seq(Frames(D)) /\ Len(calls) = Len(frames) - 1
      /\ \A i \in 1..Len(calls) : calls[i] = frames[i + 1] /\ i + 1 \in 1..Len(frames)
  BY <1>1, <1>2, <1>5
<1>8. /\ W2 \in Seq([Promotable -> Seq(Registers)]) /\ Len(W2) = Len(calls)
      /\ \A i \in 1..Len(calls) : W2[i] = W[i + 1]
  <2>1. W # <<>>
    BY <1>2, <1>4
  <2> QED
    BY <1>2, <1>4, <1>6, <1>7, <2>1
<1>9. Covered(D, calls)
  <2> SUFFICES ASSUME NEW b \in D, NEW d \in kids[b], d \notin D
               PROVE  \E i \in 1..Len(calls) : calls[i].block = b /\ d \in calls[i].left
    BY DEF Covered
  <2>1. PICK i \in 1..Len(frames) : frames[i].block = b /\ d \in frames[i].left
    BY DEF Renaming, Covered
  <2>2. i # 1
    BY <1>3, <2>1
  <2>3. i - 1 \in 1..Len(calls) /\ (i - 1) + 1 = i
    BY <1>2, <1>7, <2>2
  <2>4. calls[i - 1] = frames[i]
    BY <1>7, <2>3
  <2> QED
    BY <2>1, <2>3, <2>4
<1>10. Leveled(W2, calls, replaced)
  <2>1. ASSUME NEW i \in 1..Len(calls)
        PROVE  calls[i].left \subseteq kids[calls[i].block] /\ AllHold(W2[i], replaced, calls[i].block)
    BY <1>7, <1>8 DEF Renaming, Leveled
  <2>2. ASSUME NEW i \in 1..Len(calls) - 1 PROVE W2[i + 1] = Under(W2[i], calls[i].pushes)
    <3>1. i \in 1..Len(calls) /\ i + 1 \in 1..Len(calls) /\ i + 1 \in 1..Len(frames) - 1
      BY <1>2, <1>7
    <3>2. W[(i + 1) + 1] = Under(W[i + 1], frames[i + 1].pushes)
      BY <3>1 DEF Renaming, Leveled
    <3> QED
      BY <1>7, <1>8, <3>1, <3>2
  <2> QED
    BY <1>8, <2>1, <2>2 DEF Leveled
<1>11. calls # <<>> => Under(versions, frames[1].pushes) = W2[1]
  <2> SUFFICES ASSUME calls # <<>> PROVE Under(versions, frames[1].pushes) = W2[1]
    OBVIOUS
  <2>1. 1 \in 1..Len(calls) /\ 1 \in 1..Len(frames) - 1
    BY <1>2, <1>7
  <2>2. W[1 + 1] = Under(W[1], frames[1].pushes)
    BY <2>1 DEF Renaming, Leveled
  <2> QED
    BY <1>4, <1>8, <2>1, <2>2
<1>12. Walked(D)'
  <2>1. Upward(D) /\ replaced \in Reps /\ 0 \in D /\ Replaced(replaced, PointsOf(D))
          /\ Joined(incoming, replaced, D)
    BY DEF Renaming, Walked
  <2>2. Upward(D)' /\ replaced' \in Reps'
    BY <1>1, <2>1, MeaningKept
  <2>3. Replaced(replaced, PointsOf(D))' /\ Joined(incoming, replaced, D)'
    BY <1>1, <2>1, MeaningKept
  <2> QED
    BY <2>1, <2>2, <2>3 DEF Walked
<1>13. Renaming(D, W2)'
  <2>1. (frames \in Seq(Frames(D)))'
    BY <1>1, <1>5, <1>7, RenamingKept
  <2>2. Covered(D, frames)' /\ Leveled(W2, frames, replaced)'
    BY <1>1, <1>5, <1>9, <1>10, RenamingKept
  <2>3. frames' # <<>> => versions' = W2[1]
    BY <1>1, <1>3, <1>5, <1>11
  <2> QED
    BY <1>12, <2>1, <2>2, <2>3 DEF Renaming
<1> QED
  BY <1>13

\* When the outermost call returns, every block has been gone through: the
\* immediate dominator of a block dominates its predecessors.
LEMMA EveryBlock ==
  ASSUME IsInput, NEW D, NEW W, Renaming(D, W), frames = <<>>
  PROVE  D = Blocks
<1>1. D \in SUBSET Blocks /\ 0 \in D /\ Upward(D)
  BY DEF Renaming, Walked, Upward
<1>2. ASSUME NEW p \in D, NEW q \in succ[p] PROVE q \in D
  <2>1. p \in Blocks /\ q \in Blocks /\ q # 0
    BY <1>1, InputFacts
  <2>2. IsFiniteSet(Blocks)
    BY Mem2RegAssumption, FS_Interval DEF Blocks
  <2>3. PICK a \in Blocks : IsIdom(succ, a, q)
    BY <2>1, <2>2, InputFacts, HasIdom
  <2>4. a \in Dominators(succ, p)
    BY <2>1, <2>3, InputFacts, AboveThePredecessors DEF IsIdom
  <2>5. a \in D /\ q \in kids[a]
    BY <1>1, <2>1, <2>3, <2>4 DEF Upward, IsInput, Children
  <2>6. Len(frames) = 0
    OBVIOUS
  <2> QED
    BY <2>5, <2>6 DEF Renaming, Covered
<1> QED
  BY <1>1, <1>2, InputFacts, EverythingReached

-----------------------------------------------------------------------------
(* The final run: the register of a version holds what the slot holds.     *)

Values == Bits \cup {Undef}
RunStates ==
  [mem : [Slots -> Values], env : UNION {[T -> Values] : T \in SUBSET Registers},
   loads : SUBSET (Values \X Values)]
\* What the state has at position k.
Right(st, b, k) ==
  /\ st \in RunStates
  /\ \A s \in Promotable : Agrees(st.mem, st.env, b, k, s)
  /\ \A l \in st.loads : l[1] = l[2]
Rewritten == Replaced(replaced, Points) /\ replaced \in Reps

LEMMA OneLast ==
  ASSUME IsInput, Placed, NEW b \in Blocks, NEW k, NEW s, NEW x, NEW y,
         IsLast(x, Before(b, k, s)), IsLast(y, Before(b, k, s))
  PROVE  x = y
<1>1. x \in Places(s) /\ y \in Places(s)
  BY DEF IsLast, Before
<1>2. /\ x[1] \in Blocks /\ x[2] \in 0..Len(code[x[1]]) /\ x = <<x[1], x[2]>>
      /\ y[1] \in Blocks /\ y[2] \in 0..Len(code[y[1]]) /\ y = <<y[1], y[2]>>
  BY <1>1, PlaceFacts
<1>3. /\ y[1] \in StrictDominators(succ, x[1]) \/ (y[1] = x[1] /\ y[2] <= x[2])
      /\ x[1] \in StrictDominators(succ, y[1]) \/ (x[1] = y[1] /\ x[2] <= y[2])
  BY DEF IsLast
<1>4. x[1] = y[1]
  BY <1>2, <1>3, InputFacts, Antisymmetric DEF StrictDominators
<1>5. x[2] = y[2]
  BY <1>2, <1>3, <1>4, InputFacts DEF StrictDominators
<1> QED
  BY <1>2, <1>4, <1>5

\* A version's register holds what the slot holds.
LEMMA VersionHolds ==
  ASSUME IsInput, Placed, NEW b \in Blocks, NEW k, NEW s, NEW m, NEW e,
         Agrees(m, e, b, k, s), NEW r, IsVersion(r, replaced, b, k, s)
  PROVE  RegisterOf(e, r) = m[s]
<1>1. PICK x \in Before(b, k, s) : IsLast(x, Before(b, k, s)) /\ r = Operand(replaced, x, s)
  BY DEF IsVersion
<1>2. PICK y \in Before(b, k, s) :
        IsLast(y, Before(b, k, s)) /\ RegisterOf(e, Operand(replaced, y, s)) = m[s]
  BY <1>1 DEF Agrees
<1>3. x = y
  BY <1>1, <1>2, OneLast
<1> QED
  BY <1>1, <1>2, <1>3

LEMMA EverythingSeen ==
  ASSUME IsInput, NEW b, NEW k
  PROVE  Seen(Points, b, k)
  BY DEF Seen

\* What is defined before access k is not what access k defines.
LEMMA NotDefined ==
  ASSUME IsInput, NEW b \in Blocks, NEW k \in Positions(b), NEW r, Available(r, b, k - 1)
  PROVE  r # Def(b, k)
<1> SUFFICES ASSUME r = Def(b, k) PROVE FALSE
  OBVIOUS
<1>1. k \in Int
  BY InputFacts DEF Positions
<1>2. PICK c \in Dominators(succ, b) :
        \/ \E s \in Promotable : r = Phi(<<c, s>>)
        \/ \E j \in Positions(c) : r = Def(c, j) /\ (c = b => j <= k - 1)
  BY DEF Available
<1>3. \A s : r # Phi(<<c, s>>)
  BY DEF Def, Phi
<1>4. PICK j \in Positions(c) : r = Def(c, j) /\ (c = b => j <= k - 1)
  BY <1>2, <1>3
<1>5. c = b /\ j = k
  BY <1>4 DEF Def
<1> QED
  BY <1>1, <1>4, <1>5

LEMMA RegisterFacts ==
  ASSUME NEW e, NEW r, NEW v
  PROVE  /\ RegisterOf(Over(One(r, v), e), r) = v
         /\ \A q : q # r => RegisterOf(Over(One(r, v), e), q) = RegisterOf(e, q)
  BY DEF RegisterOf, Over, One

LEMMA RegisterSet ==
  ASSUME NEW e \in UNION {[T -> Values] : T \in SUBSET Registers},
         NEW r \in Registers, NEW v \in Values
  PROVE  Over(One(r, v), e) \in UNION {[T -> Values] : T \in SUBSET Registers}
<1>1. PICK T \in SUBSET Registers : e \in [T -> Values]
  OBVIOUS
<1>2. Over(One(r, v), e) \in [T \cup {r} -> Values]
  BY <1>1 DEF Over, One
<1> QED
  BY <1>1, <1>2

LEMMA RegisterType ==
  ASSUME NEW e \in UNION {[T -> Values] : T \in SUBSET Registers}, NEW r
  PROVE  RegisterOf(e, r) \in Values
  BY DEF RegisterOf, Values

\* The slots an access does not write agree as before.
LEMMA StillAgrees ==
  ASSUME IsInput, Placed, Rewritten, NEW b \in Blocks, NEW k \in Positions(b),
         NEW m, NEW e, NEW s \in Promotable, Agrees(m, e, b, k - 1, s), ~Writes(code[b][k], s),
         NEW m2, m2[s] = m[s], NEW e2,
         \A r : r # Def(b, k) => RegisterOf(e2, r) = RegisterOf(e, r)
  PROVE  Agrees(m2, e2, b, k, s)
<1>0. k - 1 \in Int
  BY InputFacts DEF Positions
<1>1. Before(b, k, s) = Before(b, k - 1, s)
  BY Unwritten
<1>2. CASE Before(b, k, s) = {}
  BY <1>1, <1>2 DEF Agrees
<1>3. CASE Before(b, k, s) # {}
  <2>1. PICK x \in Before(b, k - 1, s) :
          IsLast(x, Before(b, k - 1, s)) /\ RegisterOf(e, Operand(replaced, x, s)) = m[s]
    BY <1>1, <1>3 DEF Agrees
  <2>2. Available(Operand(replaced, x, s), b, k - 1)
    BY <1>0, EverythingSeen, PlaceAvailable DEF Rewritten
  <2>3. RegisterOf(e2, Operand(replaced, x, s)) = m2[s]
    BY <2>1, <2>2, NotDefined
  <2> QED
    BY <1>1, <2>1, <2>3 DEF Agrees
<1> QED
  BY <1>2, <1>3

\* Reading a slot: the registers defined before stay, and what is read after
\* the pass is what is in memory.
LEMMA ReadRight ==
  ASSUME IsInput, Placed, Rewritten, NEW b \in Blocks, NEW k \in Positions(b),
         NEW st, Right(st, b, k - 1), NEW s \in Slots, Reads(code[b][k], s),
         NEW st2, st2 = Read(st, b, k, s)
  PROVE  /\ st2 \in RunStates /\ st2.mem = st.mem /\ \A l \in st2.loads : l[1] = l[2]
         /\ \A r : r # Def(b, k) => RegisterOf(st2.env, r) = RegisterOf(st.env, r)
         /\ RegisterOf(st2.env, CheckUse([replaced |-> replaced], <<b, k>>)) = st.mem[s]
<1> DEFINE p == <<b, k>>
           v == st.mem[s]
           e == IF s \in Promotable THEN st.env ELSE Over(One(Def(b, k), v), st.env)
           after == RegisterOf(e, CheckUse([replaced |-> replaced], p))
<1>1. /\ st \in RunStates /\ st.mem \in [Slots -> Values] /\ v \in Values
      /\ st.env \in UNION {[T -> Values] : T \in SUBSET Registers}
      /\ st.loads \in SUBSET (Values \X Values)
      /\ st = [mem |-> st.mem, env |-> st.env, loads |-> st.loads]
  BY DEF Right, RunStates
<1>2. Def(b, k) \in Registers /\ p \in Points
  BY RegisterTypes, InputFacts
<1>3. e \in UNION {[T -> Values] : T \in SUBSET Registers}
  BY <1>1, <1>2, RegisterSet
<1>4. st2 = [mem |-> st.mem, env |-> e, loads |-> st.loads \cup {<<v, after>>}]
  <2>1. CASE s \in Promotable
    BY <1>1, <2>1 DEF Read, AfterLoad
  <2>2. CASE s \notin Promotable
    BY <1>1, <2>2 DEF Read, AfterLoad, Define
  <2> QED
    BY <2>1, <2>2
<1>5. after \in Values
  BY <1>3, RegisterType
<1>6. \A r : r # Def(b, k) => RegisterOf(e, r) = RegisterOf(st.env, r)
  BY RegisterFacts
<1>7. after = v
  <2>1. CASE s \in Promotable
    <3>1. p \in DOMAIN replaced
      BY <1>2, <2>1 DEF Rewritten, Replaced, Replaces, Promoted
    <3>2. IsVersion(replaced[p], replaced, b, k - 1, s)
      <4>1. p[1] = b /\ p[2] = k
        OBVIOUS
      <4> HIDE DEF p
      <4> QED
        BY <2>1, <3>1, <4>1 DEF Rewritten, Replaced
    <3>3. Agrees(st.mem, st.env, b, k - 1, s)
      BY <2>1 DEF Right
    <3>4. RegisterOf(st.env, replaced[p]) = v
      BY <3>2, <3>3, VersionHolds
    <3> QED
      BY <2>1, <3>1, <3>4 DEF CheckUse
  <2>2. CASE s \notin Promotable
    <3>1. p \notin DOMAIN replaced
      <4>1. ~Promoted(p)
        BY <2>2, InputFacts, AccessFacts DEF Promoted
      <4> QED
        BY <4>1 DEF Rewritten, Replaced, Replaces
    <3>2. CheckUse([replaced |-> replaced], p) = Def(b, k)
      BY <3>1 DEF CheckUse
    <3> QED
      BY <2>2, <3>2, RegisterFacts
  <2> QED
    BY <2>1, <2>2
<1> HIDE DEF v, e, after, p
<1>8. st2 \in RunStates
  BY <1>1, <1>3, <1>4, <1>5 DEF RunStates
<1>9. /\ st2.mem = st.mem /\ st2.env = e
      /\ \A l \in st2.loads : l \in st.loads \/ l = <<v, after>>
  BY <1>4
<1>10. \A l \in st2.loads : l[1] = l[2]
  BY <1>7, <1>9 DEF Right
<1>11. RegisterOf(st2.env, CheckUse([replaced |-> replaced], <<b, k>>)) = st.mem[s]
  BY <1>7, <1>9 DEF after, v, p
<1> QED
  BY <1>6, <1>8, <1>9, <1>10, <1>11

LEMMA WriteAgrees ==
  ASSUME IsInput, Placed, NEW b \in Blocks, NEW k \in Positions(b), NEW s \in Promotable,
         Writes(code[b][k], s), NEW m, NEW e,
         RegisterOf(e, CheckUse([replaced |-> replaced], <<b, k>>)) = m[s]
  PROVE  Agrees(m, e, b, k, s)
<1>1. <<b, k>> \in Places(s) /\ k # 0
  BY InputFacts DEF Places, Positions
<1>2. IsLast(<<b, k>>, Before(b, k, s)) /\ <<b, k>> \in Before(b, k, s)
  BY <1>1, Newest DEF IsLast
<1>3. Operand(replaced, <<b, k>>, s) = CheckUse([replaced |-> replaced], <<b, k>>)
  BY <1>1 DEF Operand
<1> QED
  BY <1>2, <1>3 DEF Agrees

LEMMA ExecutedRight ==
  ASSUME IsInput, Placed, Rewritten, NEW b \in Blocks, NEW k \in Positions(b),
         NEW st, Right(st, b, k - 1), NEW bits,
         code[b][k].op = "store" => bits[k] \in Bits
  PROVE  Right(Executed(st, b, k, bits), b, k)
<1> DEFINE a == code[b][k]
           p == <<b, k>>
           st2 == Executed(st, b, k, bits)
<1>0. a \in Accesses /\ p \in Points /\ a.slot \in Slots /\ (a.op = "copy" => a.from \in Slots)
  BY InputFacts, AccessFacts
<1>1. /\ st \in RunStates /\ st.mem \in [Slots -> Values]
      /\ st.env \in UNION {[T -> Values] : T \in SUBSET Registers}
      /\ st.loads \in SUBSET (Values \X Values)
      /\ st = [mem |-> st.mem, env |-> st.env, loads |-> st.loads]
      /\ \A l \in st.loads : l[1] = l[2]
      /\ \A s \in Promotable : Agrees(st.mem, st.env, b, k - 1, s)
  BY DEF Right, RunStates
<1>2. Promotable \subseteq Slots
  BY DEF Promotable
<1>3. CASE a.op = "store"
  <2> DEFINE v == bits[k]
             m == [st.mem EXCEPT ![a.slot] = v]
             e == Over(One(Def(b, k), v), st.env)
  <2>1. st2 = [mem |-> m, env |-> e, loads |-> st.loads]
    BY <1>1, <1>3 DEF Executed, Define, Write
  <2>2. v \in Values /\ Def(b, k) \in Registers
    BY <1>3, RegisterTypes DEF Values
  <2>3. m \in [Slots -> Values] /\ m[a.slot] = v /\ \A s \in Slots : s # a.slot => m[s] = st.mem[s]
    BY <1>0, <1>1, <2>2
  <2>4. e \in UNION {[T -> Values] : T \in SUBSET Registers}
    BY <1>1, <2>2, RegisterSet
  <2>5. \A r : r # Def(b, k) => RegisterOf(e, r) = RegisterOf(st.env, r)
    BY RegisterFacts
  <2>6. p \notin DOMAIN replaced
    <3>1. ~Promoted(p)
      BY <1>3 DEF Promoted, Reads
    <3> QED
      BY <3>1 DEF Rewritten, Replaced, Replaces
  <2>7. RegisterOf(e, CheckUse([replaced |-> replaced], p)) = v
    <3>1. CheckUse([replaced |-> replaced], p) = Def(b, k)
      BY <2>6 DEF CheckUse
    <3> QED
      BY <3>1, RegisterFacts
  <2> HIDE DEF m, e, v, st2
  <2>8. ASSUME NEW s \in Promotable PROVE Agrees(m, e, b, k, s)
    <3>1. CASE s = a.slot
      <4>1. Writes(a, s)
        BY <1>3, <3>1 DEF Writes
      <4> QED
        BY <2>3, <2>7, <3>1, <4>1, WriteAgrees
    <3>2. CASE s # a.slot
      <4>1. ~Writes(a, s) /\ m[s] = st.mem[s]
        BY <1>2, <2>3, <3>2 DEF Writes
      <4> QED
        BY <1>1, <2>5, <4>1, StillAgrees
    <3> QED
      BY <3>1, <3>2
  <2>9. st2 \in RunStates /\ st2.mem = m /\ st2.env = e /\ st2.loads = st.loads
    BY <1>1, <2>1, <2>3, <2>4 DEF RunStates
  <2>10. Right(st2, b, k)
    BY <1>1, <2>8, <2>9 DEF Right
  <2> QED
    BY <2>10 DEF st2
<1>4. CASE a.op = "load"
  <2>1. st2 = Read(st, b, k, a.slot) /\ Reads(a, a.slot)
    BY <1>4 DEF Executed, Reads
  <2> HIDE DEF st2
  <2>2. /\ st2 \in RunStates /\ st2.mem = st.mem /\ \A l \in st2.loads : l[1] = l[2]
        /\ \A r : r # Def(b, k) => RegisterOf(st2.env, r) = RegisterOf(st.env, r)
    BY <1>0, <2>1, ReadRight
  <2>3. ASSUME NEW s \in Promotable PROVE Agrees(st2.mem, st2.env, b, k, s)
    <3>1. ~Writes(a, s)
      BY <1>4 DEF Writes
    <3> QED
      BY <1>1, <2>2, <3>1, StillAgrees
  <2>4. Right(st2, b, k)
    BY <2>2, <2>3 DEF Right
  <2> QED
    BY <2>4 DEF st2
<1>5. CASE a.op = "copy"
  <2>1. PICK st3 : st3 = Read(st, b, k, a.from)
    OBVIOUS
  <2>2. Reads(a, a.from)
    BY <1>5 DEF Reads
  <2>3. /\ st3 \in RunStates /\ st3.mem = st.mem /\ \A l \in st3.loads : l[1] = l[2]
        /\ \A r : r # Def(b, k) => RegisterOf(st3.env, r) = RegisterOf(st.env, r)
        /\ RegisterOf(st3.env, CheckUse([replaced |-> replaced], p)) = st.mem[a.from]
    BY <1>0, <1>5, <2>1, <2>2, ReadRight
  <2> DEFINE v == st.mem[a.from]
             m == [st3.mem EXCEPT ![a.slot] = v]
  <2>4. st2 = [st3 EXCEPT !.mem[a.slot] = v]
    BY <1>5, <2>1 DEF Executed, Write
  <2>5. v \in Values /\ st3.mem \in [Slots -> Values]
    BY <1>0, <1>1, <1>5, <2>3
  <2>6. m \in [Slots -> Values] /\ m[a.slot] = v /\ \A s \in Slots : s # a.slot => m[s] = st.mem[s]
    BY <1>0, <2>3, <2>5
  <2> HIDE DEF v, st2
  <2>7. st2 = [mem |-> m, env |-> st3.env, loads |-> st3.loads]
    BY <2>3, <2>4 DEF RunStates
  <2> HIDE DEF m
  <2>8. st2 \in RunStates /\ st2.mem = m /\ st2.env = st3.env /\ st2.loads = st3.loads
    BY <2>3, <2>6, <2>7 DEF RunStates
  <2>9. ASSUME NEW s \in Promotable PROVE Agrees(m, st3.env, b, k, s)
    <3>1. CASE s = a.slot
      <4>1. Writes(a, s)
        BY <1>5, <3>1 DEF Writes
      <4>2. RegisterOf(st3.env, CheckUse([replaced |-> replaced], <<b, k>>)) = m[s]
        BY <2>3, <2>6, <3>1 DEF v
      <4> QED
        BY <4>1, <4>2, WriteAgrees
    <3>2. CASE s # a.slot
      <4>1. ~Writes(a, s) /\ m[s] = st.mem[s]
        BY <1>2, <2>6, <3>2 DEF Writes
      <4> QED
        BY <1>1, <2>3, <4>1, StillAgrees
    <3> QED
      BY <3>1, <3>2
  <2>10. Right(st2, b, k)
    BY <2>3, <2>8, <2>9 DEF Right
  <2> QED
    BY <2>10 DEF st2
<1>6. CASE a.op \notin {"store", "load", "copy"}
  <2>1. st2 = st
    BY <1>6 DEF Executed
  <2>2. ASSUME NEW s \in Promotable PROVE Agrees(st.mem, st.env, b, k, s)
    <3>1. ~Writes(a, s)
      BY <1>6 DEF Writes
    <3> QED
      BY <1>1, <3>1, StillAgrees
  <2> QED
    BY <2>1, <2>2 DEF Right
<1> QED
  BY <1>3, <1>4, <1>5, <1>6

LEMMA RanRight ==
  ASSUME IsInput, Placed, Rewritten, NEW b \in Blocks, NEW m, NEW e,
         Right([mem |-> m, env |-> e, loads |-> {}], b, 0),
         NEW bits, \A k \in Positions(b) : code[b][k].op = "store" => bits[k] \in Bits
  PROVE  Right(Ran(b, m, e, bits), b, Len(code[b]))
<1> DEFINE N == Len(code[b])
           start == [mem |-> m, env |-> e, loads |-> {}]
           step == [k \in 1..N |-> [st \in RunStates |->
                      IF Executed(st, b, k, bits) \in RunStates THEN Executed(st, b, k, bits) ELSE st]]
           upTo[k \in 0..N] ==
             IF k = 0 THEN start ELSE LET st == upTo[k - 1] IN Executed(st, b, k, bits)
<1>1. N \in Nat /\ Positions(b) = 1..N
  BY InputFacts DEF Positions
<1>2. Right(start, b, 0)
  OBVIOUS
<1>3. ASSUME NEW st, NEW k \in 1..N, Right(st, b, k - 1)
      PROVE  Right(Executed(st, b, k, bits), b, k)
  BY <1>1, <1>3, ExecutedRight
<1>4. \A st, k : Right(st, b, k) => st \in RunStates
  BY DEF Right
<1>5. Ran(b, m, e, bits) = upTo[N]
  BY DEF Ran
<1> HIDE DEF start, N
<1>6. \E f : IsRecursion(f, N, RunStates, start, step)
  <2>1. start \in RunStates
    BY <1>2, <1>4
  <2>2. step \in Steps(N, RunStates)
    BY DEF Steps
  <2> HIDE DEF step
  <2> QED
    BY <1>1, <2>1, <2>2, Recursion
<1>7. PICK f : IsRecursion(f, N, RunStates, start, step)
  BY <1>6
<1>8. \A k \in 0..N : Right(f[k], b, k)
  <2> DEFINE E == {k \in 0..N : Right(f[k], b, k)}
  <2>1. 0 \in E
    BY <1>1, <1>2, <1>7 DEF IsRecursion
  <2>2. ASSUME NEW k \in 0..N - 1, k \in E PROVE k + 1 \in E
    <3>1. k + 1 \in 1..N /\ (k + 1) - 1 = k
      BY <1>1
    <3>2. Right(f[k], b, k)
      BY <2>2
    <3>3. Right(Executed(f[k], b, k + 1, bits), b, k + 1)
      BY <1>3, <3>1, <3>2
    <3>4. f[k + 1] = step[k + 1][f[k]]
      BY <1>7, <3>1 DEF IsRecursion
    <3>5. f[k + 1] = Executed(f[k], b, k + 1, bits)
      BY <1>4, <3>1, <3>2, <3>3, <3>4
    <3> QED
      BY <1>1, <3>1, <3>3, <3>5
  <2>3. \A k \in 0..N : k \in E
    <3> HIDE DEF E
    <3> QED
      BY <1>1, <2>1, <2>2, AllUpTo
  <2> QED
    BY <2>3
<1>9. f = [k \in 0..N |-> IF k = 0 THEN start ELSE LET st == f[k - 1] IN Executed(st, b, k, bits)]
  <2>1. f \in [0..N -> RunStates] /\ f[0] = start
    BY <1>7 DEF IsRecursion
  <2>2. ASSUME NEW k \in 1..N PROVE f[k] = Executed(f[k - 1], b, k, bits)
    <3>1. k - 1 \in 0..N /\ Right(f[k - 1], b, k - 1)
      BY <1>1, <1>8
    <3>2. Right(Executed(f[k - 1], b, k, bits), b, k)
      BY <1>3, <3>1
    <3>3. f[k] = step[k][f[k - 1]]
      BY <1>7 DEF IsRecursion
    <3> QED
      BY <1>4, <3>1, <3>2, <3>3
  <2>3. \A k \in 0..N : k = 0 \/ k \in 1..N
    BY <1>1
  <2> QED
    BY <2>1, <2>2, <2>3
<1>10. upTo = [k \in 0..N |->
                 IF k = 0 THEN start ELSE LET st == upTo[k - 1] IN Executed(st, b, k, bits)]
  BY <1>9
<1>11. \A k \in 0..N : Right(upTo[k], b, k)
  <2> DEFINE E == {k \in 0..N : Right(upTo[k], b, k)}
  <2> HIDE DEF upTo
  <2>1. 0 \in E
    BY <1>1, <1>2, <1>10
  <2>2. ASSUME NEW k \in 0..N - 1, k \in E PROVE k + 1 \in E
    <3>1. k + 1 \in 1..N /\ k + 1 \in 0..N /\ (k + 1) - 1 = k /\ k + 1 # 0
      BY <1>1
    <3>2. upTo[k + 1] = Executed(upTo[k], b, k + 1, bits)
      BY <1>10, <3>1
    <3> QED
      BY <1>3, <2>2, <3>1, <3>2
  <2>3. \A k \in 0..N : k \in E
    <3> HIDE DEF E
    <3> QED
      BY <1>1, <2>1, <2>2, AllUpTo
  <2> QED
    BY <2>3
<1>12. Right(Ran(b, m, e, bits), b, N)
  BY <1>1, <1>5, <1>11
<1> QED
  BY <1>12 DEF N

\* What a place of a strict dominator provides is not a phi of the block.
LEMMA NotJoined ==
  ASSUME IsInput, Placed, Rewritten, NEW b \in Blocks, NEW s \in Promotable,
         NEW x \in Before(b, 0, s), <<b, s>> \notin phis
  PROVE  \A u \in Promotable : Operand(replaced, x, s) # Phi(<<b, u>>)
<1>1. x \in Places(s) /\ x[1] \in Dominators(succ, b) /\ (x[1] = b => x[2] <= 0)
  BY DEF Before
<1>2. x[1] \in Blocks /\ x[2] \in 0..Len(code[x[1]]) /\ (x[2] = 0 => <<x[1], s>> \in phis)
  BY <1>1, PlaceFacts
<1>3. x[2] \in Int /\ x[2] <= x[2] /\ x[1] # b
  BY <1>1, <1>2, InputFacts
<1>4. x \in Before(x[1], x[2], s)
  BY <1>1, <1>2, <1>3, InputFacts DEF Before
<1> DEFINE r == Operand(replaced, x, s)
<1>5. Available(r, x[1], x[2])
  BY <1>2, <1>3, <1>4, EverythingSeen, PlaceAvailable DEF Rewritten
<1> HIDE DEF r
<1> SUFFICES ASSUME NEW u \in Promotable, r = Phi(<<b, u>>) PROVE FALSE
  BY DEF r
<1>6. PICK c \in Dominators(succ, x[1]) :
        \/ \E w \in Promotable : r = Phi(<<c, w>>)
        \/ \E j \in Positions(c) : r = Def(c, j)
  BY <1>5 DEF Available
<1>7. \A j : r # Def(c, j)
  BY DEF Def, Phi
<1>8. c = b
  BY <1>6, <1>7 DEF Phi
<1> QED
  BY <1>1, <1>2, <1>3, <1>6, <1>8, InputFacts, Antisymmetric

LEMMA Followed ==
  ASSUME IsInput, Placed, Rewritten, Joined(incoming, replaced, Blocks),
         NEW p \in Blocks, NEW b \in succ[p], NEW m, NEW e, NEW s \in Promotable,
         Agrees(m, e, p, Len(code[p]), s)
  PROVE  Agrees(m, Over(PhiValues(b, p, e), e), b, 0, s)
<1> DEFINE vals == PhiValues(b, p, e)
           e2 == Over(vals, e)
           n == <<b, s>>
<1>1. b \in Blocks
  BY InputFacts
<1>2. DOMAIN vals = {Phi(q) : q \in PhisAt(b)}
  BY DEF PhiValues
<1>3. CASE n \notin phis
  <2>1. Before(b, 0, s) = Before(p, Len(code[p]), s)
    BY <1>3, NoPhi
  <2>2. CASE Before(b, 0, s) = {}
    BY <2>1, <2>2 DEF Agrees
  <2>3. CASE Before(b, 0, s) # {}
    <3>1. PICK x \in Before(b, 0, s) :
            IsLast(x, Before(b, 0, s)) /\ RegisterOf(e, Operand(replaced, x, s)) = m[s]
      BY <2>1, <2>3 DEF Agrees
    <3>2. Operand(replaced, x, s) \notin DOMAIN vals
      <4>1. \A q \in PhisAt(b) : q[2] \in Promotable /\ Phi(q) = Phi(<<b, q[2]>>)
        BY DEF PhisAt, Placed, Phi
      <4> QED
        BY <1>1, <1>2, <1>3, <4>1, NotJoined
    <3>3. RegisterOf(e2, Operand(replaced, x, s)) = RegisterOf(e, Operand(replaced, x, s))
      BY <3>2 DEF RegisterOf, Over
    <3> HIDE DEF e2
    <3>4. Agrees(m, e2, b, 0, s)
      BY <3>1, <3>3 DEF Agrees
    <3> QED
      BY <3>4 DEF e2
  <2> QED
    BY <2>2, <2>3
<1>4. CASE n \in phis
  <2>1. IsLast(<<b, 0>>, Before(b, 0, s)) /\ <<b, 0>> \in Before(b, 0, s)
    <3>1. <<b, 0>> \in Places(s)
      BY <1>1, <1>4 DEF Places
    <3> QED
      BY <1>1, <3>1, Newest DEF IsLast
  <2>2. Operand(replaced, <<b, 0>>, s) = Phi(n)
    BY DEF Operand
  <2>3. n \in PhisAt(b) /\ Phi(n)[3] = s
    BY <1>4 DEF PhisAt, Phi
  <2>4. vals[Phi(n)] = IF p \in DOMAIN incoming[n] THEN RegisterOf(e, incoming[n][p]) ELSE Undef
    BY <2>3 DEF PhiValues
  <2>5. RegisterOf(e2, Phi(n)) = vals[Phi(n)]
    BY <1>2, <2>3 DEF RegisterOf, Over
  <2>6. p \in DOMAIN incoming[n] <=> Before(p, Len(code[p]), s) # {}
    BY <1>4 DEF Joined, Joining
  <2>7. vals[Phi(n)] = m[s]
    <3>1. CASE Before(p, Len(code[p]), s) = {}
      BY <2>4, <2>6, <3>1 DEF Agrees
    <3>2. CASE Before(p, Len(code[p]), s) # {}
      <4>1. IsVersion(incoming[n][p], replaced, p, Len(code[p]), s)
        BY <1>4, <2>6, <3>2 DEF Joined, Joining
      <4>2. RegisterOf(e, incoming[n][p]) = m[s]
        BY <4>1, VersionHolds
      <4> QED
        BY <2>4, <2>6, <3>2, <4>2
    <3> QED
      BY <3>1, <3>2
  <2> HIDE DEF e2, vals, n
  <2>8. Agrees(m, e2, b, 0, s)
    BY <2>1, <2>2, <2>5, <2>7 DEF Agrees
  <2> QED
    BY <2>8 DEF e2, vals
<1> QED
  BY <1>3, <1>4

LEMMA PhisTyped ==
  ASSUME IsInput, Placed, NEW b, NEW p, NEW e \in UNION {[T -> Values] : T \in SUBSET Registers}
  PROVE  Over(PhiValues(b, p, e), e) \in UNION {[T -> Values] : T \in SUBSET Registers}
<1> DEFINE vals == PhiValues(b, p, e)
           P == {Phi(q) : q \in PhisAt(b)}
<1>1. DOMAIN vals = P /\ \A r \in P : vals[r] \in Values
  BY RegisterType DEF PhiValues, Values
<1>2. P \subseteq Registers
  <2>1. \A q \in PhisAt(b) : q \in Blocks \X Slots
    BY DEF PhisAt, Placed, Promotable
  <2> QED
    BY <2>1 DEF Registers
<1>3. PICK T \in SUBSET Registers : e \in [T -> Values]
  OBVIOUS
<1> HIDE DEF vals, P
<1>4. Over(vals, e) \in [P \cup T -> Values]
  BY <1>1, <1>3 DEF Over
<1>5. Over(vals, e) \in UNION {[U -> Values] : U \in SUBSET Registers}
  BY <1>2, <1>4
<1> QED
  BY <1>5 DEF vals

-----------------------------------------------------------------------------
(* The invariant, phase by phase.                                          *)

Unused == mem = [s \in Slots |-> Undef] /\ env = <<>> /\ loads = {}
Fresh == frames = <<>> /\ replaced = <<>> /\ versions = [s \in Promotable |-> <<>>]
State == [mem |-> mem, env |-> env, loads |-> loads]

InPhis == pc = "phis" /\ Placing /\ Fresh /\ Unused
InEntry == pc = "entry" /\ Placed /\ Fresh /\ Unused /\ incoming = [n \in phis |-> <<>>]
InRename == pc = "rename" /\ Placed /\ Unused /\ \E D, W : Renaming(D, W)
InRun ==
  /\ pc = "run" /\ Placed
  /\ Rewritten /\ Joined(incoming, replaced, Blocks)
  /\ at \in Blocks /\ Right(State, at, Len(code[at]))
IInv == IsInput /\ (InPhis \/ InEntry \/ InRename \/ InRun)

LEMMA Initially ==
  ASSUME Init
  PROVE  IInv
<1>1. PICK p \in Programs : p.succ = succ
  BY DEF Init
<1>2. PICK q \in Programs : q.succ = succ /\ code = q.code
  BY DEF Init
<1>3. /\ succ \in [Blocks -> SUBSET (Blocks \ {0})] /\ AllReachable(succ)
      /\ code \in [Blocks -> Seq(Accesses)] /\ WellDefined(succ, code)
  BY <1>2, ProgramsAssumption
<1>4. 0 \in Blocks
  BY Mem2RegAssumption DEF Blocks
<1>5. IsInput
  BY <1>3, <1>4 DEF Init, IsInput, Graph
<1>6. InPhis
  BY DEF Init, InPhis, Placing, Fresh, Unused
<1> QED
  BY <1>5, <1>6 DEF IInv

LEMMA FreshKept ==
  ASSUME UNCHANGED <<input, running, versions, replaced, frames>>
  PROVE  (Fresh => Fresh') /\ (Unused => Unused')
<1>1. Promotable' = Promotable /\ UNCHANGED <<mem, env, loads, versions, replaced, frames>>
  BY InputKept DEF running
<1> QED
  BY <1>1 DEF Fresh, Unused

LEMMA RunKept ==
  ASSUME UNCHANGED <<input, placing, renaming>>
  PROVE  /\ Placed' <=> Placed
         /\ Rewritten' <=> Rewritten
         /\ Joined(incoming, replaced, Blocks)' <=> Joined(incoming, replaced, Blocks)
         /\ \A st, b, k : Right(st, b, k)' <=> Right(st, b, k)
<1>1. UNCHANGED <<phis, incoming, replaced>> /\ UNCHANGED input
  BY DEF placing, renaming
<1>2. Placed' <=> Placed
  BY <1>1, MeaningKept
<1>3. Rewritten' <=> Rewritten
  BY <1>1, MeaningKept DEF Rewritten
<1>4. Joined(incoming, replaced, Blocks)' <=> Joined(incoming, replaced, Blocks)
  BY <1>1, MeaningKept
<1>5. UNCHANGED succ
  BY <1>1 DEF input
<1>6. ASSUME NEW x, NEW P PROVE IsLast(x, P)' <=> IsLast(x, P)
  BY <1>5 DEF IsLast
<1>7. ASSUME NEW m, NEW e, NEW b, NEW k, NEW s
      PROVE  Agrees(m, e, b, k, s)' <=> Agrees(m, e, b, k, s)
  BY <1>1, <1>6, MeaningKept DEF Agrees, Operand, CheckUse
<1>8. Promotable' = Promotable /\ RunStates' = RunStates
  BY <1>1, MeaningKept DEF RunStates
<1>9. ASSUME NEW st, NEW b, NEW k PROVE Right(st, b, k)' <=> Right(st, b, k)
  BY <1>7, <1>8 DEF Right
<1> QED
  BY <1>2, <1>3, <1>4, <1>9

\* A block runs from a right state.
LEMMA BlockRuns ==
  ASSUME IsInput, Placed, Rewritten, Joined(incoming, replaced, Blocks), NEW b \in Blocks,
         NEW e, Right([mem |-> mem, env |-> e, loads |-> {}], b, 0), Run(b, e), pc' = "run",
         UNCHANGED <<input, placing, renaming>>
  PROVE  InRun'
<1>1. PICK bits \in [{k \in Positions(b) : code[b][k].op = "store"} -> Bits] :
        LET st == Ran(b, mem, e, bits)
        IN at' = b /\ mem' = st.mem /\ env' = st.env /\ loads' = st.loads
  BY DEF Run
<1>2. PICK st : st = Ran(b, mem, e, bits)
  OBVIOUS
<1>3. at' = b /\ mem' = st.mem /\ env' = st.env /\ loads' = st.loads
  BY <1>1, <1>2
<1>4. \A k \in Positions(b) : code[b][k].op = "store" => bits[k] \in Bits
  BY <1>1
<1>5. Right(st, b, Len(code[b]))
  BY <1>2, <1>4, RanRight
<1>6. st = [mem |-> st.mem, env |-> st.env, loads |-> st.loads]
  BY <1>5 DEF Right, RunStates
<1>7. State' = st
  BY <1>3, <1>6 DEF State
<1>8. UNCHANGED code
  BY DEF input
<1>9. Right(State, at, Len(code[at]))'
  <2>1. Right(st, b, Len(code[b]))'
    BY <1>5, <1>8, RunKept
  <2> QED
    BY <1>3, <1>7, <1>8, <2>1
<1> QED
  BY <1>3, <1>9, RunKept DEF InRun

LEMMA Erased ==
  ASSUME IsInput, InRename, Erase
  PROVE  InRun'
<1>1. pc' = "run" /\ frames = <<>> /\ Run(0, env) /\ UNCHANGED <<input, placing, renaming>>
  BY DEF Erase
<1>2. PICK D, W : Renaming(D, W)
  BY DEF InRename
<1>3. D = Blocks
  BY <1>1, <1>2, EveryBlock
<1>4. Rewritten /\ Joined(incoming, replaced, Blocks)
  <2>1. PointsOf(Blocks) = Points
    BY PointFacts DEF PointsOf
  <2> QED
    BY <1>2, <1>3, <2>1 DEF Renaming, Walked, Rewritten
<1>5. Placed /\ mem = [s \in Slots |-> Undef] /\ env = <<>> /\ 0 \in Blocks
  BY InputFacts DEF InRename, Unused
<1>6. ASSUME NEW s \in Promotable PROVE Agrees(mem, env, 0, 0, s)
  <2>1. ASSUME NEW x \in Before(0, 0, s) PROVE FALSE
    <3>1. x \in Places(s) /\ x[1] = 0 /\ x[2] <= 0
      BY InputFacts, EntryDominators DEF Before
    <3>2. x[2] \in 0..Len(code[0]) /\ (x[2] = 0 => <<0, s>> \in phis)
      BY <1>5, <3>1, PlaceFacts
    <3> QED
      BY <1>5, <3>1, <3>2, InputFacts DEF Placed
  <2>2. mem[s] = Undef
    BY <1>5 DEF Promotable
  <2> QED
    BY <2>1, <2>2 DEF Agrees
<1>7. [mem |-> mem, env |-> env, loads |-> {}] \in RunStates
  <2>1. mem \in [Slots -> Values]
    BY <1>5 DEF Values
  <2>2. env \in UNION {[T -> Values] : T \in SUBSET Registers}
    <3>1. <<>> \in [{} -> Values] /\ {} \in SUBSET Registers
      OBVIOUS
    <3> QED
      BY <1>5, <3>1
  <2> QED
    BY <2>1, <2>2 DEF RunStates
<1>8. Right([mem |-> mem, env |-> env, loads |-> {}], 0, 0)
  BY <1>6, <1>7 DEF Right
<1> QED
  BY <1>1, <1>4, <1>5, <1>8, BlockRuns

LEMMA EdgeFollowed ==
  ASSUME IsInput, InRun, Follow
  PROVE  InRun'
<1>1. PICK b \in succ[at] : Run(b, Over(PhiValues(b, at, env), env))
  BY DEF Follow
<1>2. pc' = "run" /\ UNCHANGED <<input, placing, renaming>>
  BY DEF Follow, InRun
<1>3. at \in Blocks /\ b \in Blocks
  BY InputFacts DEF InRun
<1>4. /\ mem \in [Slots -> Values] /\ env \in UNION {[T -> Values] : T \in SUBSET Registers}
      /\ \A s \in Promotable : Agrees(mem, env, at, Len(code[at]), s)
  BY DEF InRun, Right, State, RunStates
<1>5. PICK e : e = Over(PhiValues(b, at, env), env)
  OBVIOUS
<1>6. e \in UNION {[T -> Values] : T \in SUBSET Registers}
  BY <1>4, <1>5, PhisTyped DEF InRun
<1>7. \A s \in Promotable : Agrees(mem, e, b, 0, s)
  BY <1>3, <1>4, <1>5, Followed DEF InRun
<1>8. Right([mem |-> mem, env |-> e, loads |-> {}], b, 0)
  BY <1>4, <1>6, <1>7 DEF Right, RunStates
<1> QED
  BY <1>1, <1>2, <1>3, <1>5, <1>8, BlockRuns DEF InRun

LEMMA Step ==
  ASSUME IInv, [Next]_vars
  PROVE  IInv'
<1>0. UNCHANGED input /\ IsInput'
  <2>1. UNCHANGED input
    BY DEF Next, vars, StartSlot, PlacePhis, StartRename, RenameEntry, RenameChild, Rollback,
           Erase, Follow, Returned
  <2> QED
    BY <2>1, InputKept DEF IInv
<1>1. CASE StartSlot
  <2>1. InPhis
    BY <1>1 DEF IInv, StartSlot, InEntry, InRename, InRun
  <2>2. Placing'
    BY <1>1, <2>1, PlacingStarts DEF IInv, InPhis
  <2>3. pc' = "phis" /\ Fresh' /\ Unused'
    BY <1>1, <2>1, FreshKept DEF StartSlot, InPhis, renaming
  <2> QED
    BY <1>0, <2>2, <2>3 DEF IInv, InPhis
<1>2. CASE PlacePhis
  <2>1. InPhis
    BY <1>2 DEF IInv, PlacePhis, InEntry, InRename, InRun
  <2>2. Placing'
    BY <1>2, <2>1, PlacingGoesOn DEF IInv, InPhis
  <2>3. pc' = "phis" /\ Fresh' /\ Unused'
    BY <1>2, <2>1, FreshKept DEF PlacePhis, InPhis, renaming
  <2> QED
    BY <1>0, <2>2, <2>3 DEF IInv, InPhis
<1>3. CASE StartRename
  <2>1. InPhis /\ work = {} /\ slotsLeft = {}
    BY <1>3 DEF IInv, StartRename, InEntry, InRename, InRun
  <2>2. UNCHANGED phis /\ Placed'
    BY <1>0, <1>3, <2>1, AllPlaced, MeaningKept DEF InPhis, StartRename, placing
  <2>3. pc' = "entry" /\ Fresh' /\ Unused'
    BY <1>3, <2>1, FreshKept DEF StartRename, InPhis
  <2>4. incoming' = [n \in phis' |-> <<>>]
    BY <1>3, <2>2 DEF StartRename
  <2> QED
    BY <1>0, <2>2, <2>3, <2>4 DEF IInv, InEntry
<1>4. CASE RenameEntry
  <2>1. InEntry
    BY <1>4 DEF IInv, RenameEntry, InPhis, InRename, InRun
  <2>2. pc' = "rename" /\ \E D, W : Renaming(D, W)'
    BY <1>4, <2>1, Entered DEF IInv, InEntry, Fresh
  <2>3. Placed' /\ Unused'
    BY <1>0, <1>4, <2>1, MeaningKept DEF RenameEntry, InEntry, placing, running, Unused
  <2> QED
    BY <1>0, <2>2, <2>3 DEF IInv, InRename
<1>5. CASE RenameChild
  <2>1. InRename
    BY <1>5 DEF IInv, RenameChild, InPhis, InEntry, InRun
  <2>2. pc' = "rename" /\ \E D, W : Renaming(D, W)'
    BY <1>5, <2>1, Descended DEF IInv, InRename
  <2>3. Placed' /\ Unused'
    BY <1>0, <1>5, <2>1, MeaningKept DEF RenameChild, InRename, placing, running, Unused
  <2> QED
    BY <1>0, <2>2, <2>3 DEF IInv, InRename
<1>6. CASE Rollback
  <2>1. InRename /\ pc' = "rename"
    BY <1>6 DEF IInv, Rollback, InPhis, InEntry, InRun
  <2>2. \E D, W : Renaming(D, W)'
    BY <1>6, <2>1, Ascended DEF IInv, InRename
  <2>3. Placed' /\ Unused'
    BY <1>0, <1>6, <2>1, MeaningKept DEF Rollback, InRename, placing, running, Unused
  <2> QED
    BY <1>0, <2>1, <2>2, <2>3 DEF IInv, InRename
<1>7. CASE Erase
  <2>1. InRename
    BY <1>7 DEF IInv, Erase, InPhis, InEntry, InRun
  <2> QED
    BY <1>0, <1>7, <2>1, Erased DEF IInv
<1>8. CASE Follow
  <2>1. InRun
    BY <1>8 DEF IInv, Follow, InPhis, InEntry, InRename
  <2> QED
    BY <1>0, <1>8, <2>1, EdgeFollowed DEF IInv
<1>9. CASE UNCHANGED vars
  <2>1. /\ UNCHANGED <<input, placing, renaming, running, pc>>
        /\ UNCHANGED <<phis, slotsLeft, slot, work, incoming, versions, replaced, frames>>
        /\ UNCHANGED <<at, mem, env, loads, code, df>>
    BY <1>9 DEF vars, input, placing, renaming, running
  <2>2. CASE InPhis
    <3>1. Placing'
      BY <2>1, <2>2, InputKept DEF InPhis, Placing, Defines, Done
    <3> QED
      BY <1>0, <2>1, <2>2, <3>1, FreshKept DEF IInv, InPhis
  <2>3. CASE InEntry
    BY <1>0, <2>1, <2>3, FreshKept, MeaningKept DEF IInv, InEntry
  <2>4. CASE InRename
    <3>1. PICK D, W : Renaming(D, W)
      BY <2>4 DEF InRename
    <3>2. Renaming(D, W)'
      <4>1. Walked(D)'
        BY <2>1, <3>1, MeaningKept DEF Renaming, Walked
      <4>2. (frames \in Seq(Frames(D)))' /\ Covered(D, frames)' /\ Leveled(W, frames, replaced)'
        BY <2>1, <3>1, RenamingKept DEF Renaming
      <4> QED
        BY <2>1, <3>1, <4>1, <4>2 DEF Renaming
    <3> QED
      BY <1>0, <2>1, <2>4, <3>2, FreshKept, MeaningKept DEF IInv, InRename
  <2>5. CASE InRun
    <3>1. State' = State
      BY <2>1 DEF State
    <3>2. Right(State, at, Len(code[at]))'
      BY <2>1, <2>5, <3>1, RunKept DEF InRun
    <3> QED
      BY <1>0, <2>1, <2>5, <3>2, RunKept DEF IInv, InRun
  <2> QED
    BY <2>2, <2>3, <2>4, <2>5 DEF IInv
<1> QED
  BY <1>1, <1>2, <1>3, <1>4, <1>5, <1>6, <1>7, <1>8, <1>9 DEF Next, Returned

\* Every function the pass is ready for keeps its values: on every path, what
\* an instruction reads from a register in place of a load is what the load
\* would have read, and the renamer finds a version for every load.
THEOREM SlotsPromoted == Spec => []SameValues
<1>1. Init => IInv
  BY Initially
<1>2. IInv /\ [Next]_vars => IInv'
  BY Step
<1>3. IInv => SameValues
  <2> SUFFICES ASSUME IInv PROVE SameValues
    OBVIOUS
  <2>1. pc # "thrown"
    BY DEF IInv, InPhis, InEntry, InRename, InRun
  <2>2. \A l \in loads : l[1] = l[2]
    BY DEF IInv, InPhis, InEntry, InRename, InRun, Unused, Right, State
  <2> QED
    BY <2>1, <2>2 DEF SameValues
<1> QED
  BY <1>1, <1>2, <1>3, PTL DEF Spec
=============================================================================
