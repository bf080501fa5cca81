---------------------------- MODULE InlineProofs ----------------------------
(***************************************************************************)
(* FunctionInline for every program and every threshold: whatever is       *)
(* inlined, in whatever order, the blocks stay well formed.                *)
(*                                                                         *)
(* The invariant has two halves.  Whole is about the program between two   *)
(* calls; Searching is about inline_func, and is what makes the labels of  *)
(* the next copy new and the search complete.  That one inlined call keeps *)
(* both is shown in layers: which blocks the result has (Spliced), its     *)
(* labels and edges (Shape, Edges), its instructions and their places      *)
(* (Laid, Orderly), and from these each part of WellFormed.  reorder()     *)
(* only renumbers registers (Renumbered).                                  *)
(***************************************************************************)
EXTENDS Inline, ProofLibrary, SequenceTheorems

\* A label: kind, number and appendix (the names and numbers of the calls it was copied for).
IsLabel(l) == l = <<l[1], l[2], l[3]>> /\ IsSequence(l[3])
\* A label made by the pass says so.
Known(f) == \A l \in Labels(f) : IsLabel(l) /\ (l[1] = "inline_exit" => l[3] # <<>>)
\* The appendix of some label of f names this function: f holds a copy of its blocks.
Mentions(f, name) == \E l \in Labels(f) : \E x \in DOMAIN l[3] : l[3][x][1] = name
\* The copies f holds of this function were made for calls numbered up to n.
MentionsUpTo(f, name, n) ==
  \A l \in Labels(f) : \A x \in DOMAIN l[3] : l[3][x][1] = name => l[3][x][2] \in Nat /\ l[3][x][2] <= n
\* Block b of f calls this function.
CallsOf(f, b, name) == \E i \in DOMAIN f.blocks[b].insns :
   f.blocks[b].insns[i].op = "call" /\ f.blocks[b].insns[i].callee = name
\* The functions of the program: those of the pack and, while it is inlined, the cheap one.
Present == ToSet(pack) \cup (IF pc = "inline" THEN {cheap} ELSE {})
\* A function as the pass needs it and leaves it.
Sound(f) == Formed(f) /\ WellFormed(f) /\ Known(f)
\* While a function is inlined: the numbers of the search are in range; the function
\* inlined calls itself nowhere and is no longer in the pack; no call of it is left where
\* the search has been, and the labels of the functions name it only as far as the search
\* came, with numbers up to the last one used (hint).
Searching ==
  /\ cur \in 1..Len(pack) + 1 /\ bb \in Nat \ {0} /\ hint \in Int /\ hint >= -1
  /\ ~CallsItself(cheap) /\ ~Mentions(cheap, cheap.name)
  /\ \A k \in DOMAIN pack : pack[k].name # cheap.name
  /\ \A k \in DOMAIN pack :
       /\ k > cur => ~Mentions(pack[k], cheap.name)
       /\ k = cur => MentionsUpTo(pack[k], cheap.name, hint)
       /\ \A b \in DOMAIN pack[k].blocks : k < cur \/ (k = cur /\ b < bb) => ~CallsOf(pack[k], b, cheap.name)
\* At all times: every function is sound, names are unique, calls lead to functions that
\* exist and pass as many arguments as these have parameters, and no label names a
\* function that is still in the pack.
Whole ==
  /\ IsSequence(pack) /\ pc \in {"extract", "inline", "done"}
  /\ \A j, k \in DOMAIN pack : pack[j].name = pack[k].name => j = k
  /\ \A f \in Present : Sound(f) /\ CallsLead(f, Callable) /\ CallsFit(f, Present)
  /\ \A f \in Present : \A k \in DOMAIN pack : ~Mentions(f, pack[k].name)
\* The inductive invariant.
IInv == Whole /\ (pc = "inline" => Searching)

-----------------------------------------------------------------------------
(* Sequences *)

\* A sequence is the function of its elements on 1..Len.
LEMMA SequenceFacts ==
  ASSUME NEW s, IsSequence(s)
  PROVE  /\ Len(s) \in Nat /\ DOMAIN s = 1..Len(s) /\ s = [i \in 1..Len(s) |-> s[i]]
         /\ s # <<>> <=> Len(s) > 0
<1>1. s \in Seq(ToSet(s))
  BY DEF IsSequence
<1> HIDE DEF ToSet
<1> QED
  BY <1>1, LenProperties, EmptySeq

\* Every member of Seq(S) is a sequence.
LEMMA AnySequence ==
  ASSUME NEW S, NEW s \in Seq(S)
  PROVE  IsSequence(s)
<1>1. DOMAIN s = 1..Len(s) /\ Len(s) \in Nat
  BY LenProperties
<1>2. s = [i \in 1..Len(s) |-> s[i]] /\ \A i \in 1..Len(s) : s[i] \in ToSet(s)
  BY <1>1 DEF ToSet
<1>3. s \in [1..Len(s) -> ToSet(s)]
  BY <1>2
<1> QED
  BY <1>1, <1>3, SeqDef DEF IsSequence

\* A function on 1..n is a sequence of length n.
LEMMA MadeSequence ==
  ASSUME NEW n \in Nat, NEW s, s = [i \in 1..n |-> s[i]]
  PROVE  IsSequence(s) /\ Len(s) = n /\ DOMAIN s = 1..n
<1>1. DOMAIN s = 1..n
  OBVIOUS
<1>2. s \in [1..n -> ToSet(s)]
  BY <1>1 DEF ToSet
<1>3. s \in Seq(ToSet(s))
  BY <1>2, SeqDef
<1>4. Len(s) \in Nat /\ DOMAIN s = 1..Len(s)
  BY <1>3, LenProperties
<1> QED
  BY <1>1, <1>3, <1>4 DEF IsSequence

\* The elements of s \o t: those of s, then those of t.
LEMMA Joined ==
  ASSUME NEW s, NEW t, IsSequence(s), IsSequence(t)
  PROVE  /\ IsSequence(s \o t) /\ Len(s \o t) = Len(s) + Len(t)
         /\ \A i \in 1..Len(s) : (s \o t)[i] = s[i]
         /\ \A i \in 1..Len(t) : (s \o t)[Len(s) + i] = t[i]
<1> DEFINE S == ToSet(s) \cup ToSet(t)
<1>1. s \in Seq(S) /\ t \in Seq(S)
  BY SeqMonotonic DEF IsSequence
<1>2. Len(s) \in Nat /\ Len(t) \in Nat
  BY SequenceFacts
<1> HIDE DEF S
<1>3. /\ s \o t \in Seq(S) /\ Len(s \o t) = Len(s) + Len(t)
      /\ \A i \in 1..Len(s) + Len(t) : (s \o t)[i] = IF i <= Len(s) THEN s[i] ELSE t[i - Len(s)]
  BY <1>1, ConcatProperties
<1>4. ASSUME NEW i \in 1..Len(t) PROVE (s \o t)[Len(s) + i] = t[i]
  <2>1. Len(s) + i \in 1..Len(s) + Len(t) /\ ~(Len(s) + i <= Len(s)) /\ (Len(s) + i) - Len(s) = i
    BY <1>2
  <2> QED
    BY <1>3, <2>1
<1>5. IsSequence(s \o t)
  BY <1>3, AnySequence
<1>6. \A i \in 1..Len(s) : (s \o t)[i] = s[i]
  BY <1>2, <1>3
<1> QED
  BY <1>3, <1>4, <1>5, <1>6

\* The elements of SubSeq(s, m, n).
LEMMA Part ==
  ASSUME NEW s, IsSequence(s), NEW m \in Nat \ {0}, NEW n \in Nat, n <= Len(s), m <= n + 1
  PROVE  /\ IsSequence(SubSeq(s, m, n)) /\ Len(SubSeq(s, m, n)) = n - m + 1
         /\ \A i \in 1..n - m + 1 : SubSeq(s, m, n)[i] = s[m + i - 1]
<1>1. Len(s) \in Nat /\ DOMAIN s = 1..Len(s)
  BY SequenceFacts
<1>2. \A i \in m..n : s[i] \in ToSet(s)
  BY <1>1 DEF ToSet
<1>3. /\ SubSeq(s, m, n) \in Seq(ToSet(s))
      /\ Len(SubSeq(s, m, n)) = IF m <= n THEN n - m + 1 ELSE 0
      /\ \A i \in 1 .. n - m + 1 : SubSeq(s, m, n)[i] = s[m + i - 1]
  BY <1>2, SubSeqProperties
<1>4. IsSequence(SubSeq(s, m, n))
  BY <1>3, AnySequence
<1> QED
  BY <1>3, <1>4

\* The sequence of one element.
LEMMA Single == ASSUME NEW x PROVE IsSequence(<<x>>) /\ Len(<<x>>) = 1 /\ <<x>>[1] = x
<1>1. <<x>> \in Seq({x})
  OBVIOUS
<1> QED
  BY <1>1, AnySequence

\* The elements of Append(s, x).
LEMMA Longer ==
  ASSUME NEW s, IsSequence(s), NEW x
  PROVE  /\ IsSequence(Append(s, x)) /\ Len(Append(s, x)) = Len(s) + 1
         /\ \A i \in 1..Len(s) : Append(s, x)[i] = s[i]
         /\ Append(s, x)[Len(s) + 1] = x
<1>1. s \in Seq(ToSet(s) \cup {x}) /\ Len(s) \in Nat
  BY SeqMonotonic, SequenceFacts DEF IsSequence
<1>2. /\ Append(s, x) \in Seq(ToSet(s) \cup {x}) /\ Len(Append(s, x)) = Len(s) + 1
      /\ \A i \in 1..Len(s) : Append(s, x)[i] = s[i] /\ Append(s, x)[Len(s) + 1] = x
  BY <1>1, AppendProperties
<1>3. Append(s, x)[Len(s) + 1] = x
  BY <1>1, AppendProperties
<1> QED
  BY <1>2, <1>3, AnySequence

\* FirstCall finds the first call of g in a block, or none (the search of inline_func).
LEMMA FirstSelected ==
  ASSUME NEW s, IsSequence(s), NEW g
  PROVE  LET Is(x) == x.op = "call" /\ x.callee = g.name IN
         /\ FirstCall(s, g) = 0 => \A i \in DOMAIN s : ~Is(s[i])
         /\ FirstCall(s, g) # 0 => /\ FirstCall(s, g) \in DOMAIN s /\ Is(s[FirstCall(s, g)])
                                   /\ \A i \in 1..FirstCall(s, g) - 1 : ~Is(s[i])
<1> DEFINE Is(x) == x.op = "call" /\ x.callee = g.name
           I == {i \in 1..Len(s) : Is(s[i])}
<1>1. Len(s) \in Nat /\ DOMAIN s = 1..Len(s)
  BY SequenceFacts
<1>2. FirstCall(s, g) = IF I # {} THEN Min(I) ELSE 0
  BY DEF FirstCall, SelectInSeq
<1>3. ASSUME I # {} PROVE Min(I) \in I /\ \A i \in I : Min(I) <= i
  <2>1. I \in SUBSET (0..Len(s))
    BY <1>1
  <2> HIDE DEF I
  <2>2. \E m \in I : \A n \in I : m <= n
    BY <1>1, <1>3, <2>1, Least
  <2> QED
    BY <2>2 DEF Min
<1>4. ASSUME I # {} PROVE \A i \in 1..Min(I) - 1 : ~Is(s[i])
  BY <1>1, <1>3, <1>4
<1> QED
  BY <1>1, <1>2, <1>3, <1>4

-----------------------------------------------------------------------------
(* Positions, and what a function is formed of *)

\* Positions, At and Insns speak of the same instructions.
LEMMA PositionFacts ==
  ASSUME NEW f
  PROVE  /\ \A b \in DOMAIN f.blocks : \A i \in DOMAIN f.blocks[b].insns :
              /\ <<b, i>> \in Positions(f) /\ At(f, <<b, i>>) = f.blocks[b].insns[i]
              /\ f.blocks[b].insns[i] \in Insns(f)
         /\ \A p \in Positions(f) : /\ p[1] \in DOMAIN f.blocks /\ p[2] \in DOMAIN f.blocks[p[1]].insns
                                    /\ p = <<p[1], p[2]>> /\ At(f, p) = f.blocks[p[1]].insns[p[2]]
         /\ \A inst \in Insns(f) : \E b \in DOMAIN f.blocks : \E i \in DOMAIN f.blocks[b].insns :
                                      inst = f.blocks[b].insns[i]
<1>1. ASSUME NEW p \in Positions(f)
      PROVE  /\ p[1] \in DOMAIN f.blocks /\ p[2] \in DOMAIN f.blocks[p[1]].insns
             /\ p = <<p[1], p[2]>> /\ At(f, p) = f.blocks[p[1]].insns[p[2]]
  BY DEF Positions, At
<1>2. ASSUME NEW b \in DOMAIN f.blocks, NEW i \in DOMAIN f.blocks[b].insns
      PROVE  <<b, i>> \in Positions(f) /\ At(f, <<b, i>>) = f.blocks[b].insns[i]
  BY DEF Positions, At
<1>3. ASSUME NEW b \in DOMAIN f.blocks, NEW i \in DOMAIN f.blocks[b].insns
      PROVE  f.blocks[b].insns[i] \in Insns(f)
  BY <1>2 DEF Insns
<1>4. ASSUME NEW inst \in Insns(f)
      PROVE  \E b \in DOMAIN f.blocks : \E i \in DOMAIN f.blocks[b].insns : inst = f.blocks[b].insns[i]
  <2>1. PICK p \in Positions(f) : inst = At(f, p)
    BY DEF Insns
  <2> QED
    BY <1>1, <2>1
<1> QED
  BY <1>1, <1>2, <1>3, <1>4

\* What is asked of the instruction at i of block b of f.
InsnFormed(f, b, i) ==
  LET inst == f.blocks[b].insns[i]
  IN /\ IsSequence(inst.args) /\ IsSequence(inst.labels) /\ inst.dst \in Nat \cup {NoReg}
     /\ \A j \in DOMAIN inst.args : IsReg(inst.args[j]) => inst.args[j][2] \in Nat
     /\ inst.op \in Terminators <=> i = Len(f.blocks[b].insns)
     /\ inst.op \in Terminators => inst.dst = NoReg
     /\ inst.op = "phi" => b # 1 /\ \A j \in 1..i : f.blocks[b].insns[j].op = "phi"
\* Formed, instruction by instruction.
BlocksFormed(f) ==
  /\ f.nparams \in Nat /\ IsSequence(f.blocks) /\ Len(f.blocks) > 0
  /\ \A b \in 1..Len(f.blocks) : /\ IsSequence(f.blocks[b].insns) /\ Len(f.blocks[b].insns) > 0
                                /\ f.blocks[1].label \notin Targets(f.blocks[b])
  /\ \A b \in 1..Len(f.blocks) : \A i \in 1..Len(f.blocks[b].insns) : InsnFormed(f, b, i)

\* BlocksFormed says what Formed does.
LEMMA FormedAt == ASSUME NEW f PROVE Formed(f) <=> BlocksFormed(f)
<1> DEFINE Blocks == f.nparams \in Nat /\ IsSequence(f.blocks) /\ f.blocks # <<>>
           Ok(p) ==
             LET inst == At(f, p)
             IN /\ IsSequence(inst.args) /\ IsSequence(inst.labels) /\ inst.dst \in Nat \cup {NoReg}
                /\ \A o \in ToSet(inst.args) : IsReg(o) => o[2] \in Nat
                /\ inst.op \in Terminators <=> p[2] = Len(f.blocks[p[1]].insns)
                /\ inst.op \in Terminators => inst.dst = NoReg
                /\ inst.op = "phi" => p[1] # 1 /\ \A i \in 1..p[2] : At(f, <<p[1], i>>).op = "phi"
           Filled(b) == IsSequence(f.blocks[b].insns) /\ f.blocks[b].insns # <<>>
<1>1. ASSUME NEW b, NEW i PROVE Ok(<<b, i>>) <=> InsnFormed(f, b, i)
  <2>1. <<b, i>>[1] = b /\ <<b, i>>[2] = i /\ \A c, j : At(f, <<c, j>>) = f.blocks[c].insns[j]
    BY DEF At
  <2> DEFINE x == f.blocks[b].insns[i]
             PhisFirst == \A j \in 1..i : f.blocks[b].insns[j].op = "phi"
             Ends == i = Len(f.blocks[b].insns)
             Numbers == \A o \in ToSet(x.args) : IsReg(o) => o[2] \in Nat
             Places == \A j \in DOMAIN x.args : IsReg(x.args[j]) => x.args[j][2] \in Nat
             Rest == /\ IsSequence(x.args) /\ IsSequence(x.labels) /\ x.dst \in Nat \cup {NoReg}
                     /\ x.op \in Terminators <=> Ends
                     /\ x.op \in Terminators => x.dst = NoReg
                     /\ x.op = "phi" => b # 1 /\ PhisFirst
  <2>2. Numbers <=> Places
    <3> HIDE DEF x
    <3> QED
      BY DEF ToSet
  <2>3. Ok(<<b, i>>) <=> Numbers /\ Rest
    <3>1. At(f, <<b, i>>) = x
      BY <2>1
    <3>2. (\A j \in 1..i : At(f, <<b, j>>).op = "phi") <=> PhisFirst
      BY <2>1
    <3> QED
      BY <2>1, <3>1, <3>2
  <2>4. InsnFormed(f, b, i) <=> Places /\ Rest
    BY DEF InsnFormed
  <2> HIDE DEF Numbers, Places, Rest, Ok
  <2> QED
    BY <2>2, <2>3, <2>4
<1>2. Blocks => (DOMAIN f.blocks = 1..Len(f.blocks) /\ Len(f.blocks) > 0)
  BY SequenceFacts
<1>3. IsSequence(f.blocks) => (f.blocks # <<>> <=> Len(f.blocks) > 0)
  BY SequenceFacts
<1>4. \A b : IsSequence(f.blocks[b].insns) =>
        /\ f.blocks[b].insns # <<>> <=> Len(f.blocks[b].insns) > 0
        /\ DOMAIN f.blocks[b].insns = 1..Len(f.blocks[b].insns)
  BY SequenceFacts
<1>5. Formed(f) <=> /\ Blocks
                    /\ \A b \in DOMAIN f.blocks : Filled(b) /\ f.blocks[1].label \notin Targets(f.blocks[b])
                    /\ \A p \in Positions(f) : Ok(p)
  BY DEF Formed
<1> HIDE DEF Ok
<1>6. (\A p \in Positions(f) : Ok(p))
        <=> \A b \in DOMAIN f.blocks : \A i \in DOMAIN f.blocks[b].insns : Ok(<<b, i>>)
  BY PositionFacts
<1> QED
  BY <1>1, <1>2, <1>3, <1>4, <1>5, <1>6 DEF BlocksFormed

\* The lengths in a formed function are numbers.
LEMMA FormedSizes ==
  ASSUME NEW f, Formed(f)
  PROVE  /\ f.nparams \in Nat /\ Len(f.blocks) \in Nat \ {0} /\ DOMAIN f.blocks = 1..Len(f.blocks)
         /\ \A b \in 1..Len(f.blocks) :
              /\ Len(f.blocks[b].insns) \in Nat \ {0}
              /\ DOMAIN f.blocks[b].insns = 1..Len(f.blocks[b].insns)
              /\ \A i \in 1..Len(f.blocks[b].insns) : InsnFormed(f, b, i)
<1>1. BlocksFormed(f)
  BY FormedAt
<1> QED
  BY <1>1, SequenceFacts DEF BlocksFormed

-----------------------------------------------------------------------------
(* The largest register *)

\* Finitely many numbers have an upper bound.
LEMMA Bounded ==
  ASSUME NEW N \in Nat, NEW u \in [1..N -> Nat]
  PROVE  \E M \in Nat : \A i \in 1..N : u[i] <= M
<1> DEFINE D == {n \in 0..N : \E M \in Nat : \A i \in 1..n : u[i] <= M}
<1>1. 0 \in D
  OBVIOUS
<1>2. ASSUME NEW n \in 0..N - 1, n \in D PROVE n + 1 \in D
  <2>1. PICK M \in Nat : \A i \in 1..n : u[i] <= M
    BY <1>2
  <2>2. u[n + 1] \in Nat
    OBVIOUS
  <2>3. \A i \in 1..n + 1 : i = n + 1 \/ i \in 1..n
    OBVIOUS
  <2>4. \A i \in 1..n + 1 : u[i] <= M + u[n + 1]
    BY <2>1, <2>2, <2>3
  <2> QED
    BY <2>2, <2>4
<1>3. N \in D
  <2> HIDE DEF D
  <2>1. \A n \in 0..N : n \in D
    BY <1>1, <1>2, AllUpTo
  <2> QED
    BY <2>1
<1> QED
  BY <1>3

\* The registers a formed function uses have an upper bound.
LEMMA UsedBounded ==
  ASSUME NEW f, Formed(f)
  PROVE  \E M \in Nat : \A inst \in Insns(f) : Used(inst) \subseteq 0..M
<1> DEFINE N == Len(f.blocks)
           Size(b) == Len(f.blocks[b].insns)
           I(b, i) == f.blocks[b].insns[i]
<1>1. /\ N \in Nat /\ DOMAIN f.blocks = 1..N
      /\ \A b \in 1..N : Size(b) \in Nat /\ DOMAIN f.blocks[b].insns = 1..Size(b)
                        /\ \A i \in 1..Size(b) : InsnFormed(f, b, i)
  BY FormedSizes
<1>2. ASSUME NEW b \in 1..N, NEW i \in 1..Size(b)
      PROVE  \E M \in Nat : Used(I(b, i)) \subseteq 0..M
  <2> DEFINE args == I(b, i).args
             u == [j \in 1..Len(args) |-> IF IsReg(args[j]) THEN args[j][2] ELSE 0]
  <2>1. /\ IsSequence(args) /\ I(b, i).dst \in Nat \cup {NoReg}
        /\ \A j \in DOMAIN args : IsReg(args[j]) => args[j][2] \in Nat
    BY <1>1 DEF InsnFormed
  <2>2. Len(args) \in Nat /\ DOMAIN args = 1..Len(args)
    BY <2>1, SequenceFacts
  <2>3. u \in [1..Len(args) -> Nat]
    BY <2>1, <2>2
  <2>4. PICK M \in Nat : \A j \in 1..Len(args) : u[j] <= M
    <3> HIDE DEF u, args
    <3> QED
      BY <2>2, <2>3, Bounded
  <2>5. ASSUME NEW j \in DOMAIN args, IsReg(args[j]) PROVE args[j][2] \in Nat /\ args[j][2] <= M
    BY <2>1, <2>2, <2>4, <2>5
  <2> DEFINE d == I(b, i).dst
  <2>6. \A r \in Used(I(b, i)) : (r = d /\ d # NoReg) \/ \E j \in DOMAIN args : IsReg(args[j]) /\ r = args[j][2]
    BY DEF Used
  <2>7. d \in Nat \/ d = NoReg
    BY <2>1
  <2> HIDE DEF args, d
  <2> DEFINE K == IF d = NoReg THEN M ELSE M + d
  <2>8. K \in Nat /\ M <= K /\ (d # NoReg => d <= K)
    <3>1. CASE d = NoReg
      BY <3>1
    <3>2. CASE d # NoReg
      <4>1. d \in Nat /\ K = M + d
        BY <2>7, <3>2
      <4> HIDE DEF K
      <4> QED
        BY <4>1
    <3> QED
      BY <3>1, <3>2
  <2> HIDE DEF K
  <2>9. ASSUME NEW r \in Used(I(b, i)) PROVE r \in 0..K
    <3>1. CASE r = d /\ d # NoReg
      BY <2>7, <2>8, <3>1
    <3>2. CASE \E j \in DOMAIN args : IsReg(args[j]) /\ r = args[j][2]
      BY <2>5, <2>8, <3>2
    <3> QED
      BY <2>6, <3>1, <3>2
  <2> QED
    BY <2>8, <2>9
<1> DEFINE Top(b, i) == CHOOSE M \in Nat : Used(I(b, i)) \subseteq 0..M
<1>3. ASSUME NEW b \in 1..N
      PROVE  \E M \in Nat : \A i \in 1..Size(b) : Used(I(b, i)) \subseteq 0..M
  <2> DEFINE u == [i \in 1..Size(b) |-> Top(b, i)]
  <2>1. \A i \in 1..Size(b) : Top(b, i) \in Nat /\ Used(I(b, i)) \subseteq 0..Top(b, i)
    BY <1>2
  <2> HIDE DEF Top
  <2>2. u \in [1..Size(b) -> Nat] /\ Size(b) \in Nat
    BY <1>1, <2>1
  <2>3. PICK M \in Nat : \A i \in 1..Size(b) : u[i] <= M
    <3> HIDE DEF u, Size
    <3> QED
      BY <2>2, Bounded
  <2>4. ASSUME NEW i \in 1..Size(b) PROVE Used(I(b, i)) \subseteq 0..M
    <3>1. Top(b, i) \in Nat /\ Top(b, i) <= M
      BY <2>1, <2>3
    <3>2. 0..Top(b, i) \subseteq 0..M
      BY <3>1
    <3> QED
      BY <2>1, <3>2
  <2> QED
    BY <2>4
<1> DEFINE All(b) == CHOOSE M \in Nat : \A i \in 1..Size(b) : Used(I(b, i)) \subseteq 0..M
           v == [b \in 1..N |-> All(b)]
<1>4. \A b \in 1..N : All(b) \in Nat /\ \A i \in 1..Size(b) : Used(I(b, i)) \subseteq 0..All(b)
  BY <1>3
<1> HIDE DEF All
<1>5. v \in [1..N -> Nat]
  BY <1>4
<1>6. PICK M \in Nat : \A b \in 1..N : v[b] <= M
  <2> HIDE DEF v, N
  <2> QED
    BY <1>1, <1>5, Bounded
<1>7. ASSUME NEW b \in 1..N, NEW i \in 1..Size(b) PROVE Used(I(b, i)) \subseteq 0..M
  <2>1. All(b) \in Nat /\ All(b) <= M
    BY <1>4, <1>6
  <2>2. 0..All(b) \subseteq 0..M
    BY <2>1
  <2> QED
    BY <1>4, <2>2
<1>8. \A inst \in Insns(f) : Used(inst) \subseteq 0..M
  BY <1>1, <1>7, PositionFacts
<1> QED
  BY <1>8

\* The largest register used, on which the offset of a copy is based, exists.
LEMMA LargestIsNumber == ASSUME NEW f, Formed(f) PROVE Largest(f) \in Nat
<1>1. PICK M \in Nat : \A inst \in Insns(f) : Used(inst) \subseteq 0..M
  BY UsedBounded
<1> DEFINE used == UNION {Used(inst) : inst \in Insns(f)}
<1>2. used \cup {0} \in SUBSET (0..M)
  BY <1>1
<1>3. Largest(f) = CHOOSE m \in used \cup {0} : \A r \in used : r <= m
  BY DEF Largest
<1> HIDE DEF used
<1>4. \E m \in used \cup {0} : \A r \in used \cup {0} : r <= m
  BY <1>2, Greatest
<1> QED
  BY <1>2, <1>3, <1>4

-----------------------------------------------------------------------------
(* The blocks of a copy that return a value *)

\* A block that ends by returning a value.
GivesBack(x) == Last(x.insns).op = "ret" /\ Last(x.insns).args # <<>>
\* q lists the blocks among the first k that return a value, each once.
IncomesOf(blocks, k, q) ==
  /\ IsSequence(q)
  /\ \A j \in 1..Len(q) : \E b \in 1..k : q[j] = blocks[b] /\ GivesBack(blocks[b])
  /\ \A b \in 1..k : GivesBack(blocks[b]) => \E j \in 1..Len(q) : q[j] = blocks[b]
  /\ \A i, j \in 1..Len(q) : q[i].label = q[j].label => i = j

\* Incomes collects exactly the returning blocks of a copy.
LEMMA IncomesFacts ==
  ASSUME NEW blocks, IsSequence(blocks),
         \A a, b \in 1..Len(blocks) : blocks[a].label = blocks[b].label => a = b
  PROVE  IncomesOf(blocks, Len(blocks), Incomes(blocks))
<1> DEFINE n == Len(blocks)
           S == Seq(ToSet(blocks))
           upTo[k \in 0..n] ==
             IF k = 0 THEN <<>>
             ELSE IF Last(blocks[k].insns).op = "ret" /\ Last(blocks[k].insns).args # <<>>
             THEN Append(upTo[k - 1], blocks[k]) ELSE upTo[k - 1]
           More(k, q) == IF GivesBack(blocks[k]) THEN Append(q, blocks[k]) ELSE q
           step == [k \in 1..n |-> [q \in S |-> More(k, q)]]
<1>1. n \in Nat /\ DOMAIN blocks = 1..n
  BY SequenceFacts
<1>2. Incomes(blocks) = upTo[n]
  BY DEF Incomes
<1>3. <<>> \in S /\ \A q \in S : \A k \in 1..n : More(k, q) \in S
  <2>1. \A k \in 1..n : blocks[k] \in ToSet(blocks)
    BY <1>1 DEF ToSet
  <2> QED
    BY <2>1, EmptySeq, AppendProperties
<1>4. \E f : f = [k \in 0..n |-> IF k = 0 THEN <<>> ELSE More(k, f[k - 1])]
  <2> HIDE DEF S, n, upTo, More
  <2>1. step \in Steps(n, S)
    BY <1>3 DEF Steps
  <2> HIDE DEF step
  <2>2. PICK f : IsRecursion(f, n, S, <<>>, step)
    BY <1>1, <1>3, <2>1, Recursion
  <2>3. f \in [0..n -> S] /\ f[0] = <<>> /\ \A k \in 1..n : f[k] = step[k][f[k - 1]]
    BY <2>2 DEF IsRecursion
  <2>4. ASSUME NEW k \in 1..n PROVE f[k] = More(k, f[k - 1])
    <3>1. k - 1 \in 0..n
      BY <1>1
    <3>2. step[k][f[k - 1]] = More(k, f[k - 1])
      BY <2>3, <3>1 DEF step
    <3> QED
      BY <2>3, <3>2
  <2>5. \A k \in 0..n : f[k] = IF k = 0 THEN <<>> ELSE More(k, f[k - 1])
    BY <1>1, <2>3, <2>4
  <2>6. f = [k \in 0..n |-> IF k = 0 THEN <<>> ELSE More(k, f[k - 1])]
    BY <2>3, <2>5
  <2> QED
    BY <2>6
<1>5. upTo = [k \in 0..n |-> IF k = 0 THEN <<>> ELSE More(k, upTo[k - 1])]
  BY <1>4 DEF GivesBack
<1> HIDE DEF upTo, n, S, step
<1>6. upTo[0] = <<>> /\ \A k \in 0..n - 1 : upTo[k + 1] = More(k + 1, upTo[k])
  <2>1. 0 \in 0..n /\ \A k \in 0..n - 1 : k + 1 \in 0..n /\ k + 1 # 0 /\ (k + 1) - 1 = k
    BY <1>1
  <2> HIDE DEF More
  <2> QED
    BY <1>5, <2>1
<1> DEFINE D == {k \in 0..n : IncomesOf(blocks, k, upTo[k])}
<1>7. 0 \in D
  <2>1. <<>> \in Seq({}) /\ Len(<<>>) = 0
    BY EmptySeq
  <2>2. IsSequence(<<>>)
    BY <2>1, AnySequence
  <2> QED
    BY <1>1, <1>6, <2>1, <2>2 DEF IncomesOf
<1>8. ASSUME NEW k \in 0..n - 1, k \in D PROVE k + 1 \in D
  <2> DEFINE q == upTo[k]
             x == blocks[k + 1]
  <2>1. IncomesOf(blocks, k, q) /\ k + 1 \in 0..n /\ k + 1 \in 1..n /\ \A b \in 1..k + 1 : b = k + 1 \/ b \in 1..k
    BY <1>1, <1>8
  <2>2. Len(q) \in Nat /\ IsSequence(q)
    BY <2>1, SequenceFacts DEF IncomesOf
  <2>3. CASE ~GivesBack(x)
    <3>1. upTo[k + 1] = q
      BY <1>6, <2>3
    <3>2. IncomesOf(blocks, k + 1, q)
      <4> HIDE DEF q
      <4>1. \A b \in 1..k : b \in 1..k + 1
        BY <2>1
      <4> QED
        BY <2>1, <2>3, <4>1 DEF IncomesOf
    <3> QED
      BY <2>1, <3>1, <3>2
  <2>4. CASE GivesBack(x)
    <3> DEFINE r == Append(q, x)
    <3>1. upTo[k + 1] = r
      BY <1>6, <2>4
    <3>2. /\ IsSequence(r) /\ Len(r) = Len(q) + 1 /\ \A i \in 1..Len(q) : r[i] = q[i]
          /\ r[Len(q) + 1] = x
      BY <2>2, Longer
    <3>3. \A i \in 1..Len(r) : i = Len(q) + 1 \/ i \in 1..Len(q)
      BY <2>2, <3>2
    <3>4. \A i \in 1..Len(q) : i \in 1..Len(r)
      BY <2>2, <3>2
    <3>5. Len(q) + 1 \in 1..Len(r)
      BY <2>2, <3>2
    <3> HIDE DEF r, q
    <3>6. ASSUME NEW j \in 1..Len(r) PROVE \E b \in 1..k + 1 : r[j] = blocks[b] /\ GivesBack(blocks[b])
      <4>1. CASE j = Len(q) + 1
        BY <2>1, <2>4, <3>2, <4>1
      <4>2. CASE j \in 1..Len(q)
        <5>1. PICK b \in 1..k : q[j] = blocks[b] /\ GivesBack(blocks[b])
          BY <2>1, <4>2 DEF IncomesOf
        <5>2. r[j] = q[j] /\ b \in 1..k + 1
          BY <3>2, <4>2
        <5> QED
          BY <5>1, <5>2
      <4> QED
        BY <3>3, <4>1, <4>2
    <3>7. ASSUME NEW b \in 1..k + 1, GivesBack(blocks[b]) PROVE \E j \in 1..Len(r) : r[j] = blocks[b]
      <4>1. CASE b = k + 1
        BY <3>2, <3>5, <4>1
      <4>2. CASE b \in 1..k
        BY <2>1, <3>2, <3>4, <3>7, <4>2 DEF IncomesOf
      <4> QED
        BY <2>1, <4>1, <4>2
    <3>8. ASSUME NEW i \in 1..Len(q) PROVE r[i].label # x.label
      <4>1. PICK b \in 1..k : q[i] = blocks[b]
        BY <2>1 DEF IncomesOf
      <4>2. b \in 1..n /\ b # k + 1
        BY <1>1, <2>1
      <4> QED
        BY <2>1, <3>2, <4>1, <4>2 DEF n
    <3>9. \A i, j \in 1..Len(q) : r[i].label = r[j].label => i = j
      BY <2>1, <3>2 DEF IncomesOf
    <3>10. \A i, j \in 1..Len(r) : r[i].label = r[j].label => i = j
      BY <3>2, <3>3, <3>8, <3>9
    <3>11. IncomesOf(blocks, k + 1, r)
      BY <3>2, <3>6, <3>7, <3>10 DEF IncomesOf
    <3> QED
      BY <2>1, <3>1, <3>11
  <2> QED
    BY <2>3, <2>4
<1>9. n \in D
  <2> HIDE DEF D
  <2>1. \A k \in 0..n : k \in D
    BY <1>1, <1>7, <1>8, AllUpTo
  <2> QED
    BY <1>1, <2>1
<1> QED
  BY <1>2, <1>9 DEF n

-----------------------------------------------------------------------------
(* The blocks of a function after a call was inlined *)

\* The label of the split block becomes the label of the block behind the call.
Sub(l, s, e) == IF l = s THEN e ELSE l
\* A phi that received from the split block receives from the block behind the call.
Redirected(inst, s, e) ==
  IF inst.op # "phi" THEN inst
  ELSE Rewritten(inst, inst.dst, inst.args, [j \in DOMAIN inst.labels |-> Sub(inst.labels[j], s, e)])
\* The same for the instructions of a block.
RedirectedBlock(blk, s, e) ==
  [label |-> blk.label, insns |-> [j \in DOMAIN blk.insns |-> Redirected(blk.insns[j], s, e)]]

\* The call at instruction i of block b of f is the one to be inlined.
TheCall(f, b, i, g) ==
  /\ b \in 1..Len(f.blocks) /\ i \in 1..Len(f.blocks[b].insns)
  /\ f.blocks[b].insns[i].op = "call" /\ f.blocks[b].insns[i].callee = g.name
  /\ Len(f.blocks[b].insns[i].args) = g.nparams
  /\ f.blocks[b].insns[i].dst # NoReg => ReturnsValue(g)
\* The copy of g that is laid in at the call.
CopyAt(f, b, i, g, n) == Copy(g, n, Largest(f) + 1, f.blocks[b].insns[i].args)

\* The blocks of h = InlineAt(f, b, i, g, n), in their order.
BlocksOf(h, f, b, i, g, n) ==
  LET s == f.blocks[b].label
      e == Ending(g, n)
      m == Len(g.blocks)
      copy == CopyAt(f, b, i, g, n)
  IN /\ h.name = f.name /\ h.nparams = f.nparams
     /\ IsSequence(h.blocks) /\ Len(h.blocks) = Len(f.blocks) + m + 1
     /\ \A k \in 1..b - 1 : h.blocks[k] = RedirectedBlock(f.blocks[k], s, e)
     /\ h.blocks[b] = RedirectedBlock(Left(f.blocks[b], i, copy[1].label), s, e)
     /\ \A x \in 1..m : h.blocks[b + x] = RedirectedBlock(ReturnsTo(copy, e)[x], s, e)
     /\ h.blocks[b + m + 1] = RedirectedBlock(Right(f.blocks[b], i, copy, e), s, e)
     /\ \A k \in b + 1..Len(f.blocks) : h.blocks[k + m + 1] = RedirectedBlock(f.blocks[k], s, e)

\* The two splices of InlineAt put the blocks in that order.
LEMMA SplicedBlocks ==
  ASSUME NEW f, NEW b, NEW i, NEW g, NEW n, Formed(f), Formed(g), b \in 1..Len(f.blocks)
  PROVE  BlocksOf(InlineAt(f, b, i, g, n), f, b, i, g, n)
<1> DEFINE h == InlineAt(f, b, i, g, n)
           s == f.blocks[b].label
           e == Ending(g, n)
           m == Len(g.blocks)
           N == Len(f.blocks)
           copy == CopyAt(f, b, i, g, n)
           returned == ReturnsTo(copy, e)
           left == Left(f.blocks[b], i, copy[1].label)
           right == Right(f.blocks[b], i, copy, e)
           one == SubSeq(f.blocks, 1, b - 1)
           two == one \o <<left>>
           three == two \o returned
           four == three \o <<right>>
           five == SubSeq(f.blocks, b + 1, N)
           all == four \o five
<1>1. N \in Nat /\ m \in Nat /\ IsSequence(f.blocks) /\ DOMAIN g.blocks = 1..m
  BY FormedAt, FormedSizes DEF BlocksFormed
<1>2. /\ h.name = f.name /\ h.nparams = f.nparams
      /\ h.blocks = [k \in DOMAIN all |-> RedirectedBlock(all[k], s, e)]
  <2> DEFINE r == [name |-> f.name, nparams |-> f.nparams, blocks |-> all]
  <2>1. h = RedirectPhis(r, s, e)
    BY DEF InlineAt, CopyAt
  <2>2. r.name = f.name /\ r.nparams = f.nparams /\ r.blocks = all
    OBVIOUS
  <2> HIDE DEF r, h, all, s, e
  <2>3. /\ h.name = r.name /\ h.nparams = r.nparams
        /\ h.blocks = [k \in DOMAIN r.blocks |-> RedirectedBlock(r.blocks[k], s, e)]
    BY <2>1 DEF RedirectPhis, MapInsns, RedirectedBlock, Redirected, Sub
  <2> QED
    BY <2>2, <2>3
<1>3. IsSequence(returned) /\ Len(returned) = m
  <2>1. returned = [x \in 1..m |-> returned[x]]
    BY <1>1 DEF ReturnsTo, CopyAt, Copy
  <2> HIDE DEF returned, m
  <2> QED
    BY <1>1, <2>1, MadeSequence
<1>4. IsSequence(one) /\ Len(one) = b - 1 /\ \A k \in 1..b - 1 : one[k] = f.blocks[k]
  <2>1. 1 \in Nat \ {0} /\ b - 1 \in Nat /\ b - 1 <= N /\ 1 <= (b - 1) + 1
    BY <1>1
  <2>2. /\ IsSequence(one) /\ Len(one) = (b - 1) - 1 + 1
        /\ \A k \in 1..(b - 1) - 1 + 1 : one[k] = f.blocks[1 + k - 1]
    BY <1>1, <2>1, Part
  <2> HIDE DEF one, N
  <2> QED
    BY <1>1, <2>1, <2>2
<1>5. IsSequence(five) /\ Len(five) = N - b /\ \A k \in 1..N - b : five[k] = f.blocks[b + k]
  <2>1. b + 1 \in Nat \ {0} /\ N <= N /\ b + 1 <= N + 1
    BY <1>1
  <2>2. /\ IsSequence(five) /\ Len(five) = N - (b + 1) + 1
        /\ \A k \in 1..N - (b + 1) + 1 : five[k] = f.blocks[(b + 1) + k - 1]
    BY <1>1, <2>1, Part
  <2>3. N - (b + 1) + 1 = N - b /\ \A k \in 1..N - b : (b + 1) + k - 1 = b + k
    BY <1>1
  <2> HIDE DEF five, N
  <2> QED
    BY <2>2, <2>3
<1> HIDE DEF one, five, left, right, returned, h, N, m
<1>6. /\ IsSequence(two) /\ Len(two) = b /\ two[b] = left
      /\ \A k \in 1..b - 1 : two[k] = f.blocks[k]
  <2>1. IsSequence(<<left>>) /\ Len(<<left>>) = 1 /\ <<left>>[1] = left
    BY Single
  <2>2. /\ IsSequence(two) /\ Len(two) = Len(one) + Len(<<left>>)
        /\ \A k \in 1..Len(one) : two[k] = one[k]
        /\ \A k \in 1..Len(<<left>>) : two[Len(one) + k] = <<left>>[k]
    BY <1>4, <2>1, Joined
  <2>3. (b - 1) + 1 = b
    BY <1>1
  <2>4. two[(b - 1) + 1] = left
    BY <1>4, <2>1, <2>2
  <2> QED
    BY <1>4, <2>1, <2>2, <2>3, <2>4
<1> HIDE DEF two
<1>7. /\ IsSequence(three) /\ Len(three) = b + m
      /\ \A k \in 1..b : three[k] = two[k]
      /\ \A x \in 1..m : three[b + x] = returned[x]
  <2>0. IsSequence(two) /\ IsSequence(returned)
    BY <1>3, <1>6
  <2>1. /\ IsSequence(three) /\ Len(three) = Len(two) + Len(returned)
        /\ \A k \in 1..Len(two) : three[k] = two[k]
        /\ \A k \in 1..Len(returned) : three[Len(two) + k] = returned[k]
    BY <2>0, Joined
  <2> HIDE DEF three
  <2> QED
    BY <1>3, <1>6, <2>1
<1> HIDE DEF three
<1>8. /\ IsSequence(four) /\ Len(four) = b + m + 1
      /\ \A k \in 1..b + m : four[k] = three[k]
      /\ four[b + m + 1] = right
  <2>1. IsSequence(<<right>>) /\ Len(<<right>>) = 1 /\ <<right>>[1] = right
    BY Single
  <2>2. /\ IsSequence(four) /\ Len(four) = Len(three) + Len(<<right>>)
        /\ \A k \in 1..Len(three) : four[k] = three[k]
        /\ \A k \in 1..Len(<<right>>) : four[Len(three) + k] = <<right>>[k]
    BY <1>7, <2>1, Joined
  <2> QED
    BY <1>1, <1>7, <2>1, <2>2
<1> HIDE DEF four
<1>9. /\ IsSequence(all) /\ Len(all) = (b + m + 1) + (N - b)
      /\ \A k \in 1..b + m + 1 : all[k] = four[k]
      /\ \A k \in 1..N - b : all[(b + m + 1) + k] = five[k]
  <2>0. IsSequence(four) /\ IsSequence(five)
    BY <1>5, <1>8
  <2>1. /\ IsSequence(all) /\ Len(all) = Len(four) + Len(five)
        /\ \A k \in 1..Len(four) : all[k] = four[k]
        /\ \A k \in 1..Len(five) : all[Len(four) + k] = five[k]
    BY <2>0, Joined
  <2> HIDE DEF all
  <2> DEFINE L == b + m + 1
             K == N - b
  <2>2. Len(four) = L /\ Len(five) = K
    BY <1>5, <1>8
  <2> HIDE DEF L, K
  <2>3. /\ IsSequence(all) /\ Len(all) = L + K
        /\ \A k \in 1..L : all[k] = four[k]
        /\ \A k \in 1..K : all[L + k] = five[k]
    BY <2>1, <2>2
  <2> QED
    BY <2>3 DEF L, K
<1> HIDE DEF all
<1>10. /\ DOMAIN all = 1..N + m + 1 /\ Len(all) = N + m + 1
       /\ \A k \in 1..b - 1 : all[k] = f.blocks[k]
       /\ all[b] = left
       /\ \A x \in 1..m : all[b + x] = returned[x]
       /\ all[b + m + 1] = right
       /\ \A k \in b + 1..N : all[k + m + 1] = f.blocks[k]
  <2>1. Len(all) = N + m + 1
    BY <1>1, <1>9
  <2>2. DOMAIN all = 1..N + m + 1
    BY <1>9, <2>1, SequenceFacts
  <2>3. ASSUME NEW k \in 1..b - 1 PROVE all[k] = f.blocks[k]
    BY <1>1, <1>6, <1>7, <1>8, <1>9
  <2>4. all[b] = left
    BY <1>1, <1>6, <1>7, <1>8, <1>9
  <2>5. ASSUME NEW x \in 1..m PROVE all[b + x] = returned[x]
    <3>1. b + x \in 1..b + m /\ b + x \in 1..b + m + 1
      BY <1>1
    <3> QED
      BY <1>7, <1>8, <1>9, <3>1
  <2>6. all[b + m + 1] = right
    BY <1>1, <1>8, <1>9
  <2>7. ASSUME NEW k \in b + 1..N PROVE all[k + m + 1] = f.blocks[k]
    <3>1. k - b \in 1..N - b /\ (b + m + 1) + (k - b) = k + m + 1 /\ b + (k - b) = k
      BY <1>1
    <3>2. all[(b + m + 1) + (k - b)] = five[k - b] /\ five[k - b] = f.blocks[b + (k - b)]
      BY <1>5, <1>9, <3>1
    <3> QED
      BY <3>1, <3>2
  <2> QED
    BY <2>1, <2>2, <2>3, <2>4, <2>5, <2>6, <2>7
<1>11. /\ IsSequence(h.blocks) /\ Len(h.blocks) = N + m + 1
       /\ \A k \in 1..N + m + 1 : h.blocks[k] = RedirectedBlock(all[k], s, e)
  <2>1. h.blocks = [k \in 1..N + m + 1 |-> h.blocks[k]] /\ N + m + 1 \in Nat
    BY <1>1, <1>2, <1>10
  <2>2. \A k \in 1..N + m + 1 : h.blocks[k] = RedirectedBlock(all[k], s, e)
    BY <1>2, <1>10
  <2> QED
    BY <2>1, <2>2, MadeSequence
<1>12. /\ \A k \in 1..b - 1 : k \in 1..N + m + 1
       /\ b \in 1..N + m + 1 /\ b + m + 1 \in 1..N + m + 1
       /\ \A x \in 1..m : b + x \in 1..N + m + 1
       /\ \A k \in b + 1..N : k + m + 1 \in 1..N + m + 1
  BY <1>1 DEF N
<1>13. /\ \A k \in 1..b - 1 : h.blocks[k] = RedirectedBlock(f.blocks[k], s, e)
       /\ h.blocks[b] = RedirectedBlock(left, s, e)
       /\ \A x \in 1..m : h.blocks[b + x] = RedirectedBlock(returned[x], s, e)
       /\ h.blocks[b + m + 1] = RedirectedBlock(right, s, e)
       /\ \A k \in b + 1..N : h.blocks[k + m + 1] = RedirectedBlock(f.blocks[k], s, e)
  BY <1>10, <1>11, <1>12
<1> QED
  BY <1>2, <1>11, <1>13 DEF BlocksOf, h, N, m, left, right, returned

\* Where each block of h = InlineAt(f, b, i, g, n) comes from.
KeptBlock(h, k, f, j, s, e) ==
  /\ h.blocks[k].label = f.blocks[j].label /\ IsSequence(h.blocks[k].insns)
  /\ Len(h.blocks[k].insns) = Len(f.blocks[j].insns)
  /\ \A x \in 1..Len(f.blocks[j].insns) : h.blocks[k].insns[x] = Redirected(f.blocks[j].insns[x], s, e)
\* The first half of the block of the call ends in a branch to the copy of the entry.
LeftBlock(h, f, b, i, g, n) ==
  /\ h.blocks[b].label = f.blocks[b].label /\ IsSequence(h.blocks[b].insns) /\ Len(h.blocks[b].insns) = i
  /\ \A x \in 1..i - 1 : h.blocks[b].insns[x] = Redirected(f.blocks[b].insns[x], f.blocks[b].label, Ending(g, n))
  /\ h.blocks[b].insns[i] = Br(Tag(g.blocks[1].label, g.name, n))
\* A block of the copy: renamed instructions, and returns made branches.
CopiedBlock(h, k, f, b, i, g, n, x) ==
  LET of == g.blocks[x].insns
      offset == Largest(f) + 1
      args == f.blocks[b].insns[i].args
  IN /\ h.blocks[k].label = Tag(g.blocks[x].label, g.name, n) /\ IsSequence(h.blocks[k].insns)
     /\ Len(h.blocks[k].insns) = Len(of)
     /\ \A y \in 1..Len(of) :
          h.blocks[k].insns[y] =
            IF of[y].op = "ret" THEN Br(Ending(g, n))
            ELSE Redirected(Renamed(of[y], g, n, offset, args), f.blocks[b].label, Ending(g, n))
\* A call with a result leaves a phi at the head of the second half.
Gap(f, b, i) == IF f.blocks[b].insns[i].dst = NoReg THEN 0 ELSE 1
\* The second half: the phi, when there is a result, then what followed the call.
RightBlock(h, k, f, b, i, g, n) ==
  LET of == f.blocks[b].insns
  IN /\ h.blocks[k].label = Ending(g, n) /\ IsSequence(h.blocks[k].insns)
     /\ Len(h.blocks[k].insns) = Len(of) - i + Gap(f, b, i)
     /\ of[i].dst # NoReg =>
          h.blocks[k].insns[1] =
            Redirected(ResultPhi(of[i].dst, CopyAt(f, b, i, g, n)), f.blocks[b].label, Ending(g, n))
     /\ \A x \in i + 1..Len(of) :
          h.blocks[k].insns[x - i + Gap(f, b, i)] = Redirected(of[x], f.blocks[b].label, Ending(g, n))
\* All blocks of h.
Spliced(h, f, b, i, g, n) ==
  LET m == Len(g.blocks)
      s == f.blocks[b].label
      e == Ending(g, n)
  IN /\ h.name = f.name /\ h.nparams = f.nparams
     /\ IsSequence(h.blocks) /\ Len(h.blocks) = Len(f.blocks) + m + 1
     /\ \A k \in 1..b - 1 : KeptBlock(h, k, f, k, s, e)
     /\ LeftBlock(h, f, b, i, g, n)
     /\ \A x \in 1..m : CopiedBlock(h, b + x, f, b, i, g, n, x)
     /\ RightBlock(h, b + m + 1, f, b, i, g, n)
     /\ \A k \in b + 1..Len(f.blocks) : KeptBlock(h, k + m + 1, f, k, s, e)

\* Redirecting changes nothing but the labels of a phi.
LEMMA RedirectedFacts ==
  ASSUME NEW inst, NEW s, NEW e
  PROVE  LET r == Redirected(inst, s, e)
         IN /\ r.op = inst.op /\ r.dst = inst.dst /\ r.args = inst.args /\ r.callee = inst.callee
            /\ inst.op # "phi" => r = inst
            /\ inst.op = "phi" => r.labels = [j \in DOMAIN inst.labels |-> Sub(inst.labels[j], s, e)]
BY DEF Redirected, Rewritten

\* A branch is left alone.
LEMMA BrRedirected == ASSUME NEW l, NEW s, NEW e PROVE Redirected(Br(l), s, e) = Br(l)
BY DEF Redirected, Br

\* The instructions of a redirected block.
LEMMA RedirectedBlockFacts ==
  ASSUME NEW blk, NEW s, NEW e, IsSequence(blk.insns)
  PROVE  LET r == RedirectedBlock(blk, s, e)
         IN /\ r.label = blk.label /\ IsSequence(r.insns) /\ Len(r.insns) = Len(blk.insns)
            /\ \A x \in 1..Len(blk.insns) : r.insns[x] = Redirected(blk.insns[x], s, e)
<1> DEFINE r == RedirectedBlock(blk, s, e)
<1>1. Len(blk.insns) \in Nat /\ DOMAIN blk.insns = 1..Len(blk.insns)
  BY SequenceFacts
<1>2. r.label = blk.label /\ r.insns = [x \in 1..Len(blk.insns) |-> Redirected(blk.insns[x], s, e)]
  BY <1>1 DEF RedirectedBlock
<1>3. \A x \in 1..Len(blk.insns) : r.insns[x] = Redirected(blk.insns[x], s, e)
  BY <1>2
<1>4. r.insns = [x \in 1..Len(blk.insns) |-> r.insns[x]]
  BY <1>2
<1> HIDE DEF r
<1>5. IsSequence(r.insns) /\ Len(r.insns) = Len(blk.insns)
  BY <1>1, <1>4, MadeSequence
<1> QED
  BY <1>2, <1>3, <1>5 DEF r

\* How the places behind the call move: the arithmetic of a block's second half.
LEMMA SuffixPlaces ==
  ASSUME NEW L \in Nat, NEW i \in Nat, i <= L
  PROVE  /\ L - (i + 1) + 1 = L - i /\ L - i + 0 = L - i
         /\ 1 + (L - i) = L - i + 1 /\ L - i + 1 >= 1
         /\ \A x \in i + 1..L : /\ x - i \in 1..L - i /\ (i + 1) + (x - i) - 1 = x
                                /\ x - i + 0 = x - i /\ 1 + (x - i) = x - i + 1
                                /\ x - i + 1 \in 1..L - i + 1
OBVIOUS

\* InlineAt makes the blocks Spliced lists.
LEMMA InlinedIsSpliced ==
  ASSUME NEW f, NEW b, NEW i, NEW g, NEW n, Formed(f), Formed(g), TheCall(f, b, i, g)
  PROVE  Spliced(InlineAt(f, b, i, g, n), f, b, i, g, n)
<1> DEFINE h == InlineAt(f, b, i, g, n)
           s == f.blocks[b].label
           e == Ending(g, n)
           m == Len(g.blocks)
           N == Len(f.blocks)
           copy == CopyAt(f, b, i, g, n)
           of == f.blocks[b].insns
           R(blk) == RedirectedBlock(blk, s, e)
<1>0. b \in 1..N /\ i \in 1..Len(of) /\ b \in Nat \ {0} /\ i \in Nat \ {0}
  <2>1. b \in 1..N /\ i \in 1..Len(of)
    BY DEF TheCall
  <2>2. N \in Nat /\ Len(of) \in Nat
    BY <2>1, FormedSizes
  <2> QED
    BY <2>1, <2>2
<1>1. /\ h.name = f.name /\ h.nparams = f.nparams
      /\ IsSequence(h.blocks) /\ Len(h.blocks) = N + m + 1
      /\ \A k \in 1..b - 1 : h.blocks[k] = R(f.blocks[k])
      /\ h.blocks[b] = R(Left(f.blocks[b], i, copy[1].label))
      /\ \A x \in 1..m : h.blocks[b + x] = R(ReturnsTo(copy, e)[x])
      /\ h.blocks[b + m + 1] = R(Right(f.blocks[b], i, copy, e))
      /\ \A k \in b + 1..N : h.blocks[k + m + 1] = R(f.blocks[k])
  <2>1. BlocksOf(h, f, b, i, g, n)
    BY <1>0, SplicedBlocks
  <2> HIDE DEF h
  <2> QED
    BY <2>1 DEF BlocksOf
<1>2. N \in Nat /\ m \in Nat \ {0} /\ DOMAIN g.blocks = 1..m
  BY FormedSizes
<1>3. /\ \A k \in 1..N : IsSequence(f.blocks[k].insns)
      /\ \A x \in 1..m : IsSequence(g.blocks[x].insns)
  BY FormedAt DEF BlocksFormed
<1>4. \A x \in 1..m : /\ Len(g.blocks[x].insns) \in Nat
                     /\ DOMAIN g.blocks[x].insns = 1..Len(g.blocks[x].insns)
  BY <1>3, SequenceFacts
<1> HIDE DEF h, N, m, R
<1>5. ASSUME NEW k, NEW j \in 1..N, h.blocks[k] = R(f.blocks[j]) PROVE KeptBlock(h, k, f, j, s, e)
  BY <1>3, <1>5, RedirectedBlockFacts DEF KeptBlock, R
<1>6. LeftBlock(h, f, b, i, g, n)
  <2> DEFINE entry == copy[1].label
             left == Left(f.blocks[b], i, entry)
             one == SubSeq(of, 1, i - 1)
  <2>1. /\ IsSequence(of) /\ Len(of) \in Nat /\ i - 1 \in Nat /\ i - 1 <= Len(of)
        /\ (i - 1) - 1 + 1 = i - 1 /\ i \in Nat \ {0}
    BY <1>0, <1>3, SequenceFacts
  <2>2. /\ IsSequence(one) /\ Len(one) = (i - 1) - 1 + 1
        /\ \A x \in 1..(i - 1) - 1 + 1 : one[x] = of[1 + x - 1]
    <3>1. 1 \in Nat \ {0} /\ 1 <= (i - 1) + 1
      BY <2>1
    <3> HIDE DEF of
    <3> QED
      BY <2>1, <3>1, Part
  <2>3. IsSequence(one) /\ Len(one) = i - 1 /\ \A x \in 1..i - 1 : one[x] = of[x]
    <3> HIDE DEF one
    <3> QED
      BY <2>1, <2>2
  <2>4. left.label = s /\ left.insns = Append(one, Br(entry))
    BY DEF Left
  <2> HIDE DEF one, left, entry
  <2>5. /\ IsSequence(left.insns) /\ Len(left.insns) = i
        /\ \A x \in 1..i - 1 : left.insns[x] = of[x]
        /\ left.insns[i] = Br(entry)
    <3>1. (i - 1) + 1 = i
      BY <2>1
    <3> QED
      BY <2>3, <2>4, <3>1, Longer
  <2>6. entry = Tag(g.blocks[1].label, g.name, n)
    BY <1>2 DEF entry, CopyAt, Copy
  <2>7. h.blocks[b] = R(left)
    BY <1>1 DEF left, entry
  <2>8. /\ R(left).label = left.label /\ IsSequence(R(left).insns) /\ Len(R(left).insns) = i
        /\ \A x \in 1..i : R(left).insns[x] = Redirected(left.insns[x], s, e)
    BY <2>5, RedirectedBlockFacts DEF R
  <2>9. Redirected(Br(entry), s, e) = Br(entry)
    BY BrRedirected
  <2>10. i \in 1..i /\ \A x \in 1..i - 1 : x \in 1..i
    BY <2>1
  <2> QED
    BY <2>4, <2>5, <2>6, <2>7, <2>8, <2>9, <2>10 DEF LeftBlock
<1>7. ASSUME NEW x \in 1..m PROVE CopiedBlock(h, b + x, f, b, i, g, n, x)
  <2> DEFINE blk == ReturnsTo(copy, e)[x]
             from == g.blocks[x].insns
             r(y) == Renamed(from[y], g, n, Largest(f) + 1, of[i].args)
  <2>1. /\ blk.label = Tag(g.blocks[x].label, g.name, n)
        /\ blk.insns = [y \in 1..Len(from) |-> IF r(y).op = "ret" THEN Br(e) ELSE r(y)]
    BY <1>2, <1>4 DEF ReturnsTo, CopyAt, Copy
  <2>2. \A y : r(y).op = from[y].op
    BY DEF Renamed, Rewritten
  <2>3. h.blocks[b + x] = R(blk)
    BY <1>1
  <2> HIDE DEF blk, r
  <2>4. \A y \in 1..Len(from) : blk.insns[y] = IF from[y].op = "ret" THEN Br(e) ELSE r(y)
    BY <2>1, <2>2
  <2>5. IsSequence(blk.insns) /\ Len(blk.insns) = Len(from)
    <3>1. blk.insns = [y \in 1..Len(from) |-> blk.insns[y]]
      BY <2>1
    <3> QED
      BY <1>4, <3>1, MadeSequence
  <2>6. /\ R(blk).label = blk.label /\ IsSequence(R(blk).insns) /\ Len(R(blk).insns) = Len(blk.insns)
        /\ \A y \in 1..Len(blk.insns) : R(blk).insns[y] = Redirected(blk.insns[y], s, e)
    BY <2>5, RedirectedBlockFacts DEF R
  <2>7. Redirected(Br(e), s, e) = Br(e)
    BY BrRedirected
  <2>8. ASSUME NEW y \in 1..Len(from)
        PROVE  h.blocks[b + x].insns[y] =
                 IF from[y].op = "ret" THEN Br(e)
                 ELSE Redirected(Renamed(from[y], g, n, Largest(f) + 1, of[i].args), s, e)
    <3>1. h.blocks[b + x].insns[y] = Redirected(blk.insns[y], s, e)
      BY <2>3, <2>5, <2>6
    <3>2. CASE from[y].op = "ret"
      BY <2>4, <2>7, <3>1, <3>2
    <3>3. CASE from[y].op # "ret"
      BY <2>4, <3>1, <3>3 DEF r
    <3> QED
      BY <3>2, <3>3
  <2> HIDE DEF from
  <2> QED
    BY <2>1, <2>3, <2>5, <2>6, <2>8 DEF CopiedBlock, from
<1>8. RightBlock(h, b + m + 1, f, b, i, g, n)
  <2> DEFINE right == Right(f.blocks[b], i, copy, e)
             rest == SubSeq(of, i + 1, Len(of))
             d == Gap(f, b, i)
             phi == ResultPhi(of[i].dst, copy)
  <2>1. IsSequence(of) /\ Len(of) \in Nat /\ i + 1 \in Nat \ {0} /\ Len(of) <= Len(of) /\ i + 1 <= Len(of) + 1
    BY <1>0, <1>3, SequenceFacts
  <2>2. /\ IsSequence(rest) /\ Len(rest) = Len(of) - (i + 1) + 1
        /\ \A x \in 1..Len(of) - (i + 1) + 1 : rest[x] = of[(i + 1) + x - 1]
    <3> HIDE DEF of
    <3> QED
      BY <2>1, Part
  <2>3. /\ IsSequence(rest) /\ Len(rest) = Len(of) - i
        /\ \A x \in i + 1..Len(of) : x - i \in 1..Len(of) - i /\ rest[x - i] = of[x]
    <3> HIDE DEF rest
    <3> HIDE DEF of
    <3>1. Len(of) - (i + 1) + 1 = Len(of) - i /\ \A x \in i + 1..Len(of) : x - i \in 1..Len(of) - i /\ (i + 1) + (x - i) - 1 = x
      BY <1>0, <2>1, SuffixPlaces
    <3> QED
      BY <2>2, <3>1
  <2>4. /\ right.label = e
        /\ right.insns = IF of[i].dst = NoReg THEN rest ELSE <<phi>> \o rest
    BY DEF Right
  <2>5. h.blocks[b + m + 1] = R(right)
    BY <1>1
  <2> HIDE DEF right, rest, phi
  <2>6. /\ IsSequence(right.insns) /\ Len(right.insns) = Len(of) - i + d
        /\ of[i].dst # NoReg => Len(right.insns) >= 1 /\ right.insns[1] = phi
        /\ \A x \in i + 1..Len(of) : /\ right.insns[x - i + d] = of[x]
                                   /\ x - i + d \in 1..Len(right.insns)
    <3>1. CASE of[i].dst = NoReg
      <4>1. d = 0 /\ right.insns = rest
        BY <2>4, <3>1 DEF Gap
      <4> HIDE DEF of
      <4>2. \A x \in i + 1..Len(of) : x - i + 0 = x - i
        BY <1>0, <2>1, SuffixPlaces
      <4>3. Len(of) - i + 0 = Len(of) - i
        BY <1>0, <2>1, SuffixPlaces
      <4> HIDE DEF d
      <4> QED
        BY <2>3, <3>1, <4>1, <4>2, <4>3
    <3>2. CASE of[i].dst # NoReg
      <4>1. d = 1 /\ right.insns = <<phi>> \o rest
        BY <2>4, <3>2 DEF Gap
      <4>2. IsSequence(<<phi>>) /\ Len(<<phi>>) = 1 /\ <<phi>>[1] = phi
        BY Single
      <4>3. /\ IsSequence(right.insns) /\ Len(right.insns) = 1 + (Len(of) - i)
            /\ \A x \in 1..1 : right.insns[x] = <<phi>>[x]
            /\ \A x \in 1..Len(of) - i : right.insns[1 + x] = rest[x]
        <5> HIDE DEF of
        <5>1. /\ IsSequence(<<phi>> \o rest) /\ Len(<<phi>> \o rest) = Len(<<phi>>) + Len(rest)
              /\ \A x \in 1..Len(<<phi>>) : (<<phi>> \o rest)[x] = <<phi>>[x]
              /\ \A x \in 1..Len(rest) : (<<phi>> \o rest)[Len(<<phi>>) + x] = rest[x]
          BY <2>3, <4>2, Joined
        <5> QED
          BY <2>3, <4>1, <4>2, <5>1
      <4>4. \A x \in i + 1..Len(of) : x - i \in 1..Len(of) - i /\ 1 + (x - i) = x - i + 1
        <5> HIDE DEF of
        <5> QED
          BY <1>0, <2>1, SuffixPlaces
      <4>5. \A x \in i + 1..Len(of) : right.insns[x - i + 1] = of[x]
        BY <2>3, <4>3, <4>4
      <4>6. 1 + (Len(of) - i) = Len(of) - i + 1 /\ Len(of) - i + 1 >= 1
        <5> HIDE DEF of
        <5> QED
          BY <1>0, <2>1, SuffixPlaces
      <4>7. \A x \in i + 1..Len(of) : x - i + 1 \in 1..Len(of) - i + 1
        <5> HIDE DEF of
        <5> QED
          BY <1>0, <2>1, SuffixPlaces
      <4> HIDE DEF d, of
      <4> QED
        BY <4>1, <4>2, <4>3, <4>5, <4>6, <4>7
    <3> QED
      BY <3>1, <3>2
  <2>7. Len(right.insns) \in Nat
    BY <2>6, SequenceFacts
  <2>8. /\ R(right).label = right.label /\ IsSequence(R(right).insns) /\ Len(R(right).insns) = Len(right.insns)
        /\ \A x \in 1..Len(right.insns) : R(right).insns[x] = Redirected(right.insns[x], s, e)
    BY <2>6, RedirectedBlockFacts DEF R
  <2>9. of[i].dst # NoReg => R(right).insns[1] = Redirected(phi, s, e)
    BY <2>6, <2>7, <2>8
  <2>10. \A x \in i + 1..Len(of) : R(right).insns[x - i + d] = Redirected(of[x], s, e)
    BY <2>6, <2>8
  <2> QED
    BY <2>4, <2>5, <2>6, <2>8, <2>9, <2>10 DEF RightBlock, phi
<1>9. \A k \in 1..b - 1 : k \in 1..N
  BY <1>0, <1>2
<1>10. \A k \in b + 1..N : k \in 1..N
  BY <1>0, <1>2
<1>11. ASSUME NEW k \in 1..b - 1 PROVE KeptBlock(h, k, f, k, s, e)
  BY <1>1, <1>5, <1>9
<1>12. ASSUME NEW k \in b + 1..N PROVE KeptBlock(h, k + m + 1, f, k, s, e)
  BY <1>1, <1>5, <1>10
<1>13. Spliced(h, f, b, i, g, n)
  BY <1>1, <1>6, <1>7, <1>8, <1>11, <1>12 DEF Spliced, N, m
<1> QED
  BY <1>13 DEF h

-----------------------------------------------------------------------------
(* The labels of the copy *)

\* What inlining call number n of g in f needs of their labels: those of the
\* copy and the one after it are new in f and differ from each other.
Apart(f, g, n) ==
  /\ \A l \in Labels(g) : Tag(l, g.name, n) \notin Labels(f) /\ Tag(l, g.name, n) # Ending(g, n)
  /\ \A l, k \in Labels(g) : Tag(l, g.name, n) = Tag(k, g.name, n) => l = k
  /\ Ending(g, n) \notin Labels(f)

\* Tagging a label extends its appendix by one entry.
LEMMA TagFacts ==
  ASSUME NEW l, IsLabel(l), NEW name, NEW n
  PROVE  LET t == Tag(l, name, n)
         IN /\ IsLabel(t) /\ Len(l[3]) \in Nat /\ Len(t[3]) = Len(l[3]) + 1 /\ t[3] # <<>>
            /\ t[1] = l[1] /\ t[2] = l[2] /\ t[3] = Append(l[3], <<name, n>>)
            /\ DOMAIN l[3] = 1..Len(l[3]) /\ DOMAIN t[3] = 1..Len(l[3]) + 1
            /\ \A x \in 1..Len(l[3]) : t[3][x] = l[3][x]
            /\ t[3][Len(l[3]) + 1] = <<name, n>>
<1> DEFINE t == Tag(l, name, n)
<1>1. IsSequence(l[3]) /\ Len(l[3]) \in Nat /\ DOMAIN l[3] = 1..Len(l[3])
  BY SequenceFacts DEF IsLabel
<1>2. t = <<l[1], l[2], Append(l[3], <<name, n>>)>>
  BY DEF Tag
<1>3. t[1] = l[1] /\ t[2] = l[2] /\ t[3] = Append(l[3], <<name, n>>) /\ t = <<t[1], t[2], t[3]>>
  BY <1>2
<1> HIDE DEF t
<1>4. /\ IsSequence(t[3]) /\ Len(t[3]) = Len(l[3]) + 1 /\ \A x \in 1..Len(l[3]) : t[3][x] = l[3][x]
      /\ t[3][Len(l[3]) + 1] = <<name, n>>
  BY <1>1, <1>3, Longer
<1>5. DOMAIN t[3] = 1..Len(l[3]) + 1 /\ t[3] # <<>>
  BY <1>1, <1>4, SequenceFacts
<1> QED
  BY <1>1, <1>3, <1>4, <1>5 DEF IsLabel, t

\* The label behind the call is marked as the pass's own.
LEMMA EndingFacts ==
  ASSUME NEW g, NEW n
  PROVE  LET e == Ending(g, n)
         IN /\ IsLabel(e) /\ e[1] = "inline_exit" /\ e[3] # <<>> /\ Len(e[3]) = 1
            /\ DOMAIN e[3] = {1} /\ e[3][1] = <<g.name, n>>
<1> DEFINE e == Ending(g, n)
           x == <<g.name, n>>
<1>1. e = <<"inline_exit", n, <<x>>>>
  BY DEF Ending
<1>2. e[1] = "inline_exit" /\ e[2] = n /\ e[3] = <<x>>
  BY <1>1
<1> HIDE DEF e, x
<1>3. IsSequence(<<x>>) /\ Len(<<x>>) = 1 /\ <<x>>[1] = x
  BY Single
<1>4. <<x>> # <<>> /\ DOMAIN <<x>> = 1..1
  BY <1>3, SequenceFacts
<1>5. e = <<e[1], e[2], e[3]>>
  BY <1>1, <1>2
<1> QED
  BY <1>2, <1>3, <1>4, <1>5 DEF IsLabel, e, x

\* With a number larger than those used so far the labels of the copy are new:
\* inline_hint, incremented for every inlined call.
LEMMA Freshness ==
  ASSUME NEW f, NEW g, NEW n \in Nat, Known(f), Known(g), MentionsUpTo(f, g.name, n - 1)
  PROVE  Apart(f, g, n)
<1> DEFINE T(l) == Tag(l, g.name, n)
           e == Ending(g, n)
<1>1. \A l \in Labels(g) : IsLabel(l) /\ (l[1] = "inline_exit" => l[3] # <<>>)
  BY DEF Known
<1>2. ASSUME NEW l, IsLabel(l), NEW x \in DOMAIN l[3], l[3][x] = <<g.name, n>> PROVE l \notin Labels(f)
  <2>1. l[3][x][1] = g.name /\ l[3][x][2] = n /\ ~(n <= n - 1)
    BY <1>2
  <2> QED
    BY <2>1 DEF MentionsUpTo
<1>3. ASSUME NEW l \in Labels(g) PROVE T(l) \notin Labels(f)
  <2>1. IsLabel(l)
    BY <1>1
  <2>2. /\ IsLabel(T(l)) /\ Len(l[3]) + 1 \in DOMAIN T(l)[3]
        /\ T(l)[3][Len(l[3]) + 1] = <<g.name, n>>
    BY <2>1, TagFacts
  <2> QED
    BY <1>2, <2>2
<1>4. ASSUME NEW l \in Labels(g) PROVE T(l) # e
  <2>1. IsLabel(l) /\ (l[1] = "inline_exit" => l[3] # <<>>)
    BY <1>1
  <2>2. /\ Len(l[3]) \in Nat /\ T(l)[1] = l[1] /\ Len(T(l)[3]) = Len(l[3]) + 1
        /\ e[1] = "inline_exit" /\ Len(e[3]) = 1
    BY <2>1, TagFacts, EndingFacts
  <2>3. l[3] # <<>> => Len(l[3]) > 0
    BY <2>1, SequenceFacts DEF IsLabel
  <2> HIDE DEF T, e
  <2>4. CASE T(l) = e
    <3>1. l[1] = "inline_exit" /\ Len(l[3]) + 1 = 1
      BY <2>2, <2>4
    <3>2. Len(l[3]) > 0
      BY <2>1, <2>3, <3>1
    <3> QED
      BY <2>2, <3>1, <3>2
  <2> QED
    BY <2>4
<1>5. ASSUME NEW l \in Labels(g), NEW k \in Labels(g), T(l) = T(k) PROVE l = k
  <2>1. IsLabel(l) /\ IsLabel(k)
    BY <1>1
  <2>2. /\ T(l)[1] = l[1] /\ T(l)[2] = l[2] /\ Len(T(l)[3]) = Len(l[3]) + 1 /\ Len(l[3]) \in Nat
        /\ \A x \in 1..Len(l[3]) : T(l)[3][x] = l[3][x]
    BY <2>1, TagFacts
  <2>3. /\ T(k)[1] = k[1] /\ T(k)[2] = k[2] /\ Len(T(k)[3]) = Len(k[3]) + 1 /\ Len(k[3]) \in Nat
        /\ \A x \in 1..Len(k[3]) : T(k)[3][x] = k[3][x]
    BY <2>1, TagFacts
  <2>4. l[3] = [x \in 1..Len(l[3]) |-> l[3][x]] /\ k[3] = [x \in 1..Len(k[3]) |-> k[3][x]]
    BY <2>1, SequenceFacts DEF IsLabel
  <2> HIDE DEF T
  <2>5. Len(l[3]) = Len(k[3])
    BY <1>5, <2>2, <2>3
  <2>6. l[3] = k[3]
    <3>1. \A x \in 1..Len(l[3]) : l[3][x] = k[3][x]
      BY <1>5, <2>2, <2>3, <2>5
    <3>2. [x \in 1..Len(l[3]) |-> l[3][x]] = [x \in 1..Len(k[3]) |-> k[3][x]]
      BY <2>5, <3>1
    <3> QED
      BY <2>4, <3>2
  <2>7. l[1] = k[1] /\ l[2] = k[2]
    BY <1>5, <2>2, <2>3
  <2>8. l = <<l[1], l[2], l[3]>> /\ k = <<k[1], k[2], k[3]>>
    BY <2>1 DEF IsLabel
  <2>9. <<l[1], l[2], l[3]>> = <<k[1], k[2], k[3]>>
    BY <2>6, <2>7, Zenon
  <2> QED
    BY <2>8, <2>9, Zenon
<1>6. e \notin Labels(f)
  <2>1. IsLabel(e) /\ 1 \in DOMAIN e[3] /\ e[3][1] = <<g.name, n>>
    BY EndingFacts
  <2> HIDE DEF e
  <2> QED
    BY <1>2, <2>1
<1> QED
  BY <1>3, <1>4, <1>5, <1>6 DEF Apart

-----------------------------------------------------------------------------
(* The blocks and the edges after a call was inlined *)

\* A call to be inlined, both functions well formed and the labels apart.
Setting(f, b, i, g, n) ==
  Formed(f) /\ WellFormed(f) /\ Formed(g) /\ WellFormed(g) /\ TheCall(f, b, i, g) /\ Apart(f, g, n)

\* Where block j of f is found after the call in block b, its second half for
\* b itself.
Place(j, b, m) == IF j < b THEN j ELSE j + m + 1
\* Block K of h is a block of f; the second half counts as block b.
IsKept(K, b, m, N) == \E j \in 1..N : K = Place(j, b, m)
\* Block K of h belongs to the copy.
IsCopied(K, b, m) == \E x \in 1..m : K = b + x
\* A block that ends in a return.
Returns(blk) == Last(blk.insns).op = "ret"
\* Where a block of the copy branches: behind the call, or to copies.
CopyTargets(g, n, x) ==
  IF Returns(g.blocks[x]) THEN {Ending(g, n)} ELSE {Tag(l, g.name, n) : l \in Targets(g.blocks[x])}
\* Labels and targets of the blocks of h.
Shape(h, f, b, g, n) ==
  LET s == f.blocks[b].label
      e == Ending(g, n)
      m == Len(g.blocks)
  IN /\ IsSequence(h.blocks) /\ Len(h.blocks) = Len(f.blocks) + m + 1
     /\ \A j \in 1..Len(f.blocks) :
          LET blk == h.blocks[Place(j, b, m)]
          IN blk.label = Sub(f.blocks[j].label, s, e) /\ Targets(blk) = Targets(f.blocks[j])
     /\ h.blocks[b].label = s /\ Targets(h.blocks[b]) = {Tag(g.blocks[1].label, g.name, n)}
     /\ \A x \in 1..m :
          LET blk == h.blocks[b + x]
          IN blk.label = Tag(g.blocks[x].label, g.name, n) /\ Targets(blk) = CopyTargets(g, n, x)

\* Every block of h is the first half, a copy, or one of f.
LEMMA BlockKinds ==
  ASSUME NEW N \in Nat, NEW m \in Nat, NEW b \in 1..N, NEW K \in 1..N + m + 1
  PROVE  K = b \/ IsCopied(K, b, m) \/ IsKept(K, b, m, N)
<1>1. CASE K < b
  <2>1. K \in 1..N /\ K = Place(K, b, m)
    BY <1>1 DEF Place
  <2> QED
    BY <2>1 DEF IsKept
<1>2. CASE K \in b + 1..b + m
  <2>1. K - b \in 1..m /\ K = b + (K - b)
    BY <1>2
  <2> QED
    BY <2>1 DEF IsCopied
<1>3. CASE K > b + m
  <2>1. K - m - 1 \in 1..N /\ K = Place(K - m - 1, b, m)
    BY <1>3 DEF Place
  <2> QED
    BY <2>1 DEF IsKept
<1> QED
  BY <1>1, <1>2, <1>3

\* The call is not the last instruction of its block, nor is a phi behind it.
LEMMA CallPlace ==
  ASSUME NEW f, NEW b, NEW i, NEW g, Formed(f), Formed(g), TheCall(f, b, i, g)
  PROVE  /\ Len(f.blocks) \in Nat /\ b \in 1..Len(f.blocks) /\ b \in Nat \ {0}
         /\ DOMAIN f.blocks = 1..Len(f.blocks)
         /\ Len(g.blocks) \in Nat \ {0} /\ DOMAIN g.blocks = 1..Len(g.blocks)
         /\ Len(f.blocks[b].insns) \in Nat /\ i \in Nat \ {0} /\ i < Len(f.blocks[b].insns)
         /\ \A y \in i + 1..Len(f.blocks[b].insns) : f.blocks[b].insns[y].op # "phi"
         /\ f.blocks[b].insns[i].dst \in Nat \cup {NoReg}
<1> DEFINE of == f.blocks[b].insns
<1>1. b \in 1..Len(f.blocks) /\ i \in 1..Len(of) /\ of[i].op = "call"
  BY DEF TheCall
<1>2. /\ Len(f.blocks) \in Nat /\ Len(g.blocks) \in Nat \ {0} /\ DOMAIN f.blocks = 1..Len(f.blocks)
      /\ DOMAIN g.blocks = 1..Len(g.blocks)
      /\ Len(of) \in Nat /\ \A y \in 1..Len(of) : InsnFormed(f, b, y)
  BY <1>1, FormedSizes
<1>3. i # Len(of) /\ of[i].dst \in Nat \cup {NoReg}
  BY <1>1, <1>2 DEF InsnFormed, Terminators
<1>4. ASSUME NEW y \in i + 1..Len(of), of[y].op = "phi" PROVE FALSE
  <2>1. y \in 1..Len(of) /\ i \in 1..y
    BY <1>1, <1>2
  <2> QED
    BY <1>1, <1>2, <1>4, <2>1 DEF InsnFormed
<1> QED
  BY <1>1, <1>2, <1>3, <1>4

\* The set of tagged labels.
LEMMA TaggedSet ==
  ASSUME NEW labels, NEW name, NEW n
  PROVE  ToSet([j \in DOMAIN labels |-> Tag(labels[j], name, n)]) = {Tag(l, name, n) : l \in ToSet(labels)}
BY DEF ToSet

\* The set of redirected labels.
LEMMA SubSet ==
  ASSUME NEW labels, NEW s, NEW e
  PROVE  ToSet([j \in DOMAIN labels |-> Sub(labels[j], s, e)]) = {Sub(l, s, e) : l \in ToSet(labels)}
BY DEF ToSet

\* A block that ends in a branch has one target.
LEMMA BrTargets ==
  ASSUME NEW blk, NEW l, blk.insns[Len(blk.insns)] = Br(l)
  PROVE  Targets(blk) = {l}
BY DEF Targets, Last, Br, ToSet

\* A block of f keeps its targets.
LEMMA KeptTargets ==
  ASSUME NEW h, NEW k, NEW f, NEW j, NEW s, NEW e, Formed(f), j \in 1..Len(f.blocks), KeptBlock(h, k, f, j, s, e)
  PROVE  Targets(h.blocks[k]) = Targets(f.blocks[j])
<1> DEFINE old == f.blocks[j].insns
           new == h.blocks[k].insns
<1>1. Len(old) \in Nat \ {0} /\ InsnFormed(f, j, Len(old))
  <2>1. Len(old) \in Nat \ {0} /\ \A y \in 1..Len(old) : InsnFormed(f, j, y)
    BY FormedSizes
  <2> QED
    BY <2>1
<1>2. old[Len(old)].op # "phi"
  BY <1>1 DEF InsnFormed, Terminators
<1>3. Len(new) = Len(old) /\ new[Len(old)] = Redirected(old[Len(old)], s, e)
  <2>1. Len(new) = Len(old) /\ \A x \in 1..Len(old) : new[x] = Redirected(old[x], s, e)
    BY DEF KeptBlock
  <2>2. Len(old) \in 1..Len(old)
    <3> HIDE DEF old
    <3> QED
      BY <1>1
  <2> QED
    BY <2>1, <2>2
<1>4. new[Len(new)] = old[Len(old)]
  BY <1>2, <1>3 DEF Redirected
<1> QED
  BY <1>4 DEF Targets, Last

\* The second half has the targets of the split block.
LEMMA RightTargets ==
  ASSUME NEW h, NEW k, NEW f, NEW b, NEW i, NEW g, NEW n, Formed(f), Formed(g), TheCall(f, b, i, g),
         RightBlock(h, k, f, b, i, g, n)
  PROVE  Targets(h.blocks[k]) = Targets(f.blocks[b])
<1> DEFINE old == f.blocks[b].insns
           new == h.blocks[k].insns
           d == Gap(f, b, i)
           s == f.blocks[b].label
           e == Ending(g, n)
<1>1. Len(old) \in Nat /\ i \in Nat \ {0} /\ i < Len(old) /\ old[Len(old)].op # "phi"
  <2>1. Len(old) \in Nat /\ i \in Nat \ {0} /\ i < Len(old) /\ \A y \in i + 1..Len(old) : old[y].op # "phi"
    BY CallPlace
  <2> QED
    BY <2>1
<1>2. /\ Len(new) = Len(old) - i + d
      /\ \A x \in i + 1..Len(old) : new[x - i + d] = Redirected(old[x], s, e)
  BY DEF RightBlock
<1>3. new[Len(new)] = Redirected(old[Len(old)], s, e)
  <2>1. Len(old) \in i + 1..Len(old)
    BY <1>1
  <2>2. new[Len(old) - i + d] = Redirected(old[Len(old)], s, e)
    BY <1>2, <2>1
  <2> QED
    BY <1>2, <2>2
<1>4. new[Len(new)] = old[Len(old)]
  BY <1>1, <1>3 DEF Redirected
<1> QED
  BY <1>4 DEF Targets, Last

\* A block of the copy has the copies of its targets.
LEMMA CopiedTargets ==
  ASSUME NEW h, NEW k, NEW f, NEW b, NEW i, NEW g, NEW n, NEW x, Formed(g), x \in 1..Len(g.blocks),
         CopiedBlock(h, k, f, b, i, g, n, x)
  PROVE  Targets(h.blocks[k]) = CopyTargets(g, n, x)
<1> DEFINE old == g.blocks[x].insns
           new == h.blocks[k].insns
           s == f.blocks[b].label
           e == Ending(g, n)
           offset == Largest(f) + 1
           args == f.blocks[b].insns[i].args
           last == old[Len(old)]
           copy == Renamed(last, g, n, offset, args)
<1>1. Len(old) \in Nat \ {0} /\ InsnFormed(g, x, Len(old))
  <2>1. Len(old) \in Nat \ {0} /\ \A y \in 1..Len(old) : InsnFormed(g, x, y)
    BY FormedSizes
  <2> QED
    BY <2>1
<1>2. last.op # "phi"
  BY <1>1 DEF InsnFormed, Terminators
<1>3. Len(new) = Len(old) /\ new[Len(old)] = IF last.op = "ret" THEN Br(e) ELSE Redirected(copy, s, e)
  <2>1. Len(old) \in 1..Len(old)
    BY <1>1
  <2>2. /\ Len(new) = Len(old)
        /\ \A y \in 1..Len(old) :
             new[y] = IF old[y].op = "ret" THEN Br(e) ELSE Redirected(Renamed(old[y], g, n, offset, args), s, e)
    BY DEF CopiedBlock
  <2> HIDE DEF old, new, e, offset, args, s
  <2> QED
    BY <2>1, <2>2
<1>4. /\ copy.op = last.op
      /\ copy.labels = [j \in DOMAIN last.labels |-> Tag(last.labels[j], g.name, n)]
  BY DEF Renamed, Rewritten
<1> HIDE DEF copy, last, old, new, e
<1>5. Last(g.blocks[x].insns) = last /\ Last(h.blocks[k].insns) = new[Len(new)]
  BY DEF Last, old, new, last
<1>6. CASE last.op = "ret"
  <2>1. Returns(g.blocks[x])
    BY <1>5, <1>6 DEF Returns
  <2>2. h.blocks[k].insns[Len(h.blocks[k].insns)] = Br(e)
    BY <1>3, <1>6 DEF new
  <2>3. Targets(h.blocks[k]) = {e}
    BY <2>2, BrTargets
  <2> QED
    BY <2>1, <2>3 DEF e, CopyTargets
<1>7. CASE last.op # "ret"
  <2>1. ~Returns(g.blocks[x])
    BY <1>5, <1>7 DEF Returns
  <2>2. new[Len(new)] = copy
    BY <1>2, <1>3, <1>4, <1>7 DEF Redirected
  <2>3. ToSet(copy.labels) = {Tag(l, g.name, n) : l \in ToSet(last.labels)}
    BY <1>4, TaggedSet
  <2>4. Targets(h.blocks[k]) = IF copy.op \in {"br", "cbr"} THEN ToSet(copy.labels) ELSE {}
    BY <1>5, <2>2 DEF Targets
  <2>5. Targets(g.blocks[x]) = IF last.op \in {"br", "cbr"} THEN ToSet(last.labels) ELSE {}
    BY <1>5 DEF Targets
  <2> QED
    BY <1>4, <2>1, <2>3, <2>4, <2>5 DEF CopyTargets
<1> QED
  BY <1>6, <1>7

\* Spliced blocks have that shape.
LEMMA ShapeOf ==
  ASSUME NEW h, NEW f, NEW b, NEW i, NEW g, NEW n, Setting(f, b, i, g, n), Spliced(h, f, b, i, g, n)
  PROVE  Shape(h, f, b, g, n)
<1> DEFINE s == f.blocks[b].label
           e == Ending(g, n)
           m == Len(g.blocks)
           N == Len(f.blocks)
<1>1. /\ Formed(f) /\ Formed(g) /\ TheCall(f, b, i, g) /\ LabelsUnique(f)
  BY DEF Setting, WellFormed
<1>2. N \in Nat /\ m \in Nat \ {0} /\ b \in 1..N /\ DOMAIN f.blocks = 1..N
  BY <1>1, CallPlace
<1>3. /\ IsSequence(h.blocks) /\ Len(h.blocks) = N + m + 1
      /\ \A k \in 1..b - 1 : KeptBlock(h, k, f, k, s, e)
      /\ LeftBlock(h, f, b, i, g, n)
      /\ \A x \in 1..m : CopiedBlock(h, b + x, f, b, i, g, n, x)
      /\ RightBlock(h, b + m + 1, f, b, i, g, n)
      /\ \A k \in b + 1..N : KeptBlock(h, k + m + 1, f, k, s, e)
  BY DEF Spliced
<1> HIDE DEF N, m, s, e
<1>4. ASSUME NEW j \in 1..N, j # b
      PROVE  h.blocks[Place(j, b, m)].label = Sub(f.blocks[j].label, s, e) /\ Targets(h.blocks[Place(j, b, m)]) = Targets(f.blocks[j])
  <2>1. KeptBlock(h, Place(j, b, m), f, j, s, e)
    <3>1. CASE j < b
      BY <1>2, <1>3, <3>1 DEF Place
    <3>2. CASE j > b
      BY <1>2, <1>3, <3>2 DEF Place
    <3> QED
      BY <1>2, <1>4, <3>1, <3>2
  <2>2. f.blocks[j].label # s
    BY <1>1, <1>2, <1>4 DEF LabelsUnique, s
  <2>3. Sub(f.blocks[j].label, s, e) = f.blocks[j].label
    BY <2>2 DEF Sub
  <2>4. h.blocks[Place(j, b, m)].label = f.blocks[j].label
    BY <2>1 DEF KeptBlock
  <2>5. j \in 1..Len(f.blocks)
    BY DEF N
  <2>6. Targets(h.blocks[Place(j, b, m)]) = Targets(f.blocks[j])
    BY <1>1, <2>1, <2>5, KeptTargets
  <2> QED
    BY <2>3, <2>4, <2>6
<1>5. /\ h.blocks[Place(b, b, m)].label = Sub(f.blocks[b].label, s, e)
      /\ Targets(h.blocks[Place(b, b, m)]) = Targets(f.blocks[b])
  <2>1. Place(b, b, m) = b + m + 1
    BY <1>2 DEF Place
  <2>2. h.blocks[b + m + 1].label = e
    BY <1>3 DEF RightBlock, e
  <2>3. Targets(h.blocks[b + m + 1]) = Targets(f.blocks[b])
    BY <1>1, <1>3, RightTargets
  <2> QED
    BY <2>1, <2>2, <2>3 DEF Sub, s
<1>6. h.blocks[b].label = s /\ Targets(h.blocks[b]) = {Tag(g.blocks[1].label, g.name, n)}
  <2>1. /\ h.blocks[b].label = s
        /\ h.blocks[b].insns[Len(h.blocks[b].insns)] = Br(Tag(g.blocks[1].label, g.name, n))
    BY <1>3 DEF LeftBlock, s
  <2> QED
    BY <2>1, BrTargets
<1>7. ASSUME NEW x \in 1..m
      PROVE  h.blocks[b + x].label = Tag(g.blocks[x].label, g.name, n) /\ Targets(h.blocks[b + x]) = CopyTargets(g, n, x)
  <2>1. CopiedBlock(h, b + x, f, b, i, g, n, x)
    BY <1>3
  <2>2. x \in 1..Len(g.blocks)
    BY DEF m
  <2>3. h.blocks[b + x].label = Tag(g.blocks[x].label, g.name, n)
    BY <2>1 DEF CopiedBlock
  <2>4. Targets(h.blocks[b + x]) = CopyTargets(g, n, x)
    BY <1>1, <2>1, <2>2, CopiedTargets
  <2> QED
    BY <2>3, <2>4
<1>8. \A j \in 1..N : /\ h.blocks[Place(j, b, m)].label = Sub(f.blocks[j].label, s, e)
                     /\ Targets(h.blocks[Place(j, b, m)]) = Targets(f.blocks[j])
  BY <1>4, <1>5
<1> QED
  BY <1>3, <1>6, <1>7, <1>8 DEF Shape, N, m, s, e

\* What a well formed function says of its blocks, labels and targets.
LEMMA GraphFacts ==
  ASSUME NEW f, Formed(f), WellFormed(f)
  PROVE  /\ Len(f.blocks) \in Nat \ {0} /\ DOMAIN f.blocks = 1..Len(f.blocks)
         /\ \A b \in 1..Len(f.blocks) :
              /\ f.blocks[b].label \in Labels(f) /\ Targets(f.blocks[b]) \subseteq Labels(f)
              /\ f.blocks[1].label \notin Targets(f.blocks[b])
         /\ \A l \in Labels(f) : \E b \in 1..Len(f.blocks) : l = f.blocks[b].label
         /\ \A a, b \in 1..Len(f.blocks) : f.blocks[a].label = f.blocks[b].label => a = b
<1>1. Len(f.blocks) \in Nat \ {0} /\ DOMAIN f.blocks = 1..Len(f.blocks)
  BY FormedSizes
<1>2. \A b \in 1..Len(f.blocks) : f.blocks[1].label \notin Targets(f.blocks[b])
  BY FormedAt DEF BlocksFormed
<1> QED
  BY <1>1, <1>2 DEF WellFormed, BranchesLead, LabelsUnique, Labels

\* The predecessors of a label.
LEMMA PredFacts ==
  ASSUME NEW f
  PROVE  \A l, z : z \in PredLabels(f, l) <=> \E b \in DOMAIN f.blocks : z = f.blocks[b].label /\ l \in Targets(f.blocks[b])
BY DEF PredLabels

\* The blocks of h, with their labels and targets, one kind at a time.
LEMMA Kinds ==
  ASSUME NEW h, NEW f, NEW b, NEW i, NEW g, NEW n, Setting(f, b, i, g, n), Shape(h, f, b, g, n)
  PROVE  LET s == f.blocks[b].label
             e == Ending(g, n)
             m == Len(g.blocks)
             N == Len(f.blocks)
         IN /\ DOMAIN h.blocks = 1..N + m + 1
            /\ b \in 1..N /\ b \in DOMAIN h.blocks
            /\ \A j \in 1..N : Place(j, b, m) \in DOMAIN h.blocks
            /\ \A x \in 1..m : b + x \in DOMAIN h.blocks
            /\ \A K \in DOMAIN h.blocks :
                 K = b \/ IsCopied(K, b, m) \/ IsKept(K, b, m, N)
<1> DEFINE m == Len(g.blocks)
           N == Len(f.blocks)
<1>1. N \in Nat /\ m \in Nat \ {0} /\ b \in 1..N
  BY CallPlace DEF Setting
<1>2. IsSequence(h.blocks) /\ Len(h.blocks) = N + m + 1
  BY DEF Shape
<1>3. DOMAIN h.blocks = 1..N + m + 1
  BY <1>2, SequenceFacts
<1> HIDE DEF N, m
<1>4. /\ b \in 1..N + m + 1 /\ \A x \in 1..m : b + x \in 1..N + m + 1
      /\ \A j \in 1..N : Place(j, b, m) \in 1..N + m + 1
  <2>1. b \in 1..N + m + 1 /\ \A x \in 1..m : b + x \in 1..N + m + 1
    BY <1>1
  <2>2. ASSUME NEW j \in 1..N PROVE Place(j, b, m) \in 1..N + m + 1
    BY <1>1 DEF Place
  <2> QED
    BY <2>1, <2>2
<1>5. \A K \in 1..N + m + 1 :
        K = b \/ IsCopied(K, b, m) \/ IsKept(K, b, m, N)
  BY <1>1, BlockKinds
<1> QED
  BY <1>1, <1>3, <1>4, <1>5 DEF N, m

\* The predecessors of the blocks of h.
EdgesOf(h, f, b, g, n) ==
  LET s == f.blocks[b].label
      e == Ending(g, n)
      entry == g.blocks[1].label
      T(l) == Tag(l, g.name, n)
  IN /\ \A l \in Labels(f) : \A z :
          z \in PredLabels(h, l) <=> \E x \in PredLabels(f, l) : z = Sub(x, s, e)
     /\ \A l \in Labels(g) : \A z :
          z \in PredLabels(h, T(l)) <=> (\E x \in PredLabels(g, l) : z = T(x)) \/ (l = entry /\ z = s)
     /\ \A z : z \in PredLabels(h, e) <=>
          \E x \in 1..Len(g.blocks) : z = T(g.blocks[x].label) /\ Returns(g.blocks[x])

\* The edges of h are those of f and of g, joined at the call.
LEMMA Edges ==
  ASSUME NEW h, NEW f, NEW b, NEW i, NEW g, NEW n, Setting(f, b, i, g, n), Shape(h, f, b, g, n)
  PROVE  EdgesOf(h, f, b, g, n)
<1> DEFINE s == f.blocks[b].label
           e == Ending(g, n)
           m == Len(g.blocks)
           N == Len(f.blocks)
           entry == g.blocks[1].label
           T(l) == Tag(l, g.name, n)
           Old(j) == f.blocks[j]
           Gs(x) == g.blocks[x]
           New(K) == h.blocks[K]
           P(j) == Place(j, b, m)
<1>1. Formed(f) /\ WellFormed(f) /\ Formed(g) /\ WellFormed(g) /\ TheCall(f, b, i, g) /\ Apart(f, g, n)
  BY DEF Setting
<1>2. /\ \A j \in 1..N : Old(j).label \in Labels(f) /\ Targets(Old(j)) \subseteq Labels(f)
      /\ DOMAIN f.blocks = 1..N
  BY <1>1, GraphFacts
<1>3. /\ m \in Nat \ {0} /\ DOMAIN g.blocks = 1..m
      /\ \A x \in 1..m : Gs(x).label \in Labels(g) /\ Targets(Gs(x)) \subseteq Labels(g)
  BY <1>1, GraphFacts
<1>4. /\ \A l \in Labels(g) : T(l) \notin Labels(f) /\ T(l) # e
      /\ \A l, k \in Labels(g) : T(l) = T(k) => l = k
      /\ e \notin Labels(f)
  BY <1>1 DEF Apart
<1>5. /\ b \in DOMAIN h.blocks /\ \A j \in 1..N : P(j) \in DOMAIN h.blocks
      /\ \A x \in 1..m : b + x \in DOMAIN h.blocks
      /\ \A K \in DOMAIN h.blocks : K = b \/ (\E x \in 1..m : K = b + x) \/ (\E j \in 1..N : K = P(j))
  <2> HIDE DEF m, N
  <2>1. b \in DOMAIN h.blocks /\ \A j \in 1..N : P(j) \in DOMAIN h.blocks
    BY Kinds DEF m, N
  <2>2. \A x \in 1..m : b + x \in DOMAIN h.blocks
    BY Kinds DEF m, N
  <2>3. ASSUME NEW K \in DOMAIN h.blocks
        PROVE  K = b \/ (\E x \in 1..m : K = b + x) \/ (\E j \in 1..N : K = P(j))
    <3>1. K = b \/ IsCopied(K, b, m) \/ IsKept(K, b, m, N)
      BY Kinds DEF m, N
    <3> QED
      BY <3>1 DEF IsKept, IsCopied
  <2> QED
    BY <2>1, <2>2, <2>3
<1>6. /\ \A j \in 1..N : New(P(j)).label = Sub(Old(j).label, s, e) /\ Targets(New(P(j))) = Targets(Old(j))
      /\ New(b).label = s /\ Targets(New(b)) = {T(entry)}
      /\ \A x \in 1..m : New(b + x).label = T(Gs(x).label) /\ Targets(New(b + x)) = CopyTargets(g, n, x)
  BY DEF Shape
<1>7. entry \in Labels(g)
  BY <1>3
<1>8. /\ \A x \in 1..m : Returns(Gs(x)) => Targets(Gs(x)) = {} /\ CopyTargets(g, n, x) = {e}
      /\ \A x \in 1..m : ~Returns(Gs(x)) => CopyTargets(g, n, x) = {T(l) : l \in Targets(Gs(x))}
  BY DEF Returns, Targets, CopyTargets
<1>9. /\ \A l, z : z \in PredLabels(f, l) <=> \E j \in 1..N : z = Old(j).label /\ l \in Targets(Old(j))
      /\ \A l, z : z \in PredLabels(g, l) <=> \E x \in 1..m : z = Gs(x).label /\ l \in Targets(Gs(x))
      /\ \A l, z : z \in PredLabels(h, l) <=> \E K \in DOMAIN h.blocks : z = New(K).label /\ l \in Targets(New(K))
  BY <1>2, <1>3, PredFacts
<1> HIDE DEF s, e, m, N, entry, T, Old, Gs, New, P
<1>10. ASSUME NEW l \in Labels(f), NEW z
       PROVE  z \in PredLabels(h, l) <=> \E x \in PredLabels(f, l) : z = Sub(x, s, e)
  <2>1. ASSUME NEW x \in 1..m PROVE l \notin Targets(New(b + x))
    <3>1. CASE Returns(Gs(x))
      BY <1>4, <1>6, <1>8, <3>1
    <3>2. CASE ~Returns(Gs(x))
      BY <1>3, <1>4, <1>6, <1>8, <3>2
    <3> QED
      BY <3>1, <3>2
  <2>2. l \notin Targets(New(b))
    BY <1>4, <1>6, <1>7
  <2>3. ASSUME z \in PredLabels(h, l) PROVE \E x \in PredLabels(f, l) : z = Sub(x, s, e)
    <3>1. PICK K \in DOMAIN h.blocks : z = New(K).label /\ l \in Targets(New(K))
      BY <1>9, <2>3
    <3>2. PICK j \in 1..N : K = P(j)
      BY <1>5, <2>1, <2>2, <3>1
    <3>3. Old(j).label \in PredLabels(f, l) /\ z = Sub(Old(j).label, s, e)
      BY <1>6, <1>9, <3>1, <3>2
    <3> QED
      BY <3>3
  <2>4. ASSUME NEW x \in PredLabels(f, l), z = Sub(x, s, e) PROVE z \in PredLabels(h, l)
    <3>1. PICK j \in 1..N : x = Old(j).label /\ l \in Targets(Old(j))
      BY <1>9
    <3>2. P(j) \in DOMAIN h.blocks /\ z = New(P(j)).label /\ l \in Targets(New(P(j)))
      BY <1>5, <1>6, <2>4, <3>1
    <3> QED
      BY <1>9, <3>2
  <2> QED
    BY <2>3, <2>4
<1>11. ASSUME NEW l \in Labels(g), NEW z
       PROVE  z \in PredLabels(h, T(l)) <=> (\E x \in PredLabels(g, l) : z = T(x)) \/ (l = entry /\ z = s)
  <2>1. \A j \in 1..N : T(l) \notin Targets(New(P(j)))
    BY <1>2, <1>4, <1>6
  <2>2. T(l) \in Targets(New(b)) <=> l = entry
    BY <1>4, <1>6, <1>7
  <2>3. ASSUME NEW x \in 1..m PROVE T(l) \in Targets(New(b + x)) <=> l \in Targets(Gs(x))
    <3>1. CASE Returns(Gs(x))
      BY <1>4, <1>6, <1>8, <3>1
    <3>2. CASE ~Returns(Gs(x))
      <4>1. Targets(New(b + x)) = {T(k) : k \in Targets(Gs(x))}
        BY <1>6, <1>8, <3>2
      <4> QED
        BY <1>3, <1>4, <4>1
    <3> QED
      BY <3>1, <3>2
  <2>4. ASSUME z \in PredLabels(h, T(l)) PROVE (\E x \in PredLabels(g, l) : z = T(x)) \/ (l = entry /\ z = s)
    <3>1. PICK K \in DOMAIN h.blocks : z = New(K).label /\ T(l) \in Targets(New(K))
      BY <1>9, <2>4
    <3>2. CASE K = b
      BY <1>6, <2>2, <3>1, <3>2
    <3>3. CASE \E x \in 1..m : K = b + x
      <4>1. PICK x \in 1..m : K = b + x
        BY <3>3
      <4>2. z = T(Gs(x).label) /\ l \in Targets(Gs(x))
        BY <1>6, <2>3, <3>1, <4>1
      <4>3. Gs(x).label \in PredLabels(g, l)
        BY <1>9, <4>2
      <4> QED
        BY <4>2, <4>3
    <3> QED
      BY <1>5, <2>1, <3>1, <3>2, <3>3
  <2>5. ASSUME NEW x \in PredLabels(g, l), z = T(x) PROVE z \in PredLabels(h, T(l))
    <3>1. PICK y \in 1..m : x = Gs(y).label /\ l \in Targets(Gs(y))
      BY <1>9
    <3>2. b + y \in DOMAIN h.blocks /\ z = New(b + y).label /\ T(l) \in Targets(New(b + y))
      BY <1>5, <1>6, <2>3, <2>5, <3>1
    <3> QED
      BY <1>9, <3>2
  <2>6. ASSUME l = entry, z = s PROVE z \in PredLabels(h, T(l))
    BY <1>5, <1>6, <1>9, <2>2, <2>6
  <2> QED
    BY <2>4, <2>5, <2>6
<1>12. ASSUME NEW z
       PROVE  z \in PredLabels(h, e) <=> \E x \in 1..m : z = T(Gs(x).label) /\ Returns(Gs(x))
  <2>1. \A j \in 1..N : e \notin Targets(New(P(j)))
    BY <1>2, <1>4, <1>6
  <2>2. e \notin Targets(New(b))
    BY <1>4, <1>6, <1>7
  <2>3. ASSUME NEW x \in 1..m PROVE e \in Targets(New(b + x)) <=> Returns(Gs(x))
    <3>1. CASE Returns(Gs(x))
      BY <1>6, <1>8, <3>1
    <3>2. CASE ~Returns(Gs(x))
      <4>1. Targets(New(b + x)) = {T(k) : k \in Targets(Gs(x))}
        BY <1>6, <1>8, <3>2
      <4> QED
        BY <1>3, <1>4, <3>2, <4>1
    <3> QED
      BY <3>1, <3>2
  <2>4. ASSUME z \in PredLabels(h, e) PROVE \E x \in 1..m : z = T(Gs(x).label) /\ Returns(Gs(x))
    <3>1. PICK K \in DOMAIN h.blocks : z = New(K).label /\ e \in Targets(New(K))
      BY <1>9, <2>4
    <3>2. PICK x \in 1..m : K = b + x
      BY <1>5, <2>1, <2>2, <3>1
    <3> QED
      BY <1>6, <2>3, <3>1, <3>2
  <2>5. ASSUME NEW x \in 1..m, z = T(Gs(x).label), Returns(Gs(x)) PROVE z \in PredLabels(h, e)
    <3>1. b + x \in DOMAIN h.blocks /\ z = New(b + x).label /\ e \in Targets(New(b + x))
      BY <1>5, <1>6, <2>3, <2>5
    <3> QED
      BY <1>9, <3>1
  <2> QED
    BY <2>4, <2>5
<1> QED
  BY <1>10, <1>11, <1>12 DEF EdgesOf, s, e, m, entry, T, Gs

\* Labels stay unique, branches lead somewhere, no edge becomes critical, and nothing
\* branches to the entry.
LEMMA InlinedGraph ==
  ASSUME NEW h, NEW f, NEW b, NEW i, NEW g, NEW n, Setting(f, b, i, g, n), Shape(h, f, b, g, n)
  PROVE  /\ \A z : z \in Labels(h) <=> z \in Labels(f) \/ z = Ending(g, n) \/ \E l \in Labels(g) : z = Tag(l, g.name, n)
         /\ LabelsUnique(h) /\ BranchesLead(h) /\ NoCriticalEdge(h)
         /\ h.blocks[1].label = f.blocks[1].label
         /\ \A K \in DOMAIN h.blocks : h.blocks[1].label \notin Targets(h.blocks[K])
<1> DEFINE s == f.blocks[b].label
           e == Ending(g, n)
           m == Len(g.blocks)
           N == Len(f.blocks)
           entry == g.blocks[1].label
           T(l) == Tag(l, g.name, n)
           Old(j) == f.blocks[j]
           Gs(x) == g.blocks[x]
           New(K) == h.blocks[K]
           P(j) == Place(j, b, m)
<1>1. Formed(f) /\ WellFormed(f) /\ Formed(g) /\ WellFormed(g) /\ TheCall(f, b, i, g) /\ Apart(f, g, n)
  BY DEF Setting
<1>2. /\ N \in Nat \ {0} /\ b \in 1..N /\ DOMAIN f.blocks = 1..N
      /\ \A j \in 1..N : /\ Old(j).label \in Labels(f) /\ Targets(Old(j)) \subseteq Labels(f)
                         /\ Old(1).label \notin Targets(Old(j))
      /\ \A l \in Labels(f) : \E j \in 1..N : l = Old(j).label
      /\ \A a, c \in 1..N : Old(a).label = Old(c).label => a = c
  <2>1. b \in 1..N
    BY <1>1, CallPlace
  <2> QED
    BY <1>1, <2>1, GraphFacts
<1>3. /\ m \in Nat \ {0} /\ DOMAIN g.blocks = 1..m
      /\ \A x \in 1..m : /\ Gs(x).label \in Labels(g) /\ Targets(Gs(x)) \subseteq Labels(g)
                         /\ entry \notin Targets(Gs(x))
      /\ \A l \in Labels(g) : \E x \in 1..m : l = Gs(x).label
      /\ \A x, y \in 1..m : Gs(x).label = Gs(y).label => x = y
  BY <1>1, GraphFacts
<1>4. /\ \A l \in Labels(g) : T(l) \notin Labels(f) /\ T(l) # e
      /\ \A l, k \in Labels(g) : T(l) = T(k) => l = k
      /\ e \notin Labels(f)
  BY <1>1 DEF Apart
<1>5. /\ DOMAIN h.blocks = 1..N + m + 1
      /\ b \in DOMAIN h.blocks /\ \A j \in 1..N : P(j) \in DOMAIN h.blocks
      /\ \A x \in 1..m : b + x \in DOMAIN h.blocks
      /\ \A K \in DOMAIN h.blocks : K = b \/ IsCopied(K, b, m) \/ IsKept(K, b, m, N)
  BY Kinds
<1>6. /\ \A j \in 1..N : New(P(j)).label = Sub(Old(j).label, s, e) /\ Targets(New(P(j))) = Targets(Old(j))
      /\ New(b).label = s /\ Targets(New(b)) = {T(entry)}
      /\ \A x \in 1..m : New(b + x).label = T(Gs(x).label) /\ Targets(New(b + x)) = CopyTargets(g, n, x)
  BY DEF Shape
<1>7. entry \in Labels(g) /\ s \in Labels(f)
  BY <1>2, <1>3
<1>8. /\ \A x \in 1..m : Returns(Gs(x)) => CopyTargets(g, n, x) = {e}
      /\ \A x \in 1..m : ~Returns(Gs(x)) => CopyTargets(g, n, x) = {T(l) : l \in Targets(Gs(x))}
  BY DEF CopyTargets
<1>9. /\ \A l \in Labels(f) : \A z : z \in PredLabels(h, l) <=> \E x \in PredLabels(f, l) : z = Sub(x, s, e)
      /\ \A l \in Labels(g) : \A z :
           z \in PredLabels(h, T(l)) <=> (\E x \in PredLabels(g, l) : z = T(x)) \/ (l = entry /\ z = s)
  <2>1. EdgesOf(h, f, b, g, n)
    BY Edges
  <2> HIDE DEF s, e, entry, T
  <2> QED
    BY <2>1 DEF EdgesOf, s, e, entry, T
<1>10. /\ \A j \in 1..N : \A l, k \in Targets(Old(j)) : l # k => PredLabels(f, l) = {Old(j).label}
       /\ \A x \in 1..m : \A l, k \in Targets(Gs(x)) : l # k => PredLabels(g, l) = {Gs(x).label}
  BY <1>1, <1>2, <1>3 DEF WellFormed, NoCriticalEdge
<1>11. /\ \A z : z \in Labels(h) <=> \E K \in DOMAIN h.blocks : z = New(K).label
       /\ \A K \in DOMAIN h.blocks : K = b \/ (\E x \in 1..m : K = b + x) \/ (\E j \in 1..N : K = P(j))
  BY <1>5 DEF Labels, IsCopied, IsKept
<1>12. h.blocks[1].label = f.blocks[1].label
  <2>1. CASE b = 1
    BY <1>6, <2>1
  <2>2. CASE b # 1
    <3>1. 1 \in 1..N /\ P(1) = 1
      BY <1>2, <2>2 DEF Place
    <3>2. Old(1).label # s
      BY <1>2, <2>2, <3>1
    <3>3. New(P(1)).label = Sub(Old(1).label, s, e)
      BY <1>6, <3>1
    <3> QED
      BY <3>1, <3>2, <3>3 DEF Sub
  <2> QED
    BY <2>1, <2>2
<1>13. \A j, k \in 1..N : Sub(Old(j).label, s, e) = Sub(Old(k).label, s, e) => j = k
  BY <1>2, <1>4 DEF Sub
<1>14. \A j \in 1..N : /\ Sub(Old(j).label, s, e) # s
                      /\ Sub(Old(j).label, s, e) \in Labels(f) \cup {e}
                      /\ \A l \in Labels(g) : Sub(Old(j).label, s, e) # T(l)
  BY <1>2, <1>4, <1>7 DEF Sub
<1> HIDE DEF s, e, m, N, entry, T, Old, Gs, New, P
<1>15. ASSUME NEW z \in Labels(h) PROVE z \in Labels(f) \/ z = e \/ \E l \in Labels(g) : z = T(l)
  <2>1. PICK K \in DOMAIN h.blocks : z = New(K).label
    BY <1>11
  <2>2. CASE K = b
    BY <1>6, <1>7, <2>1, <2>2
  <2>3. CASE \E x \in 1..m : K = b + x
    BY <1>3, <1>6, <2>1, <2>3
  <2>4. CASE \E j \in 1..N : K = P(j)
    BY <1>6, <1>14, <2>1, <2>4
  <2> QED
    BY <1>11, <2>2, <2>3, <2>4
<1>16. ASSUME NEW z \in Labels(f) PROVE z \in Labels(h)
  <2>1. PICK j \in 1..N : z = Old(j).label
    BY <1>2
  <2>2. CASE z = s
    BY <1>5, <1>6, <1>11, <2>2
  <2>3. CASE z # s
    <3>1. New(P(j)).label = z /\ P(j) \in DOMAIN h.blocks
      BY <1>5, <1>6, <2>1, <2>3 DEF Sub
    <3> QED
      BY <1>11, <3>1
  <2> QED
    BY <2>2, <2>3
<1>17. e \in Labels(h)
  <2>1. New(P(b)).label = e /\ P(b) \in DOMAIN h.blocks
    BY <1>2, <1>5, <1>6 DEF Sub, s, Old
  <2> QED
    BY <1>11, <2>1
<1>18. ASSUME NEW l \in Labels(g) PROVE T(l) \in Labels(h)
  <2>1. PICK x \in 1..m : l = Gs(x).label
    BY <1>3
  <2>2. New(b + x).label = T(l) /\ b + x \in DOMAIN h.blocks
    BY <1>5, <1>6, <2>1
  <2> QED
    BY <1>11, <2>2
<1>19. LabelsUnique(h)
  <2>1. ASSUME NEW K \in DOMAIN h.blocks, NEW k \in DOMAIN h.blocks, New(K).label = New(k).label PROVE K = k
    <3>1. CASE K = b
      <4>1. \A x \in 1..m : New(b + x).label # s
        BY <1>3, <1>4, <1>6, <1>7
      <4>2. \A j \in 1..N : New(P(j)).label # s
        BY <1>6, <1>14
      <4> QED
        BY <1>6, <1>11, <2>1, <3>1, <4>1, <4>2
    <3>2. CASE \E x \in 1..m : K = b + x
      <4>1. PICK x \in 1..m : K = b + x
        BY <3>2
      <4>2. New(K).label = T(Gs(x).label) /\ Gs(x).label \in Labels(g)
        BY <1>3, <1>6, <4>1
      <4>3. k # b
        BY <1>4, <1>6, <1>7, <2>1, <4>2
      <4>4. ~ \E j \in 1..N : k = P(j)
        BY <1>6, <1>14, <2>1, <4>2
      <4>5. PICK y \in 1..m : k = b + y
        BY <1>11, <4>3, <4>4
      <4>6. New(k).label = T(Gs(y).label) /\ Gs(y).label \in Labels(g)
        BY <1>3, <1>6, <4>5
      <4>7. Gs(x).label = Gs(y).label
        BY <1>4, <2>1, <4>2, <4>6
      <4> QED
        BY <1>3, <4>1, <4>5, <4>7
    <3>3. CASE \E j \in 1..N : K = P(j)
      <4>1. PICK j \in 1..N : K = P(j)
        BY <3>3
      <4>2. New(K).label = Sub(Old(j).label, s, e)
        BY <1>6, <4>1
      <4>3. k # b
        BY <1>6, <1>14, <2>1, <4>2
      <4>4. ASSUME NEW x \in 1..m, k = b + x PROVE FALSE
        <5>1. New(k).label = T(Gs(x).label) /\ Gs(x).label \in Labels(g)
          BY <1>3, <1>6, <4>4
        <5> QED
          BY <1>14, <2>1, <4>2, <5>1
      <4>5. PICK a \in 1..N : k = P(a)
        BY <1>11, <4>3, <4>4
      <4> QED
        BY <1>6, <1>13, <2>1, <4>1, <4>5
    <3> QED
      BY <1>11, <3>1, <3>2, <3>3
  <2> QED
    BY <2>1 DEF LabelsUnique, New
<1>20. ASSUME NEW K \in DOMAIN h.blocks, NEW l \in Targets(New(K))
       PROVE  /\ l \in Labels(h) /\ l # New(1).label
              /\ \A k \in Targets(New(K)) : l # k => PredLabels(h, l) = {New(K).label}
  <2>0. New(1).label = Old(1).label /\ Old(1).label \in Labels(f)
    BY <1>2, <1>12 DEF New, Old
  <2>1. CASE K = b
    BY <1>4, <1>6, <1>7, <1>18, <2>0, <2>1
  <2>2. CASE \E x \in 1..m : K = b + x
    <3>1. PICK x \in 1..m : K = b + x
      BY <2>2
    <3>2. CASE Returns(Gs(x))
      BY <1>4, <1>6, <1>8, <1>17, <2>0, <3>1, <3>2
    <3>3. CASE ~Returns(Gs(x))
      <4>1. Targets(New(K)) = {T(k) : k \in Targets(Gs(x))}
        BY <1>6, <1>8, <3>1, <3>3
      <4>2. PICK y \in Targets(Gs(x)) : l = T(y)
        BY <4>1
      <4>3. y \in Labels(g) /\ y # entry
        BY <1>3, <4>2
      <4>4. ASSUME NEW k \in Targets(New(K)), l # k PROVE PredLabels(h, l) = {New(K).label}
        <5>1. PICK w \in Targets(Gs(x)) : k = T(w)
          BY <4>1
        <5>2. PredLabels(g, y) = {Gs(x).label}
          BY <1>10, <4>2, <4>4, <5>1
        <5>3. \A z : z \in PredLabels(h, l) <=> z = T(Gs(x).label)
          BY <1>9, <4>2, <4>3, <5>2
        <5>4. New(K).label = T(Gs(x).label)
          BY <1>6, <3>1
        <5> QED
          BY <5>3, <5>4
      <4> QED
        BY <1>4, <1>18, <2>0, <4>2, <4>3, <4>4
    <3> QED
      BY <3>2, <3>3
  <2>3. CASE \E j \in 1..N : K = P(j)
    <3>1. PICK j \in 1..N : K = P(j)
      BY <2>3
    <3>2. New(K).label = Sub(Old(j).label, s, e) /\ Targets(New(K)) = Targets(Old(j))
      BY <1>6, <3>1
    <3>3. l \in Labels(f) /\ l # Old(1).label
      BY <1>2, <3>2
    <3>4. ASSUME NEW k \in Targets(New(K)), l # k PROVE PredLabels(h, l) = {New(K).label}
      <4>1. PredLabels(f, l) = {Old(j).label}
        BY <1>10, <3>2, <3>4
      <4>2. \A z : z \in PredLabels(h, l) <=> z = Sub(Old(j).label, s, e)
        BY <1>9, <3>3, <4>1
      <4> QED
        BY <3>2, <4>2
    <3> QED
      BY <1>16, <2>0, <3>3, <3>4
  <2> QED
    BY <1>11, <2>1, <2>2, <2>3
<1>21. BranchesLead(h) /\ NoCriticalEdge(h)
  BY <1>20 DEF BranchesLead, NoCriticalEdge, New
<1>22. \A z : z \in Labels(h) <=> z \in Labels(f) \/ z = e \/ \E l \in Labels(g) : z = T(l)
  BY <1>15, <1>16, <1>17, <1>18
<1>23. \A K \in DOMAIN h.blocks : h.blocks[1].label \notin Targets(h.blocks[K])
  BY <1>20 DEF New
<1> QED
  BY <1>12, <1>19, <1>21, <1>22, <1>23 DEF e, T

-----------------------------------------------------------------------------
(* The phi behind the call *)

\* Block x of the copy: its label, its last instruction, and what that returns.
CopyEnd(copy, g, n, x, offset, args) ==
  LET last == g.blocks[x].insns[Len(g.blocks[x].insns)]
  IN /\ copy[x].label = Tag(g.blocks[x].label, g.name, n)
     /\ GivesBack(copy[x]) <=> Returns(g.blocks[x]) /\ last.args # <<>>
     /\ last.args # <<>> =>
          1 \in DOMAIN last.args /\ Last(copy[x].insns).args[1] = Argument(last.args[1], offset, args)

\* How the blocks of the copy end.
LEMMA CopyEnds ==
  ASSUME NEW g, NEW n, NEW offset, NEW args, Formed(g), NEW x \in 1..Len(g.blocks)
  PROVE  CopyEnd(Copy(g, n, offset, args), g, n, x, offset, args)
<1> DEFINE copy == Copy(g, n, offset, args)
           old == g.blocks[x].insns
           new == copy[x].insns
           last == old[Len(old)]
           end == Renamed(last, g, n, offset, args)
<1>1. /\ DOMAIN g.blocks = 1..Len(g.blocks) /\ Len(old) \in Nat \ {0} /\ DOMAIN old = 1..Len(old)
      /\ InsnFormed(g, x, Len(old))
  <2>1. /\ DOMAIN g.blocks = 1..Len(g.blocks) /\ Len(old) \in Nat \ {0} /\ DOMAIN old = 1..Len(old)
        /\ \A y \in 1..Len(old) : InsnFormed(g, x, y)
    BY FormedSizes
  <2> QED
    BY <2>1
<1>2. /\ copy[x].label = Tag(g.blocks[x].label, g.name, n)
      /\ new = [y \in 1..Len(old) |-> Renamed(old[y], g, n, offset, args)]
  BY <1>1 DEF Copy
<1>3. IsSequence(last.args)
  BY <1>1 DEF InsnFormed
<1> HIDE DEF copy, end, new, old
<1>4. Len(new) = Len(old) /\ new[Len(old)] = end
  <2>1. new = [y \in 1..Len(old) |-> new[y]]
    BY <1>2
  <2>2. Len(new) = Len(old)
    BY <1>1, <2>1, MadeSequence
  <2>3. Len(old) \in 1..Len(old)
    BY <1>1
  <2> QED
    BY <1>2, <2>2, <2>3 DEF end
<1>5. Last(new) = end
  BY <1>4 DEF Last
<1>6. /\ end.op = last.op
      /\ end.args = [j \in DOMAIN last.args |-> Argument(last.args[j], offset, args)]
  BY DEF end, Renamed, Rewritten
<1>7. Len(last.args) \in Nat /\ DOMAIN last.args = 1..Len(last.args) /\ (last.args # <<>> <=> Len(last.args) > 0)
  BY <1>3, SequenceFacts
<1>8. IsSequence(end.args) /\ Len(end.args) = Len(last.args)
  <2>1. end.args = [j \in 1..Len(last.args) |-> end.args[j]]
    BY <1>6, <1>7
  <2> QED
    BY <1>7, <2>1, MadeSequence
<1>9. end.args # <<>> <=> last.args # <<>>
  BY <1>7, <1>8, SequenceFacts
<1>10. last.args # <<>> => 1 \in DOMAIN last.args /\ end.args[1] = Argument(last.args[1], offset, args)
  BY <1>6, <1>7
<1>11. Returns(g.blocks[x]) <=> last.op = "ret"
  BY DEF Returns, Last, old
<1>12. GivesBack(copy[x]) <=> end.op = "ret" /\ end.args # <<>>
  BY <1>5 DEF GivesBack, new
<1>13. Last(copy[x].insns) = end
  BY <1>5 DEF new
<1>14. GivesBack(copy[x]) <=> Returns(g.blocks[x]) /\ last.args # <<>>
  BY <1>6, <1>9, <1>11, <1>12
<1> QED
  BY <1>2, <1>10, <1>13, <1>14 DEF CopyEnd, copy, last, old

\* The phi receives from the blocks of the copy that returned, once from each.
ResultOf(phi, dst, g, n, offset, args) ==
  /\ phi.op = "phi" /\ phi.dst = dst /\ IsSequence(phi.args) /\ IsSequence(phi.labels)
  /\ \A j \in DOMAIN phi.labels : \E x \in 1..Len(g.blocks) :
       phi.labels[j] = Tag(g.blocks[x].label, g.name, n) /\ Returns(g.blocks[x])
  /\ \A x \in 1..Len(g.blocks) : Returns(g.blocks[x]) =>
       \E j \in DOMAIN phi.labels : phi.labels[j] = Tag(g.blocks[x].label, g.name, n)
  /\ IsInjective(phi.labels)
  /\ \A j \in DOMAIN phi.args : \E x \in 1..Len(g.blocks) :
       LET last == g.blocks[x].insns[Len(g.blocks[x].insns)]
       IN 1 \in DOMAIN last.args /\ phi.args[j] = Argument(last.args[1], offset, args)

\* The result phi has one income per returning block of the copy.
LEMMA ResultFacts ==
  ASSUME NEW f, NEW b, NEW i, NEW g, NEW n, Setting(f, b, i, g, n), f.blocks[b].insns[i].dst # NoReg
  PROVE  ResultOf(ResultPhi(f.blocks[b].insns[i].dst, CopyAt(f, b, i, g, n)), f.blocks[b].insns[i].dst,
                  g, n, Largest(f) + 1, f.blocks[b].insns[i].args)
<1> DEFINE copy == CopyAt(f, b, i, g, n)
           offset == Largest(f) + 1
           args == f.blocks[b].insns[i].args
           dst == f.blocks[b].insns[i].dst
           m == Len(g.blocks)
           T(l) == Tag(l, g.name, n)
           Gs(x) == g.blocks[x]
           last(x) == Gs(x).insns[Len(Gs(x).insns)]
           returning == Incomes(copy)
           phi == ResultPhi(dst, copy)
<1>1. /\ Formed(g) /\ WellFormed(g) /\ ReturnsValue(g)
      /\ \A l, k \in Labels(g) : T(l) = T(k) => l = k
  BY DEF Setting, TheCall, Apart
<1>2. /\ m \in Nat \ {0} /\ DOMAIN g.blocks = 1..m
      /\ \A x \in 1..m : Gs(x).label \in Labels(g)
      /\ \A x, y \in 1..m : Gs(x).label = Gs(y).label => x = y
  BY <1>1, GraphFacts
<1>3. IsSequence(copy) /\ Len(copy) = m
  <2>1. copy = [x \in 1..m |-> copy[x]]
    BY <1>2 DEF CopyAt, Copy
  <2> HIDE DEF copy, m
  <2> QED
    BY <1>2, <2>1, MadeSequence
<1>4. ASSUME NEW x \in 1..m PROVE CopyEnd(copy, g, n, x, offset, args)
  BY <1>1, CopyEnds DEF CopyAt
<1>5. ASSUME NEW x \in 1..m, Returns(Gs(x)) PROVE last(x).args # <<>>
  <2>1. Len(Gs(x).insns) \in DOMAIN Gs(x).insns /\ x \in DOMAIN g.blocks
    <3>1. Len(Gs(x).insns) \in Nat \ {0} /\ DOMAIN Gs(x).insns = 1..Len(Gs(x).insns)
      BY <1>1, FormedSizes
    <3> QED
      BY <1>2, <3>1
  <2>2. last(x) \in Insns(g) /\ last(x).op = "ret"
    BY <1>5, <2>1, PositionFacts DEF Returns, Last
  <2> QED
    BY <1>1, <2>2 DEF ReturnsValue
<1>6. /\ phi.op = "phi" /\ phi.dst = dst
      /\ phi.args = [j \in DOMAIN returning |-> Last(returning[j].insns).args[1]]
      /\ phi.labels = [j \in DOMAIN returning |-> returning[j].label]
  BY DEF ResultPhi
<1> HIDE DEF copy, m, T, Gs, last, returning, phi, dst, args, offset
<1>7. \A x \in 1..m : /\ copy[x].label = T(Gs(x).label)
                      /\ GivesBack(copy[x]) <=> Returns(Gs(x)) /\ last(x).args # <<>>
                      /\ last(x).args # <<>> => /\ 1 \in DOMAIN last(x).args
                                               /\ Last(copy[x].insns).args[1] = Argument(last(x).args[1], offset, args)
  BY <1>4 DEF CopyEnd, T, Gs, last
<1>8. IncomesOf(copy, Len(copy), returning)
  <2>1. \A x, y \in 1..Len(copy) : copy[x].label = copy[y].label => x = y
    BY <1>1, <1>2, <1>3, <1>7
  <2> QED
    BY <1>3, <2>1, IncomesFacts DEF returning
<1>9. /\ IsSequence(returning)
      /\ \A j \in 1..Len(returning) : \E x \in 1..m : returning[j] = copy[x] /\ GivesBack(copy[x])
      /\ \A x \in 1..m : GivesBack(copy[x]) => \E j \in 1..Len(returning) : returning[j] = copy[x]
      /\ \A j, k \in 1..Len(returning) : returning[j].label = returning[k].label => j = k
  BY <1>3, <1>8 DEF IncomesOf
<1>10. Len(returning) \in Nat /\ DOMAIN returning = 1..Len(returning)
  BY <1>9, SequenceFacts
<1>11. IsSequence(phi.args) /\ DOMAIN phi.args = 1..Len(returning)
  <2>1. phi.args = [j \in 1..Len(returning) |-> phi.args[j]]
    BY <1>6, <1>10
  <2> QED
    BY <1>10, <2>1, MadeSequence
<1>12. IsSequence(phi.labels) /\ DOMAIN phi.labels = 1..Len(returning)
  <2>1. phi.labels = [j \in 1..Len(returning) |-> phi.labels[j]]
    BY <1>6, <1>10
  <2> QED
    BY <1>10, <2>1, MadeSequence
<1>13. /\ \A j \in 1..Len(returning) : phi.labels[j] = returning[j].label
       /\ \A j \in 1..Len(returning) : phi.args[j] = Last(returning[j].insns).args[1]
  BY <1>6, <1>10
<1>14. ASSUME NEW j \in 1..Len(returning)
       PROVE  \E x \in 1..m : phi.labels[j] = T(Gs(x).label) /\ Returns(Gs(x))
  <2>1. PICK x \in 1..m : returning[j] = copy[x] /\ GivesBack(copy[x])
    BY <1>9
  <2>2. phi.labels[j] = copy[x].label
    BY <1>13, <2>1
  <2> QED
    BY <1>7, <2>1, <2>2
<1>15. ASSUME NEW x \in 1..m, Returns(Gs(x)) PROVE \E j \in 1..Len(returning) : phi.labels[j] = T(Gs(x).label)
  <2>1. GivesBack(copy[x])
    BY <1>5, <1>7, <1>15
  <2>2. PICK j \in 1..Len(returning) : returning[j] = copy[x]
    BY <1>9, <2>1
  <2> QED
    BY <1>7, <1>13, <2>2
<1>16. IsInjective(phi.labels)
  <2>1. ASSUME NEW j \in DOMAIN phi.labels, NEW k \in DOMAIN phi.labels, phi.labels[j] = phi.labels[k] PROVE j = k
    <3>1. j \in 1..Len(returning) /\ k \in 1..Len(returning)
      BY <1>12
    <3>2. returning[j].label = returning[k].label
      BY <1>13, <2>1, <3>1
    <3> QED
      BY <1>9, <3>1, <3>2
  <2> QED
    BY <2>1 DEF IsInjective
<1>17. ASSUME NEW j \in 1..Len(returning)
       PROVE  \E x \in 1..m : 1 \in DOMAIN last(x).args /\ phi.args[j] = Argument(last(x).args[1], offset, args)
  <2>1. PICK x \in 1..m : returning[j] = copy[x] /\ GivesBack(copy[x])
    BY <1>9
  <2> QED
    BY <1>7, <1>13, <2>1
<1>18. ResultOf(phi, dst, g, n, offset, args)
  BY <1>6, <1>11, <1>12, <1>14, <1>15, <1>16, <1>17 DEF ResultOf, m, T, Gs, last
<1> QED
  BY <1>18 DEF phi, dst, offset, args, copy

-----------------------------------------------------------------------------
(* The instructions after a call was inlined *)

\* Where instruction p of f, other than the call, and q of g are found in h.
Put(p, b, i, m, d) ==
  IF p[1] < b \/ (p[1] = b /\ p[2] < i) THEN p
  ELSE IF p[1] = b THEN <<b + m + 1, p[2] - i + d>> ELSE <<p[1] + m + 1, p[2]>>
\* Where instruction q of the copied function is found in h.
Into(q, b) == <<b + q[1], q[2]>>
\* P is the place of an instruction of f other than the call.
IsPut(P, f, b, i, m, d) == \E p \in Positions(f) : p # <<b, i>> /\ P = Put(p, b, i, m, d)
\* P is the place of an instruction of the copy.
IsInto(P, g, b) == \E q \in Positions(g) : P = Into(q, b)

\* An instruction of the copy.
CopyOf(inst, g, n, offset, args) ==
  IF inst.op = "ret" THEN Br(Ending(g, n)) ELSE Renamed(inst, g, n, offset, args)
\* The instructions of h, each with the one it comes from.
Laid(h, f, b, i, g, n) ==
  LET call == f.blocks[b].insns[i]
      m == Len(g.blocks)
      d == Gap(f, b, i)
      phi == <<b + m + 1, 1>>
  IN /\ \A p \in Positions(f) : p # <<b, i>> =>
          /\ Put(p, b, i, m, d) \in Positions(h)
          /\ At(h, Put(p, b, i, m, d)) = Redirected(At(f, p), f.blocks[b].label, Ending(g, n))
     /\ \A q \in Positions(g) :
          /\ Into(q, b) \in Positions(h)
          /\ At(h, Into(q, b)) = CopyOf(At(g, q), g, n, Largest(f) + 1, call.args)
     /\ <<b, i>> \in Positions(h) /\ At(h, <<b, i>>) = Br(Tag(g.blocks[1].label, g.name, n))
     /\ call.dst # NoReg => phi \in Positions(h) /\ At(h, phi) = ResultPhi(call.dst, CopyAt(f, b, i, g, n))
     /\ \A P \in Positions(h) :
          P = <<b, i>> \/ (call.dst # NoReg /\ P = phi) \/ IsInto(P, g, b) \/ IsPut(P, f, b, i, m, d)

\* No label of the copy is the one redirected.
LEMMA CopyUntouched ==
  ASSUME NEW f, NEW b, NEW i, NEW g, NEW n, Setting(f, b, i, g, n), NEW q \in Positions(g)
  PROVE  LET r == Renamed(At(g, q), g, n, Largest(f) + 1, f.blocks[b].insns[i].args)
         IN Redirected(r, f.blocks[b].label, Ending(g, n)) = r
<1> DEFINE inst == At(g, q)
           r == Renamed(inst, g, n, Largest(f) + 1, f.blocks[b].insns[i].args)
           s == f.blocks[b].label
<1>1. /\ Formed(f) /\ WellFormed(f) /\ Formed(g) /\ WellFormed(g)
      /\ b \in 1..Len(f.blocks) /\ \A l \in Labels(g) : Tag(l, g.name, n) \notin Labels(f)
  BY DEF Setting, Apart, TheCall
<1>2. s \in Labels(f)
  BY <1>1, GraphFacts
<1>3. ASSUME inst.op = "phi" PROVE \A j \in DOMAIN inst.labels : inst.labels[j] \in Labels(g)
  <2>1. ToSet(inst.labels) = PredLabels(g, g.blocks[q[1]].label)
    BY <1>1, <1>3 DEF WellFormed, IncomesExact
  <2>2. \A l, z : z \in PredLabels(g, l) => z \in Labels(g)
    BY DEF PredLabels, Labels
  <2> QED
    BY <2>1, <2>2 DEF ToSet
<1>4. ASSUME inst.op = "phi"
      PROVE  [j \in DOMAIN r.labels |-> Sub(r.labels[j], s, Ending(g, n))] = r.labels
  <2>1. r.labels = [j \in DOMAIN inst.labels |-> Tag(inst.labels[j], g.name, n)]
    BY DEF Renamed, Rewritten
  <2>2. \A j \in DOMAIN inst.labels : Tag(inst.labels[j], g.name, n) # s
    BY <1>1, <1>2, <1>3, <1>4
  <2> HIDE DEF r, inst, s
  <2>3. \A j \in DOMAIN r.labels : Sub(r.labels[j], s, Ending(g, n)) = r.labels[j]
    BY <2>1, <2>2 DEF Sub
  <2> QED
    BY <2>1, <2>3
<1>5. r = [op |-> inst.op, dst |-> r.dst, args |-> r.args, labels |-> r.labels, callee |-> r.callee] /\ r.op = inst.op
  BY DEF Renamed, Rewritten
<1> HIDE DEF r, inst, s
<1>6. Redirected(r, s, Ending(g, n)) = r
  <2>1. CASE inst.op # "phi"
    BY <1>5, <2>1 DEF Redirected
  <2>2. CASE inst.op = "phi"
    <3>1. Redirected(r, s, Ending(g, n)) = Rewritten(r, r.dst, r.args, r.labels)
      BY <1>4, <1>5, <2>2 DEF Redirected
    <3> QED
      BY <1>5, <3>1 DEF Rewritten
  <2> QED
    BY <2>1, <2>2
<1> QED
  BY <1>6 DEF r, inst, s

\* Nor does the result phi name it.
LEMMA ResultUntouched ==
  ASSUME NEW f, NEW b, NEW i, NEW g, NEW n, Setting(f, b, i, g, n), f.blocks[b].insns[i].dst # NoReg
  PROVE  LET phi == ResultPhi(f.blocks[b].insns[i].dst, CopyAt(f, b, i, g, n))
         IN Redirected(phi, f.blocks[b].label, Ending(g, n)) = phi
<1> DEFINE dst == f.blocks[b].insns[i].dst
           phi == ResultPhi(dst, CopyAt(f, b, i, g, n))
           s == f.blocks[b].label
           e == Ending(g, n)
<1>1. /\ Formed(f) /\ WellFormed(f) /\ Formed(g) /\ WellFormed(g)
      /\ b \in 1..Len(f.blocks) /\ \A l \in Labels(g) : Tag(l, g.name, n) \notin Labels(f)
  BY DEF Setting, Apart, TheCall
<1>2. s \in Labels(f) /\ \A x \in 1..Len(g.blocks) : g.blocks[x].label \in Labels(g)
  BY <1>1, GraphFacts
<1>3. ResultOf(phi, dst, g, n, Largest(f) + 1, f.blocks[b].insns[i].args)
  BY ResultFacts
<1>4. phi = [op |-> "phi", dst |-> phi.dst, args |-> phi.args, labels |-> phi.labels, callee |-> phi.callee]
  BY DEF ResultPhi
<1> HIDE DEF phi, s, e, dst
<1>5. ASSUME NEW j \in DOMAIN phi.labels PROVE phi.labels[j] # s
  <2>1. PICK x \in 1..Len(g.blocks) : phi.labels[j] = Tag(g.blocks[x].label, g.name, n)
    BY <1>3 DEF ResultOf
  <2> QED
    BY <1>1, <1>2, <2>1
<1>6. [j \in DOMAIN phi.labels |-> Sub(phi.labels[j], s, e)] = phi.labels
  <2>1. IsSequence(phi.labels)
    BY <1>3 DEF ResultOf
  <2>2. DOMAIN phi.labels = 1..Len(phi.labels) /\ phi.labels = [j \in 1..Len(phi.labels) |-> phi.labels[j]]
    BY <2>1, SequenceFacts
  <2>3. \A j \in DOMAIN phi.labels : Sub(phi.labels[j], s, e) = phi.labels[j]
    BY <1>5 DEF Sub
  <2> QED
    BY <2>2, <2>3
<1>7. Redirected(phi, s, e) = phi
  <2>1. phi.op = "phi"
    BY <1>4
  <2>2. Redirected(phi, s, e) = Rewritten(phi, phi.dst, phi.args, phi.labels)
    BY <1>6, <2>1 DEF Redirected
  <2> QED
    BY <1>4, <2>1, <2>2 DEF Rewritten
<1> QED
  BY <1>7 DEF phi, s, e, dst

\* Spliced blocks hold these instructions.
LEMMA LaidOf ==
  ASSUME NEW h, NEW f, NEW b, NEW i, NEW g, NEW n, Setting(f, b, i, g, n), Spliced(h, f, b, i, g, n)
  PROVE  Laid(h, f, b, i, g, n)
<1> DEFINE s == f.blocks[b].label
           e == Ending(g, n)
           m == Len(g.blocks)
           N == Len(f.blocks)
           d == Gap(f, b, i)
           of == f.blocks[b].insns
           L == Len(of)
           Is(P, inst) == P \in Positions(h) /\ At(h, P) = inst
           New(K) == h.blocks[K].insns
           Old(j) == f.blocks[j].insns
           Gs(x) == g.blocks[x].insns
           P0(p) == Put(p, b, i, m, d)
           copied(inst) == CopyOf(inst, g, n, Largest(f) + 1, of[i].args)
           result == ResultPhi(of[i].dst, CopyAt(f, b, i, g, n))
<1>1. Formed(f) /\ Formed(g) /\ TheCall(f, b, i, g)
  BY DEF Setting
<1>2. /\ N \in Nat /\ m \in Nat \ {0} /\ b \in 1..N /\ b \in Nat \ {0}
      /\ L \in Nat /\ i \in Nat \ {0} /\ i < L
      /\ DOMAIN f.blocks = 1..N /\ DOMAIN g.blocks = 1..m
  BY <1>1, CallPlace
<1>3. /\ \A j \in 1..N : Len(Old(j)) \in Nat \ {0} /\ DOMAIN Old(j) = 1..Len(Old(j))
      /\ \A x \in 1..m : Len(Gs(x)) \in Nat \ {0} /\ DOMAIN Gs(x) = 1..Len(Gs(x))
  BY <1>1, FormedSizes
<1>4. /\ IsSequence(h.blocks) /\ Len(h.blocks) = N + m + 1
      /\ \A k \in 1..b - 1 : KeptBlock(h, k, f, k, s, e)
      /\ LeftBlock(h, f, b, i, g, n)
      /\ \A x \in 1..m : CopiedBlock(h, b + x, f, b, i, g, n, x)
      /\ RightBlock(h, b + m + 1, f, b, i, g, n)
      /\ \A k \in b + 1..N : KeptBlock(h, k + m + 1, f, k, s, e)
  BY DEF Spliced
<1>5. DOMAIN h.blocks = 1..N + m + 1
  BY <1>4, SequenceFacts
<1>6. (d = 0 \/ d = 1) /\ (of[i].dst # NoReg => d = 1) /\ (d = 1 => of[i].dst # NoReg)
  BY DEF Gap
<1> HIDE DEF N, m, L, d
<1>7. ASSUME NEW K \in 1..N + m + 1, NEW y \in DOMAIN New(K) PROVE Is(<<K, y>>, New(K)[y])
  <2>1. K \in DOMAIN h.blocks
    BY <1>5
  <2> QED
    BY <2>1, PositionFacts
<1>8. \A P \in Positions(h) : P[1] \in 1..N + m + 1 /\ P[2] \in DOMAIN New(P[1]) /\ P = <<P[1], P[2]>>
  BY <1>5, PositionFacts
<1>9. /\ \A p \in Positions(f) : /\ p[1] \in 1..N /\ p[2] \in 1..Len(Old(p[1])) /\ p = <<p[1], p[2]>>
                                 /\ At(f, p) = Old(p[1])[p[2]]
      /\ \A q \in Positions(g) : /\ q[1] \in 1..m /\ q[2] \in 1..Len(Gs(q[1])) /\ q = <<q[1], q[2]>>
                                 /\ At(g, q) = Gs(q[1])[q[2]]
      /\ \A j \in 1..N : \A y \in 1..Len(Old(j)) : <<j, y>> \in Positions(f) /\ At(f, <<j, y>>) = Old(j)[y]
      /\ \A x \in 1..m : \A y \in 1..Len(Gs(x)) : <<x, y>> \in Positions(g) /\ At(g, <<x, y>>) = Gs(x)[y]
  <2>1. \A p \in Positions(f) : /\ p[1] \in DOMAIN f.blocks /\ p[2] \in DOMAIN Old(p[1]) /\ p = <<p[1], p[2]>>
                                 /\ At(f, p) = Old(p[1])[p[2]]
    BY PositionFacts
  <2>2. \A q \in Positions(g) : /\ q[1] \in DOMAIN g.blocks /\ q[2] \in DOMAIN Gs(q[1]) /\ q = <<q[1], q[2]>>
                                 /\ At(g, q) = Gs(q[1])[q[2]]
    BY PositionFacts
  <2>3. ASSUME NEW j \in 1..N, NEW y \in 1..Len(Old(j)) PROVE <<j, y>> \in Positions(f) /\ At(f, <<j, y>>) = Old(j)[y]
    <3>1. j \in DOMAIN f.blocks /\ y \in DOMAIN Old(j)
      BY <1>2, <1>3
    <3> QED
      BY <3>1, PositionFacts
  <2>4. ASSUME NEW x \in 1..m, NEW y \in 1..Len(Gs(x)) PROVE <<x, y>> \in Positions(g) /\ At(g, <<x, y>>) = Gs(x)[y]
    <3>1. x \in DOMAIN g.blocks /\ y \in DOMAIN Gs(x)
      BY <1>2, <1>3
    <3> QED
      BY <3>1, PositionFacts
  <2> HIDE DEF Old, Gs
  <2> QED
    BY <1>2, <1>3, <2>1, <2>2, <2>3, <2>4
<1>10. ASSUME NEW k \in 1..b - 1
       PROVE  /\ k \in 1..N /\ k \in 1..N + m + 1 /\ DOMAIN New(k) = 1..Len(Old(k))
              /\ \A y \in 1..Len(Old(k)) : New(k)[y] = Redirected(Old(k)[y], s, e)
  <2>1. KeptBlock(h, k, f, k, s, e)
    BY <1>4
  <2>2. IsSequence(New(k)) /\ Len(New(k)) = Len(Old(k))
    BY <2>1 DEF KeptBlock
  <2>3. DOMAIN New(k) = 1..Len(Old(k))
    BY <2>2, SequenceFacts
  <2>4. k \in 1..N /\ k \in 1..N + m + 1
    BY <1>2
  <2> QED
    BY <2>1, <2>3, <2>4 DEF KeptBlock
<1>11. ASSUME NEW k \in b + 1..N
       PROVE  /\ k \in 1..N /\ k + m + 1 \in 1..N + m + 1 /\ DOMAIN New(k + m + 1) = 1..Len(Old(k))
              /\ \A y \in 1..Len(Old(k)) : New(k + m + 1)[y] = Redirected(Old(k)[y], s, e)
  <2> DEFINE K == k + m + 1
  <2>1. KeptBlock(h, K, f, k, s, e)
    BY <1>4
  <2>4. k \in 1..N /\ K \in 1..N + m + 1
    BY <1>2
  <2> HIDE DEF K
  <2>2. IsSequence(New(K)) /\ Len(New(K)) = Len(Old(k))
    BY <2>1 DEF KeptBlock
  <2>3. DOMAIN New(K) = 1..Len(Old(k))
    BY <2>2, SequenceFacts
  <2>5. \A y \in 1..Len(Old(k)) : New(K)[y] = Redirected(Old(k)[y], s, e)
    BY <2>1 DEF KeptBlock
  <2>6. /\ k \in 1..N /\ K \in 1..N + m + 1 /\ DOMAIN New(K) = 1..Len(Old(k))
        /\ \A y \in 1..Len(Old(k)) : New(K)[y] = Redirected(Old(k)[y], s, e)
    BY <2>3, <2>4, <2>5
  <2> QED
    BY <2>6 DEF K
<1>12. /\ b \in 1..N + m + 1 /\ DOMAIN New(b) = 1..i
       /\ \A y \in 1..i - 1 : New(b)[y] = Redirected(of[y], s, e)
       /\ New(b)[i] = Br(Tag(g.blocks[1].label, g.name, n))
  <2>1. IsSequence(New(b)) /\ Len(New(b)) = i
    BY <1>4 DEF LeftBlock
  <2>2. DOMAIN New(b) = 1..i
    BY <2>1, SequenceFacts
  <2>3. b \in 1..N + m + 1
    BY <1>2
  <2> QED
    BY <1>4, <2>2, <2>3 DEF LeftBlock
<1>13. /\ b + m + 1 \in 1..N + m + 1 /\ DOMAIN New(b + m + 1) = 1..L - i + d
       /\ \A y \in i + 1..L : New(b + m + 1)[y - i + d] = Redirected(of[y], s, e)
       /\ of[i].dst # NoReg => New(b + m + 1)[1] = result
  <2> DEFINE K == b + m + 1
  <2>1. RightBlock(h, K, f, b, i, g, n)
    BY <1>4
  <2>2. K \in 1..N + m + 1
    BY <1>2
  <2> HIDE DEF K
  <2>3. IsSequence(New(K)) /\ Len(New(K)) = L - i + d
    BY <2>1 DEF RightBlock, L, d
  <2>4. DOMAIN New(K) = 1..L - i + d
    BY <2>3, SequenceFacts
  <2>5. \A y \in i + 1..L : New(K)[y - i + d] = Redirected(of[y], s, e)
    BY <2>1 DEF RightBlock, L, d
  <2>6. of[i].dst # NoReg => New(K)[1] = Redirected(result, s, e)
    BY <2>1 DEF RightBlock, L, d
  <2>7. of[i].dst # NoReg => Redirected(result, s, e) = result
    BY ResultUntouched
  <2>8. of[i].dst # NoReg => New(K)[1] = result
    <3> HIDE DEF result
    <3> QED
      BY <2>6, <2>7
  <2>9. /\ K \in 1..N + m + 1 /\ DOMAIN New(K) = 1..L - i + d
        /\ \A y \in i + 1..L : New(K)[y - i + d] = Redirected(of[y], s, e)
        /\ of[i].dst # NoReg => New(K)[1] = result
    BY <2>2, <2>4, <2>5, <2>8
  <2> QED
    BY <2>9 DEF K
<1>14. ASSUME NEW x \in 1..m
       PROVE  /\ b + x \in 1..N + m + 1 /\ DOMAIN New(b + x) = 1..Len(Gs(x))
              /\ \A y \in 1..Len(Gs(x)) : New(b + x)[y] = copied(Gs(x)[y])
  <2> DEFINE K == b + x
  <2>1. CopiedBlock(h, K, f, b, i, g, n, x)
    BY <1>4
  <2>2. K \in 1..N + m + 1
    BY <1>2
  <2> HIDE DEF K
  <2>3. IsSequence(New(K)) /\ Len(New(K)) = Len(Gs(x))
    BY <2>1 DEF CopiedBlock
  <2>4. DOMAIN New(K) = 1..Len(Gs(x))
    BY <2>3, SequenceFacts
  <2>5. ASSUME NEW y \in 1..Len(Gs(x)) PROVE New(K)[y] = copied(Gs(x)[y])
    <3> DEFINE r == Renamed(Gs(x)[y], g, n, Largest(f) + 1, of[i].args)
    <3>1. New(K)[y] = IF Gs(x)[y].op = "ret" THEN Br(e) ELSE Redirected(r, s, e)
      BY <2>1 DEF CopiedBlock
    <3>2. <<x, y>> \in Positions(g) /\ At(g, <<x, y>>) = Gs(x)[y]
      BY <1>9
    <3>3. Redirected(r, s, e) = r
      <4> DEFINE q == <<x, y>>
      <4> HIDE DEF q
      <4>1. q \in Positions(g) /\ At(g, q) = Gs(x)[y]
        BY <3>2 DEF q
      <4>2. LET rr == Renamed(At(g, q), g, n, Largest(f) + 1, f.blocks[b].insns[i].args)
            IN Redirected(rr, f.blocks[b].label, Ending(g, n)) = rr
        BY <4>1, CopyUntouched
      <4> QED
        BY <4>1, <4>2
    <3> QED
      BY <3>1, <3>3 DEF CopyOf
  <2>6. /\ K \in 1..N + m + 1 /\ DOMAIN New(K) = 1..Len(Gs(x))
        /\ \A y \in 1..Len(Gs(x)) : New(K)[y] = copied(Gs(x)[y])
    BY <2>2, <2>4, <2>5
  <2> QED
    BY <2>6 DEF K
<1> HIDE DEF s, e, m, N, d, of, L, New, Old, Gs, P0, copied, result
<1>15. ASSUME NEW p \in Positions(f), p # <<b, i>>
       PROVE  Is(P0(p), Redirected(At(f, p), s, e))
  <2>1. /\ p[1] \in 1..N /\ p[2] \in 1..Len(Old(p[1])) /\ p = <<p[1], p[2]>>
        /\ At(f, p) = Old(p[1])[p[2]] /\ Len(Old(p[1])) \in Nat
    BY <1>3, <1>9
  <2>2. CASE p[1] < b
    <3>1. p[1] \in 1..b - 1 /\ P0(p) = p
      BY <1>2, <2>1, <2>2 DEF P0, Put
    <3> QED
      BY <1>7, <1>10, <2>1, <3>1
  <2>3. CASE p[1] > b
    <3>1. p[1] \in b + 1..N /\ P0(p) = <<p[1] + m + 1, p[2]>>
      BY <1>2, <2>1, <2>3 DEF P0, Put
    <3>2. /\ p[1] + m + 1 \in 1..N + m + 1 /\ p[2] \in DOMAIN New(p[1] + m + 1)
          /\ New(p[1] + m + 1)[p[2]] = Redirected(Old(p[1])[p[2]], s, e)
      BY <1>11, <2>1, <3>1
    <3> QED
      BY <1>7, <2>1, <3>1, <3>2
  <2>4. CASE p[1] = b /\ p[2] < i
    <3>1. p[2] \in 1..i - 1 /\ P0(p) = <<b, p[2]>> /\ p[2] \in 1..i
      BY <1>2, <2>1, <2>4 DEF P0, Put
    <3>2. New(b)[p[2]] = Redirected(of[p[2]], s, e) /\ At(f, p) = of[p[2]]
      BY <1>12, <2>1, <2>4, <3>1 DEF of, Old
    <3> QED
      BY <1>7, <1>12, <3>1, <3>2
  <2>5. CASE p[1] = b /\ p[2] > i
    <3>1. p[2] \in 1..L /\ At(f, p) = of[p[2]]
      BY <2>1, <2>5 DEF L, of, Old
    <3>2. p[2] \in i + 1..L /\ p[2] - i + d \in 1..L - i + d
      BY <1>2, <1>6, <2>5, <3>1
    <3>3. P0(p) = <<b + m + 1, p[2] - i + d>>
      BY <1>2, <2>5, <3>2 DEF P0, Put
    <3>4. New(b + m + 1)[p[2] - i + d] = Redirected(of[p[2]], s, e)
      BY <1>13, <3>2
    <3>5. Is(<<b + m + 1, p[2] - i + d>>, New(b + m + 1)[p[2] - i + d])
      BY <1>7, <1>13, <3>2
    <3> QED
      BY <3>1, <3>3, <3>4, <3>5
  <2>6. ~(p[1] = b /\ p[2] = i)
    BY <1>15, <2>1
  <2> QED
    BY <1>2, <2>1, <2>2, <2>3, <2>4, <2>5, <2>6
<1>16. ASSUME NEW q \in Positions(g) PROVE Is(Into(q, b), copied(At(g, q)))
  <2>1. /\ q[1] \in 1..m /\ q[2] \in 1..Len(Gs(q[1])) /\ At(g, q) = Gs(q[1])[q[2]]
    BY <1>9
  <2>2. Is(<<b + q[1], q[2]>>, New(b + q[1])[q[2]]) /\ New(b + q[1])[q[2]] = copied(Gs(q[1])[q[2]])
    BY <1>7, <1>14, <2>1
  <2> QED
    BY <2>1, <2>2 DEF Into
<1>17. Is(<<b, i>>, Br(Tag(g.blocks[1].label, g.name, n)))
  <2>1. i \in 1..i
    BY <1>2
  <2> QED
    BY <1>7, <1>12, <2>1
<1>18. of[i].dst # NoReg => Is(<<b + m + 1, 1>>, result)
  <2>1. of[i].dst # NoReg => 1 \in 1..L - i + d
    BY <1>2, <1>6
  <2> QED
    BY <1>7, <1>13, <2>1
<1>19. ASSUME NEW P \in Positions(h)
       PROVE  P = <<b, i>> \/ (of[i].dst # NoReg /\ P = <<b + m + 1, 1>>) \/ IsInto(P, g, b) \/ IsPut(P, f, b, i, m, d)
  <2> DEFINE K == P[1]
             y == P[2]
  <2>1. K \in 1..N + m + 1 /\ y \in DOMAIN New(K) /\ P = <<K, y>>
    BY <1>8
  <2> HIDE DEF K, y
  <2>2. ASSUME NEW p \in Positions(f), p # <<b, i>>, P = P0(p) PROVE IsPut(P, f, b, i, m, d)
    BY <2>2 DEF IsPut, P0
  <2>3. CASE K < b
    <3>1. K \in 1..b - 1
      BY <2>1, <2>3, <1>2
    <3>2. y \in 1..Len(Old(K)) /\ K \in 1..N
      BY <1>10, <2>1, <3>1
    <3>3. <<K, y>> \in Positions(f) /\ <<K, y>> # <<b, i>>
      BY <1>2, <1>9, <2>3, <3>1, <3>2
    <3>4. P0(<<K, y>>) = P
      BY <2>1, <2>3 DEF P0, Put
    <3> QED
      BY <2>2, <3>3, <3>4
  <2>4. CASE K = b
    <3>1. y \in 1..i
      BY <1>12, <2>1, <2>4
    <3>2. CASE y = i
      BY <2>1, <2>4, <3>2
    <3>3. CASE y # i
      <4>1. y \in 1..L /\ y < i
        BY <1>2, <3>1, <3>3
      <4>2. <<b, y>> \in Positions(f) /\ <<b, y>> # <<b, i>>
        BY <1>2, <1>9, <3>3, <4>1 DEF L, of, Old
      <4>3. P0(<<b, y>>) = P
        BY <2>1, <2>4, <4>1 DEF P0, Put
      <4> QED
        BY <2>2, <4>2, <4>3
    <3> QED
      BY <3>2, <3>3
  <2>5. CASE K \in b + 1..b + m
    <3>1. K - b \in 1..m /\ b + (K - b) = K
      BY <1>2, <2>5
    <3>2. DOMAIN New(b + (K - b)) = 1..Len(Gs(K - b))
      BY <1>14, <3>1
    <3>3. <<K - b, y>> \in Positions(g)
      BY <1>9, <2>1, <3>1, <3>2
    <3>4. Into(<<K - b, y>>, b) = P
      BY <2>1, <3>1 DEF Into
    <3> QED
      BY <3>3, <3>4 DEF IsInto
  <2>6. CASE K = b + m + 1
    <3>1. y \in 1..L - i + d
      BY <1>13, <2>1, <2>6
    <3>2. CASE y = 1 /\ d = 1
      BY <1>6, <2>1, <2>6, <3>2
    <3>3. CASE ~(y = 1 /\ d = 1)
      <4>1. /\ y + i - d \in i + 1..L /\ (y + i - d) - i + d = y /\ ~(y + i - d < i) /\ y + i - d # i
            /\ y + i - d \in 1..L
        BY <1>2, <1>6, <3>1, <3>3
      <4>2. <<b, y + i - d>> \in Positions(f) /\ <<b, y + i - d>> # <<b, i>>
        BY <1>2, <1>9, <4>1 DEF L, of, Old
      <4>3. P0(<<b, y + i - d>>) = <<b + m + 1, y>>
        BY <1>2, <4>1 DEF P0, Put
      <4> QED
        BY <2>1, <2>2, <2>6, <4>2, <4>3
    <3> QED
      BY <3>2, <3>3
  <2>7. CASE K > b + m + 1
    <3>1. K - m - 1 \in b + 1..N /\ (K - m - 1) + m + 1 = K /\ ~(K - m - 1 < b) /\ K - m - 1 # b
      <4>1. N \in Nat /\ m \in Nat /\ b \in Nat /\ K \in Nat /\ K <= N + m + 1
        BY <1>2, <2>1
      <4> HIDE DEF N, m
      <4> QED
        BY <2>7, <4>1
    <3>2. K - m - 1 \in 1..N /\ DOMAIN New((K - m - 1) + m + 1) = 1..Len(Old(K - m - 1))
      BY <1>11, <3>1
    <3>3. <<K - m - 1, y>> \in Positions(f) /\ <<K - m - 1, y>> # <<b, i>>
      BY <1>9, <2>1, <3>1, <3>2
    <3>4. P0(<<K - m - 1, y>>) = P
      BY <2>1, <3>1 DEF P0, Put
    <3> QED
      BY <2>2, <3>3, <3>4
  <2> QED
    BY <1>2, <2>1, <2>3, <2>4, <2>5, <2>6, <2>7
<1>20. \A p \in Positions(f) : p # <<b, i>> =>
         P0(p) \in Positions(h) /\ At(h, P0(p)) = Redirected(At(f, p), s, e)
  BY <1>15
<1>21. \A q \in Positions(g) : Into(q, b) \in Positions(h) /\ At(h, Into(q, b)) = copied(At(g, q))
  BY <1>16
<1>22. <<b, i>> \in Positions(h) /\ At(h, <<b, i>>) = Br(Tag(g.blocks[1].label, g.name, n))
  BY <1>17
<1>23. of[i].dst # NoReg => <<b + m + 1, 1>> \in Positions(h) /\ At(h, <<b + m + 1, 1>>) = result
  BY <1>18
<1> HIDE DEF Is
<1> QED
  BY <1>19, <1>20, <1>21, <1>22, <1>23 DEF Laid, P0, copied, result, of, m, d, s, e

\* Where the blocks of h end.
EndsOf(h, f, b, i, g, n) ==
  LET m == Len(g.blocks)
      d == Gap(f, b, i)
  IN /\ IsSequence(h.blocks) /\ h.blocks # <<>>
     /\ \A K \in DOMAIN h.blocks : IsSequence(h.blocks[K].insns) /\ h.blocks[K].insns # <<>>
     /\ \A p \in Positions(f) : p # <<b, i>> =>
          (Put(p, b, i, m, d)[2] = Len(h.blocks[Put(p, b, i, m, d)[1]].insns) <=> p[2] = Len(f.blocks[p[1]].insns))
     /\ \A q \in Positions(g) :
          (Into(q, b)[2] = Len(h.blocks[Into(q, b)[1]].insns) <=> q[2] = Len(g.blocks[q[1]].insns))
     /\ i = Len(h.blocks[b].insns)
     /\ f.blocks[b].insns[i].dst # NoReg => 1 # Len(h.blocks[b + m + 1].insns)

\* An instruction ends its block in h exactly if it did in f or g.
LEMMA EndsFacts ==
  ASSUME NEW h, NEW f, NEW b, NEW i, NEW g, NEW n, Setting(f, b, i, g, n), Spliced(h, f, b, i, g, n)
  PROVE  EndsOf(h, f, b, i, g, n)
<1> DEFINE s == f.blocks[b].label
           e == Ending(g, n)
           m == Len(g.blocks)
           N == Len(f.blocks)
           d == Gap(f, b, i)
           of == f.blocks[b].insns
           L == Len(of)
           New(K) == h.blocks[K].insns
           Old(j) == f.blocks[j].insns
           Gs(x) == g.blocks[x].insns
           P0(p) == Put(p, b, i, m, d)
<1>1. Formed(f) /\ Formed(g) /\ TheCall(f, b, i, g)
  BY DEF Setting
<1>2. /\ N \in Nat /\ m \in Nat \ {0} /\ b \in 1..N /\ b \in Nat \ {0}
      /\ L \in Nat /\ i \in Nat \ {0} /\ i < L
      /\ DOMAIN f.blocks = 1..N /\ DOMAIN g.blocks = 1..m
  BY <1>1, CallPlace
<1>3. /\ \A j \in 1..N : Len(Old(j)) \in Nat \ {0} /\ DOMAIN Old(j) = 1..Len(Old(j))
      /\ \A x \in 1..m : Len(Gs(x)) \in Nat \ {0} /\ DOMAIN Gs(x) = 1..Len(Gs(x))
  BY <1>1, FormedSizes
<1>4. /\ IsSequence(h.blocks) /\ Len(h.blocks) = N + m + 1
      /\ \A k \in 1..b - 1 : KeptBlock(h, k, f, k, s, e)
      /\ LeftBlock(h, f, b, i, g, n)
      /\ \A x \in 1..m : CopiedBlock(h, b + x, f, b, i, g, n, x)
      /\ RightBlock(h, b + m + 1, f, b, i, g, n)
      /\ \A k \in b + 1..N : KeptBlock(h, k + m + 1, f, k, s, e)
  BY DEF Spliced
<1>5. (d = 0 \/ d = 1) /\ (of[i].dst # NoReg => d = 1)
  BY DEF Gap
<1>6. /\ \A p \in Positions(f) : /\ p[1] \in 1..N /\ p[2] \in 1..Len(Old(p[1])) /\ p = <<p[1], p[2]>>
      /\ \A q \in Positions(g) : /\ q[1] \in 1..m /\ q[2] \in 1..Len(Gs(q[1])) /\ q = <<q[1], q[2]>>
  <2>1. \A p \in Positions(f) : p[1] \in DOMAIN f.blocks /\ p[2] \in DOMAIN Old(p[1]) /\ p = <<p[1], p[2]>>
    BY PositionFacts
  <2>2. \A q \in Positions(g) : q[1] \in DOMAIN g.blocks /\ q[2] \in DOMAIN Gs(q[1]) /\ q = <<q[1], q[2]>>
    BY PositionFacts
  <2> HIDE DEF Old, Gs, N, m
  <2> QED
    BY <1>2, <1>3, <2>1, <2>2
<1> HIDE DEF N, m, L, d, e, s
<1>7. DOMAIN h.blocks = 1..N + m + 1 /\ h.blocks # <<>>
  <2>1. DOMAIN h.blocks = 1..Len(h.blocks) /\ (h.blocks # <<>> <=> Len(h.blocks) > 0)
    BY <1>4, SequenceFacts
  <2>2. N + m + 1 > 0
    BY <1>2
  <2> QED
    BY <1>4, <2>1, <2>2
<1>8. \A k \in 1..b - 1 : IsSequence(New(k)) /\ Len(New(k)) = Len(Old(k))
  BY <1>4 DEF KeptBlock
<1>9. ASSUME NEW k \in b + 1..N PROVE IsSequence(New(k + m + 1)) /\ Len(New(k + m + 1)) = Len(Old(k))
  BY <1>4 DEF KeptBlock
<1>10. IsSequence(New(b)) /\ Len(New(b)) = i
  BY <1>4 DEF LeftBlock
<1>11. IsSequence(New(b + m + 1)) /\ Len(New(b + m + 1)) = L - i + d
  BY <1>4 DEF RightBlock, L, d
<1>12. ASSUME NEW x \in 1..m PROVE IsSequence(New(b + x)) /\ Len(New(b + x)) = Len(Gs(x))
  BY <1>4 DEF CopiedBlock
<1> HIDE DEF New, Old, Gs, P0, of
<1>13. ASSUME NEW K \in 1..N + m + 1 PROVE IsSequence(New(K)) /\ Len(New(K)) > 0
  <2>1. CASE K < b
    <3>1. K \in 1..b - 1 /\ K \in 1..N
      BY <1>2, <2>1
    <3>2. Len(Old(K)) > 0
      BY <1>3, <3>1
    <3> QED
      BY <1>8, <3>1, <3>2
  <2>2. CASE K = b
    BY <1>2, <1>10, <2>2
  <2>3. CASE K \in b + 1..b + m
    <3>1. K - b \in 1..m /\ b + (K - b) = K
      BY <1>2, <2>3
    <3>2. Len(Gs(K - b)) > 0 /\ IsSequence(New(b + (K - b))) /\ Len(New(b + (K - b))) = Len(Gs(K - b))
      BY <1>3, <1>12, <3>1
    <3> QED
      BY <3>1, <3>2
  <2>4. CASE K = b + m + 1
    BY <1>2, <1>5, <1>11, <2>4
  <2>5. CASE K > b + m + 1
    <3>1. K - m - 1 \in b + 1..N /\ (K - m - 1) + m + 1 = K /\ K - m - 1 \in 1..N
      BY <1>2, <2>5
    <3>2. Len(Old(K - m - 1)) > 0
      BY <1>3, <3>1
    <3>3. IsSequence(New((K - m - 1) + m + 1)) /\ Len(New((K - m - 1) + m + 1)) = Len(Old(K - m - 1))
      BY <1>9, <3>1
    <3> QED
      BY <3>1, <3>2, <3>3
  <2> QED
    BY <1>2, <2>1, <2>2, <2>3, <2>4, <2>5
<1>14. ASSUME NEW K \in DOMAIN h.blocks PROVE IsSequence(h.blocks[K].insns) /\ h.blocks[K].insns # <<>>
  <2>1. IsSequence(New(K)) /\ Len(New(K)) > 0
    BY <1>7, <1>13
  <2>2. New(K) # <<>>
    BY <2>1, SequenceFacts
  <2> QED
    BY <2>1, <2>2 DEF New
<1>15. ASSUME NEW p \in Positions(f), p # <<b, i>>
       PROVE  P0(p)[2] = Len(New(P0(p)[1])) <=> p[2] = Len(Old(p[1]))
  <2>1. p[1] \in 1..N /\ p[2] \in 1..Len(Old(p[1])) /\ p = <<p[1], p[2]>>
    BY <1>6
  <2>2. CASE p[1] < b
    <3>1. p[1] \in 1..b - 1 /\ P0(p) = p
      BY <1>2, <2>1, <2>2 DEF P0, Put
    <3> QED
      BY <1>8, <3>1
  <2>3. CASE p[1] > b
    <3>1. p[1] \in b + 1..N /\ P0(p) = <<p[1] + m + 1, p[2]>>
      BY <1>2, <2>1, <2>3 DEF P0, Put
    <3>2. Len(New(p[1] + m + 1)) = Len(Old(p[1]))
      BY <1>9, <3>1
    <3> QED
      BY <3>1, <3>2
  <2>4. CASE p[1] = b /\ p[2] < i
    <3>1. P0(p) = p
      BY <1>2, <2>1, <2>4 DEF P0, Put
    <3>2. p[2] # i /\ p[2] # L /\ Len(Old(b)) = L
      BY <1>2, <2>1, <2>4 DEF L, of, Old
    <3> QED
      BY <1>10, <2>4, <3>1, <3>2
  <2>5. CASE p[1] = b /\ p[2] > i
    <3>1. P0(p) = <<b + m + 1, p[2] - i + d>>
      <4>1. ~(p[1] < b \/ (p[1] = b /\ p[2] < i))
        <5>1. p[2] \in Nat
          BY <1>3, <2>1
        <5> QED
          BY <1>2, <2>5, <5>1
      <4> QED
        BY <2>5, <4>1 DEF P0, Put
    <3>2. p[2] - i + d = L - i + d <=> p[2] = L
      <4>1. p[2] \in Nat
        BY <1>3, <2>1
      <4> QED
        BY <1>2, <1>5, <4>1
    <3>3. Len(Old(p[1])) = L
      BY <2>5 DEF L, of, Old
    <3> QED
      BY <1>11, <3>1, <3>2, <3>3
  <2>6. ~(p[1] = b /\ p[2] = i)
    BY <1>15, <2>1
  <2> QED
    BY <1>2, <1>3, <2>1, <2>2, <2>3, <2>4, <2>5, <2>6
<1>16. ASSUME NEW q \in Positions(g) PROVE Into(q, b)[2] = Len(New(Into(q, b)[1])) <=> q[2] = Len(Gs(q[1]))
  <2>1. q[1] \in 1..m
    BY <1>6
  <2>2. Len(New(b + q[1])) = Len(Gs(q[1]))
    BY <1>12, <2>1
  <2> QED
    BY <2>2 DEF Into
<1>17. of[i].dst # NoReg => 1 # Len(New(b + m + 1))
  <2>1. L - i + 1 # 1
    BY <1>2
  <2>2. of[i].dst # NoReg => Len(New(b + m + 1)) = L - i + 1
    BY <1>5, <1>11, Zenon
  <2> QED
    BY <2>1, <2>2
<1>18. i = Len(New(b))
  BY <1>10
<1>19. \A p \in Positions(f) : p # <<b, i>> =>
         (Put(p, b, i, m, d)[2] = Len(h.blocks[Put(p, b, i, m, d)[1]].insns) <=> p[2] = Len(f.blocks[p[1]].insns))
  BY <1>15 DEF P0, New, Old
<1>20. \A q \in Positions(g) :
         (Into(q, b)[2] = Len(h.blocks[Into(q, b)[1]].insns) <=> q[2] = Len(g.blocks[q[1]].insns))
  BY <1>16 DEF New, Gs
<1>21. i = Len(h.blocks[b].insns) /\ (f.blocks[b].insns[i].dst # NoReg => 1 # Len(h.blocks[b + m + 1].insns))
  BY <1>17, <1>18 DEF New, of
<1>22. IsSequence(h.blocks) /\ h.blocks # <<>>
  BY <1>4, <1>7
<1> QED
  BY <1>14, <1>19, <1>20, <1>21, <1>22 DEF EndsOf, m, d

-----------------------------------------------------------------------------
(* What is formed stays formed *)

\* Mapping the elements of a sequence gives one of the same length.
LEMMA MappedSequence ==
  ASSUME NEW s, IsSequence(s), NEW t, DOMAIN t = DOMAIN s, t = [j \in DOMAIN s |-> t[j]]
  PROVE  IsSequence(t) /\ Len(t) = Len(s)
<1>1. Len(s) \in Nat /\ DOMAIN s = 1..Len(s)
  BY SequenceFacts
<1>2. t = [j \in 1..Len(s) |-> t[j]]
  BY <1>1
<1> QED
  BY <1>1, <1>2, MadeSequence

\* Operands that are registers are numbers.
InsnOk(inst) ==
  /\ IsSequence(inst.args) /\ IsSequence(inst.labels) /\ inst.dst \in Nat \cup {NoReg}
  /\ \A j \in DOMAIN inst.args : IsReg(inst.args[j]) => inst.args[j][2] \in Nat

\* So it is in a formed function.
LEMMA InsnsOk ==
  ASSUME NEW f, Formed(f), NEW p \in Positions(f)
  PROVE  InsnOk(At(f, p))
<1>1. \A o \in ToSet(At(f, p).args) : IsReg(o) => o[2] \in Nat
  BY DEF Formed
<1>2. \A j \in DOMAIN At(f, p).args : At(f, p).args[j] \in ToSet(At(f, p).args)
  BY DEF ToSet
<1>3. IsSequence(At(f, p).args) /\ IsSequence(At(f, p).labels) /\ At(f, p).dst \in Nat \cup {NoReg}
  BY DEF Formed
<1> QED
  BY <1>1, <1>2, <1>3 DEF InsnOk

\* Redirecting keeps the operands.
LEMMA RedirectedOk ==
  ASSUME NEW inst, NEW s, NEW e
  PROVE  LET r == Redirected(inst, s, e)
         IN /\ r.op = inst.op /\ r.dst = inst.dst /\ r.args = inst.args /\ r.callee = inst.callee
            /\ InsnOk(inst) => InsnOk(r)
<1> DEFINE r == Redirected(inst, s, e)
<1>1. r.op = inst.op /\ r.dst = inst.dst /\ r.args = inst.args /\ r.callee = inst.callee
  BY DEF Redirected, Rewritten
<1>2. CASE inst.op # "phi"
  BY <1>2 DEF Redirected
<1>3. CASE inst.op = "phi"
  <2>1. r.labels = [j \in DOMAIN inst.labels |-> Sub(inst.labels[j], s, e)]
    BY <1>3 DEF Redirected, Rewritten
  <2>2. DOMAIN r.labels = DOMAIN inst.labels /\ r.labels = [j \in DOMAIN inst.labels |-> r.labels[j]]
    BY <2>1
  <2> HIDE DEF r
  <2>3. IsSequence(inst.labels) => IsSequence(r.labels)
    BY <2>2, MappedSequence
  <2>4. InsnOk(inst) => InsnOk(r)
    BY <1>1, <2>3 DEF InsnOk
  <2> QED
    BY <1>1, <2>4 DEF r
<1> QED
  BY <1>2, <1>3

\* A renamed operand that is a register is a number: shifted, or an argument of the call.
LEMMA ArgumentOk ==
  ASSUME NEW o, IsReg(o) => o[2] \in Nat, NEW offset \in Nat, NEW args, IsSequence(args),
         \A j \in DOMAIN args : IsReg(args[j]) => args[j][2] \in Nat,
         IsReg(Argument(o, offset, args))
  PROVE  Argument(o, offset, args)[2] \in Nat
<1>1. Len(args) \in Nat /\ DOMAIN args = 1..Len(args)
  BY SequenceFacts
<1>2. CASE ~IsReg(o)
  BY <1>2 DEF Argument
<1>3. CASE IsReg(o) /\ o[2] < Len(args)
  <2>1. o[2] + 1 \in DOMAIN args /\ Argument(o, offset, args) = args[o[2] + 1]
    BY <1>1, <1>3 DEF Argument
  <2> QED
    BY <2>1
<1>4. CASE IsReg(o) /\ ~(o[2] < Len(args))
  <2>1. Argument(o, offset, args) = Reg(o[2] + offset)
    BY <1>4 DEF Argument
  <2> QED
    BY <1>4, <2>1 DEF Reg
<1> QED
  BY <1>2, <1>3, <1>4

\* A branch has no operand.
LEMMA BrOk == ASSUME NEW l PROVE InsnOk(Br(l)) /\ Br(l).op = "br" /\ Br(l).dst = NoReg /\ Br(l).args = <<>>
<1>1. IsSequence(<<>>) /\ DOMAIN <<>> = {}
  <2>1. <<>> \in Seq({})
    BY EmptySeq
  <2>2. IsSequence(<<>>)
    BY <2>1, AnySequence
  <2> QED
    BY <2>2
<1>2. IsSequence(<<l>>)
  BY Single
<1> DEFINE r == Br(l)
<1>3. r.op = "br" /\ r.dst = NoReg /\ r.args = <<>> /\ r.labels = <<l>>
  BY DEF Br
<1> HIDE DEF r
<1> QED
  BY <1>1, <1>2, <1>3 DEF InsnOk, r

\* A copied instruction agrees with its original but for registers and labels.
CopyFits(r, inst, g, n, offset, args) ==
  /\ InsnOk(r)
  /\ inst.op = "ret" => r = Br(Ending(g, n))
  /\ inst.op # "ret" =>
       /\ r.op = inst.op /\ r.callee = inst.callee /\ r.dst = Shifted(inst.dst, offset)
       /\ DOMAIN r.args = DOMAIN inst.args /\ Len(r.args) = Len(inst.args)
       /\ \A j \in DOMAIN inst.args : r.args[j] = Argument(inst.args[j], offset, args)

\* Renaming does that.
LEMMA CopyOk ==
  ASSUME NEW inst, NEW g, NEW n, NEW offset \in Nat, NEW args, InsnOk(inst), IsSequence(args),
         \A j \in DOMAIN args : IsReg(args[j]) => args[j][2] \in Nat
  PROVE  CopyFits(CopyOf(inst, g, n, offset, args), inst, g, n, offset, args)
<1> DEFINE r == CopyOf(inst, g, n, offset, args)
           c == Renamed(inst, g, n, offset, args)
<1>1. CASE inst.op = "ret"
  <2>1. r = Br(Ending(g, n))
    BY <1>1 DEF CopyOf
  <2> HIDE DEF r
  <2>2. InsnOk(r)
    BY <2>1, BrOk
  <2> QED
    BY <1>1, <2>1, <2>2 DEF r, CopyFits
<1>2. CASE inst.op # "ret"
  <2>1. r = c
    BY <1>2 DEF CopyOf
  <2>2. /\ c.op = inst.op /\ c.callee = inst.callee /\ c.dst = Shifted(inst.dst, offset)
        /\ c.args = [j \in DOMAIN inst.args |-> Argument(inst.args[j], offset, args)]
        /\ c.labels = [j \in DOMAIN inst.labels |-> Tag(inst.labels[j], g.name, n)]
    BY DEF Renamed, Rewritten
  <2> HIDE DEF r, c
  <2>3. IsSequence(inst.args) /\ IsSequence(inst.labels) /\ inst.dst \in Nat \cup {NoReg}
    BY DEF InsnOk
  <2>4. IsSequence(c.args) /\ Len(c.args) = Len(inst.args)
    BY <2>2, <2>3, MappedSequence
  <2>5. IsSequence(c.labels)
    BY <2>2, <2>3, MappedSequence
  <2>6. c.dst \in Nat \cup {NoReg}
    BY <2>2, <2>3 DEF Shifted
  <2>7. ASSUME NEW j \in DOMAIN c.args, IsReg(c.args[j]) PROVE c.args[j][2] \in Nat
    <3>1. c.args[j] = Argument(inst.args[j], offset, args) /\ j \in DOMAIN inst.args
      BY <2>2
    <3>2. IsReg(inst.args[j]) => inst.args[j][2] \in Nat
      BY <3>1 DEF InsnOk
    <3> QED
      BY <2>7, <3>1, <3>2, ArgumentOk
  <2>8. InsnOk(c)
    BY <2>4, <2>5, <2>6, <2>7 DEF InsnOk
  <2>9. DOMAIN c.args = DOMAIN inst.args /\ \A j \in DOMAIN inst.args : c.args[j] = Argument(inst.args[j], offset, args)
    BY <2>2
  <2> QED
    BY <1>2, <2>1, <2>2, <2>4, <2>8, <2>9 DEF r, CopyFits
<1> QED
  BY <1>1, <1>2

\* The places of the instructions keep their order.
Orderly(f, b, i, g) ==
  LET m == Len(g.blocks)
      d == Gap(f, b, i)
      P(p) == Put(p, b, i, m, d)
  IN /\ \A p, q \in Positions(f) : p # <<b, i>> /\ q # <<b, i>> /\ Precedes(p, q) => Precedes(P(p), P(q))
     /\ \A p \in Positions(f) : Precedes(p, <<b, i>>) =>
          p # <<b, i>> /\ P(p) = p /\ \A q \in Positions(g) : Precedes(P(p), Into(q, b))
     /\ \A p \in Positions(f) : Precedes(<<b, i>>, p) =>
          p # <<b, i>> /\ (d = 1 => Precedes(<<b + m + 1, 1>>, P(p)))
     /\ \A p, q \in Positions(g) : Precedes(p, q) => Precedes(Into(p, b), Into(q, b))
     /\ \A p \in Positions(f) : p[1] # 1 => P(p)[1] # 1
     /\ \A p \in Positions(g) : p[1] # 1 => Into(p, b)[1] # 1
     /\ b + m + 1 # 1

\* The copy lies between what stood before the call and what stood behind it.
LEMMA PlacesFacts ==
  ASSUME NEW f, NEW b, NEW i, NEW g, NEW n, Setting(f, b, i, g, n)
  PROVE  Orderly(f, b, i, g)
<1> DEFINE m == Len(g.blocks)
           d == Gap(f, b, i)
           P(p) == Put(p, b, i, m, d)
<1>1. Formed(f) /\ Formed(g) /\ TheCall(f, b, i, g)
  BY DEF Setting
<1>2. /\ m \in Nat \ {0} /\ b \in Nat \ {0} /\ i \in Nat \ {0}
  BY <1>1, CallPlace
<1>3. d = 0 \/ d = 1
  BY DEF Gap
<1>4. /\ \A p \in Positions(f) : p[1] \in Nat \ {0} /\ p[2] \in Nat \ {0} /\ p = <<p[1], p[2]>>
      /\ \A q \in Positions(g) : q[1] \in 1..m /\ q[2] \in Nat \ {0} /\ q = <<q[1], q[2]>>
  <2>1. /\ Len(f.blocks) \in Nat /\ DOMAIN f.blocks = 1..Len(f.blocks)
        /\ \A j \in 1..Len(f.blocks) : /\ Len(f.blocks[j].insns) \in Nat
                                       /\ DOMAIN f.blocks[j].insns = 1..Len(f.blocks[j].insns)
    BY <1>1, FormedSizes
  <2>2. /\ DOMAIN g.blocks = 1..m
        /\ \A j \in 1..m : Len(g.blocks[j].insns) \in Nat /\ DOMAIN g.blocks[j].insns = 1..Len(g.blocks[j].insns)
    BY <1>1, FormedSizes
  <2>3. ASSUME NEW p \in Positions(f) PROVE p[1] \in Nat \ {0} /\ p[2] \in Nat \ {0} /\ p = <<p[1], p[2]>>
    <3>1. p[1] \in DOMAIN f.blocks /\ p[2] \in DOMAIN f.blocks[p[1]].insns /\ p = <<p[1], p[2]>>
      BY PositionFacts
    <3> QED
      BY <2>1, <3>1
  <2>4. ASSUME NEW q \in Positions(g) PROVE q[1] \in 1..m /\ q[2] \in Nat \ {0} /\ q = <<q[1], q[2]>>
    <3>1. q[1] \in DOMAIN g.blocks /\ q[2] \in DOMAIN g.blocks[q[1]].insns /\ q = <<q[1], q[2]>>
      BY PositionFacts
    <3> QED
      BY <1>2, <2>2, <3>1
  <2> QED
    BY <2>3, <2>4
<1> HIDE DEF m, d
<1>5. ASSUME NEW p \in Positions(f), NEW q \in Positions(f), p # <<b, i>>, q # <<b, i>>, Precedes(p, q)
      PROVE  Precedes(P(p), P(q))
  <2>1. /\ p[1] \in Nat /\ p[2] \in Nat /\ q[1] \in Nat /\ q[2] \in Nat
        /\ ~(p[1] = b /\ p[2] = i) /\ ~(q[1] = b /\ q[2] = i)
    BY <1>4, <1>5
  <2>2. p[1] < q[1] \/ (p[1] = q[1] /\ p[2] < q[2])
    BY <1>5 DEF Precedes
  <2> HIDE DEF P
  <2>3. \A r \in {p, q} :
          /\ r[1] < b \/ (r[1] = b /\ r[2] < i) => P(r)[1] = r[1] /\ P(r)[2] = r[2]
          /\ r[1] = b /\ r[2] > i => P(r)[1] = b + m + 1 /\ P(r)[2] = r[2] - i + d
          /\ r[1] > b => P(r)[1] = r[1] + m + 1 /\ P(r)[2] = r[2]
    BY <1>2, <2>1 DEF P, Put
  <2>4. P(p)[1] < P(q)[1] \/ (P(p)[1] = P(q)[1] /\ P(p)[2] < P(q)[2])
    BY <1>2, <1>3, <2>1, <2>2, <2>3
  <2> QED
    BY <2>4 DEF Precedes
<1>6. ASSUME NEW p \in Positions(f), Precedes(p, <<b, i>>)
      PROVE  p # <<b, i>> /\ P(p) = p /\ \A q \in Positions(g) : Precedes(P(p), Into(q, b))
  <2>1. p[1] \in Nat /\ p[2] \in Nat
    BY <1>4
  <2>2. p[1] < b \/ (p[1] = b /\ p[2] < i)
    BY <1>6 DEF Precedes
  <2>3. P(p) = p /\ p[1] <= b
    BY <1>2, <2>1, <2>2 DEF Put
  <2>4. p # <<b, i>>
    BY <1>2, <2>1, <2>2
  <2>5. ASSUME NEW q \in Positions(g) PROVE Precedes(p, Into(q, b))
    <3>1. q[1] \in 1..m /\ Into(q, b)[1] = b + q[1]
      BY <1>4 DEF Into
    <3> QED
      BY <1>2, <2>1, <2>3, <3>1 DEF Precedes
  <2> QED
    BY <2>3, <2>4, <2>5
<1>7. ASSUME NEW p \in Positions(f), Precedes(<<b, i>>, p)
      PROVE  p # <<b, i>> /\ (d = 1 => Precedes(<<b + m + 1, 1>>, P(p)))
  <2>1. p[1] \in Nat /\ p[2] \in Nat
    BY <1>4
  <2>2. b < p[1] \/ (p[1] = b /\ i < p[2])
    BY <1>7 DEF Precedes
  <2>3. p # <<b, i>>
    BY <1>2, <2>1, <2>2
  <2>4. CASE p[1] > b
    <3>1. P(p) = <<p[1] + m + 1, p[2]>>
      BY <1>2, <2>1, <2>4 DEF Put
    <3> QED
      BY <1>2, <2>1, <2>3, <2>4, <3>1 DEF Precedes
  <2>5. CASE p[1] = b /\ i < p[2]
    <3>1. P(p) = <<b + m + 1, p[2] - i + d>>
      BY <1>2, <2>1, <2>5 DEF Put
    <3>2. d = 1 => 1 < p[2] - i + d
      BY <1>2, <2>1, <2>5
    <3> QED
      BY <2>3, <3>1, <3>2 DEF Precedes
  <2> QED
    BY <2>2, <2>4, <2>5
<1>8. ASSUME NEW p \in Positions(g), NEW q \in Positions(g), Precedes(p, q)
      PROVE  Precedes(Into(p, b), Into(q, b))
  <2>1. p[1] \in Nat /\ q[1] \in Nat
    BY <1>2, <1>4
  <2> QED
    BY <1>2, <1>8, <2>1 DEF Precedes, Into
<1>9. ASSUME NEW p \in Positions(f), p[1] # 1 PROVE P(p)[1] # 1
  <2>1. p[1] \in Nat \ {0}
    BY <1>4
  <2>2. P(p)[1] = p[1] \/ P(p)[1] = b + m + 1 \/ P(p)[1] = p[1] + m + 1
    BY DEF Put
  <2> HIDE DEF P
  <2> QED
    BY <1>2, <1>9, <2>1, <2>2
<1>10. ASSUME NEW p \in Positions(g), p[1] # 1 PROVE Into(p, b)[1] # 1
  <2>1. p[1] \in 1..m /\ Into(p, b)[1] = b + p[1]
    BY <1>4 DEF Into
  <2> QED
    BY <1>2, <2>1
<1>11. b + m + 1 # 1
  BY <1>2
<1> QED
  BY <1>5, <1>6, <1>7, <1>8, <1>9, <1>10, <1>11 DEF Orderly, m, d

\* Inlining a call leaves a formed function.
LEMMA InlinedFormed ==
  ASSUME NEW h, NEW f, NEW b, NEW i, NEW g, NEW n, Setting(f, b, i, g, n), Spliced(h, f, b, i, g, n)
  PROVE  Formed(h) /\ \A P \in Positions(h) : InsnOk(At(h, P))
<1> DEFINE m == Len(g.blocks)
           d == Gap(f, b, i)
           s == f.blocks[b].label
           e == Ending(g, n)
           call == f.blocks[b].insns[i]
           offset == Largest(f) + 1
           PF(p) == Put(p, b, i, m, d)
           result == ResultPhi(call.dst, CopyAt(f, b, i, g, n))
           Ends(x, P) == P[2] = Len(x.blocks[P[1]].insns)
           PhisFirst(x, P) == P[1] # 1 /\ \A y \in 1..P[2] : At(x, <<P[1], y>>).op = "phi"
           Good(x, P) ==
             /\ InsnOk(At(x, P)) /\ (At(x, P).op \in Terminators <=> Ends(x, P))
             /\ At(x, P).op \in Terminators => At(x, P).dst = NoReg
             /\ At(x, P).op = "phi" => PhisFirst(x, P)
<1>1. Formed(f) /\ Formed(g) /\ TheCall(f, b, i, g)
  BY DEF Setting
<1>2. Laid(h, f, b, i, g, n)
  BY LaidOf
<1>3. EndsOf(h, f, b, i, g, n)
  BY EndsFacts
<1>4. /\ b \in 1..Len(f.blocks) /\ b \in Nat \ {0} /\ i \in Nat \ {0} /\ i < Len(f.blocks[b].insns)
      /\ Len(f.blocks[b].insns) \in Nat /\ m \in Nat \ {0}
      /\ \A y \in i + 1..Len(f.blocks[b].insns) : f.blocks[b].insns[y].op # "phi"
  BY <1>1, CallPlace
<1>5. offset \in Nat
  BY <1>1, LargestIsNumber
<1>6. \A p \in Positions(f) : Good(f, p)
  BY <1>1, InsnsOk DEF Formed
<1>7. \A q \in Positions(g) : Good(g, q)
  BY <1>1, InsnsOk DEF Formed
<1>8. <<b, i>> \in Positions(f) /\ At(f, <<b, i>>) = call /\ call.op = "call"
  <2>1. /\ DOMAIN f.blocks = 1..Len(f.blocks)
        /\ DOMAIN f.blocks[b].insns = 1..Len(f.blocks[b].insns)
    BY <1>1, <1>4, FormedSizes
  <2>2. b \in DOMAIN f.blocks /\ i \in DOMAIN f.blocks[b].insns
    BY <1>4, <2>1
  <2> QED
    BY <1>1, <2>2, PositionFacts DEF TheCall
<1>9. InsnOk(call)
  BY <1>6, <1>8
<1>10. IsSequence(call.args) /\ \A j \in DOMAIN call.args : IsReg(call.args[j]) => call.args[j][2] \in Nat
  BY <1>9 DEF InsnOk
<1>11. /\ \A p \in Positions(f) : p # <<b, i>> => PF(p) \in Positions(h) /\ At(h, PF(p)) = Redirected(At(f, p), s, e)
       /\ \A q \in Positions(g) : Into(q, b) \in Positions(h) /\ At(h, Into(q, b)) = CopyOf(At(g, q), g, n, offset, call.args)
       /\ <<b, i>> \in Positions(h) /\ At(h, <<b, i>>) = Br(Tag(g.blocks[1].label, g.name, n))
       /\ call.dst # NoReg => <<b + m + 1, 1>> \in Positions(h) /\ At(h, <<b + m + 1, 1>>) = result
       /\ \A P \in Positions(h) :
            \/ P = <<b, i>> \/ (call.dst # NoReg /\ P = <<b + m + 1, 1>>)
            \/ (\E q \in Positions(g) : P = Into(q, b)) \/ (\E p \in Positions(f) : p # <<b, i>> /\ P = PF(p))
  BY <1>2 DEF Laid, IsPut, IsInto
<1>12. /\ IsSequence(h.blocks) /\ h.blocks # <<>>
       /\ \A K \in DOMAIN h.blocks : IsSequence(h.blocks[K].insns) /\ h.blocks[K].insns # <<>>
       /\ \A p \in Positions(f) : p # <<b, i>> => (Ends(h, PF(p)) <=> Ends(f, p))
       /\ \A q \in Positions(g) : Ends(h, Into(q, b)) <=> Ends(g, q)
       /\ Ends(h, <<b, i>>)
       /\ call.dst # NoReg => ~Ends(h, <<b + m + 1, 1>>)
  BY <1>3 DEF EndsOf
<1>13. /\ \A p \in Positions(f) : p[1] # 1 => PF(p)[1] # 1
       /\ \A p \in Positions(g) : p[1] # 1 => Into(p, b)[1] # 1
       /\ b + m + 1 # 1
  <2>1. Orderly(f, b, i, g)
    BY PlacesFacts
  <2> QED
    BY <2>1 DEF Orderly
<1>14. /\ \A p \in Positions(f) : /\ p[1] \in DOMAIN f.blocks /\ p[2] \in DOMAIN f.blocks[p[1]].insns
                                 /\ p = <<p[1], p[2]>> /\ p[2] \in Nat \ {0} /\ p[1] \in Nat
                                 /\ \A y \in 1..p[2] : <<p[1], y>> \in Positions(f)
       /\ \A p \in Positions(g) : /\ p[2] \in Nat \ {0}
                                 /\ \A y \in 1..p[2] : <<p[1], y>> \in Positions(g)
  <2>1. ASSUME NEW x, Formed(x), NEW p \in Positions(x)
        PROVE  /\ p[1] \in DOMAIN x.blocks /\ p[2] \in DOMAIN x.blocks[p[1]].insns
               /\ p = <<p[1], p[2]>> /\ p[2] \in Nat \ {0} /\ p[1] \in Nat
               /\ \A y \in 1..p[2] : <<p[1], y>> \in Positions(x)
    <3>1. p[1] \in DOMAIN x.blocks /\ p[2] \in DOMAIN x.blocks[p[1]].insns /\ p = <<p[1], p[2]>>
      BY PositionFacts
    <3>2. /\ DOMAIN x.blocks = 1..Len(x.blocks) /\ Len(x.blocks) \in Nat
          /\ Len(x.blocks[p[1]].insns) \in Nat
          /\ DOMAIN x.blocks[p[1]].insns = 1..Len(x.blocks[p[1]].insns)
      BY <2>1, <3>1, FormedSizes
    <3>3. p[2] \in Nat \ {0} /\ p[1] \in Nat /\ \A y \in 1..p[2] : y \in DOMAIN x.blocks[p[1]].insns
      BY <3>1, <3>2
    <3>4. \A y \in 1..p[2] : <<p[1], y>> \in Positions(x)
      BY <3>1, <3>3, PositionFacts
    <3> QED
      BY <3>1, <3>3, <3>4
  <2> QED
    BY <1>1, <2>1
<1> HIDE DEF PF, result, e, s, call, m, d, offset, Ends
<1>15. ASSUME NEW p \in Positions(f), p # <<b, i>> PROVE Good(h, PF(p))
  <2> DEFINE r == At(h, PF(p))
             o == At(f, p)
  <2>1. r = Redirected(o, s, e) /\ PF(p) \in Positions(h)
    BY <1>11, <1>15
  <2> HIDE DEF r, o
  <2>2. r.op = o.op /\ r.dst = o.dst /\ (InsnOk(o) => InsnOk(r))
    BY <2>1, RedirectedOk
  <2>3. /\ InsnOk(o) /\ (o.op \in Terminators <=> Ends(f, p)) /\ (o.op \in Terminators => o.dst = NoReg)
        /\ o.op = "phi" => PhisFirst(f, p)
    BY <1>6 DEF o
  <2>4. Ends(h, PF(p)) <=> Ends(f, p)
    BY <1>12, <1>15
  <2>5. ASSUME o.op = "phi" PROVE PhisFirst(h, PF(p))
    <3>1. p[1] # 1 /\ \A y \in 1..p[2] : At(f, <<p[1], y>>).op = "phi"
      BY <2>3, <2>5
    <3>2. PF(p)[1] # 1
      BY <1>13, <3>1
    <3>3. ~(p[1] = b /\ p[2] > i)
      <4>1. SUFFICES ASSUME p[1] = b, p[2] > i PROVE FALSE
        OBVIOUS
      <4>2. i \in 1..p[2]
        BY <1>4, <1>14, <4>1
      <4>3. At(f, <<b, i>>).op = "phi"
        BY <3>1, <4>1, <4>2
      <4> QED
        BY <1>8, <4>3
    <3>4. PF(p)[2] = p[2] /\ \A y \in 1..p[2] : <<p[1], y>> # <<b, i>> /\ <<PF(p)[1], y>> = PF(<<p[1], y>>)
      <4>0. p[1] \in Nat /\ p[2] \in Nat /\ p = <<p[1], p[2]>>
        BY <1>14
      <4>1. CASE p[1] < b
        BY <1>4, <4>0, <4>1 DEF PF, Put
      <4>2. CASE p[1] = b
        <5>1. p[2] < i
          BY <1>4, <1>15, <3>3, <4>0, <4>2
        <5> QED
          BY <1>4, <4>0, <4>2, <5>1 DEF PF, Put
      <4>3. CASE p[1] > b
        <5>1. ~(p[1] < b) /\ p[1] # b
          BY <1>4, <4>0, <4>3
        <5>2. \A y : PF(<<p[1], y>>) = <<p[1] + m + 1, y>> /\ <<p[1], y>> # <<b, i>>
          BY <5>1 DEF PF, Put
        <5>3. PF(p) = <<p[1] + m + 1, p[2]>>
          BY <4>0, <5>2
        <5> QED
          BY <5>2, <5>3
      <4> QED
        BY <1>4, <4>0, <4>1, <4>2, <4>3
    <3>5. ASSUME NEW y \in 1..PF(p)[2] PROVE At(h, <<PF(p)[1], y>>).op = "phi"
      <4> DEFINE q == <<p[1], y>>
      <4>1. q \in Positions(f) /\ q # <<b, i>> /\ <<PF(p)[1], y>> = PF(q) /\ At(f, q).op = "phi"
        BY <1>14, <3>1, <3>4
      <4> HIDE DEF q
      <4>2. At(h, PF(q)) = Redirected(At(f, q), s, e)
        BY <1>11, <4>1
      <4>3. Redirected(At(f, q), s, e).op = At(f, q).op
        BY RedirectedOk
      <4> QED
        BY <4>1, <4>2, <4>3
    <3> QED
      BY <3>2, <3>5
  <2> QED
    BY <2>2, <2>3, <2>4, <2>5 DEF r
<1>16. ASSUME NEW q \in Positions(g) PROVE Good(h, Into(q, b))
  <2> DEFINE r == At(h, Into(q, b))
             o == At(g, q)
  <2>1. r = CopyOf(o, g, n, offset, call.args)
    BY <1>11
  <2>2. /\ InsnOk(o) /\ (o.op \in Terminators <=> Ends(g, q)) /\ (o.op \in Terminators => o.dst = NoReg)
        /\ o.op = "phi" => PhisFirst(g, q)
    BY <1>7
  <2>3. Ends(h, Into(q, b)) <=> Ends(g, q)
    BY <1>12
  <2> HIDE DEF r, o
  <2>4. /\ InsnOk(r) /\ (o.op = "ret" => r = Br(Ending(g, n)))
        /\ o.op # "ret" => r.op = o.op /\ r.dst = Shifted(o.dst, offset)
    <3>1. CopyFits(CopyOf(o, g, n, offset, call.args), o, g, n, offset, call.args)
      BY <1>5, <1>10, <2>2, CopyOk
    <3> QED
      BY <2>1, <3>1 DEF CopyFits
  <2>5. o.op = "ret" => r.op = "br" /\ r.dst = NoReg
    BY <2>4, BrOk
  <2>6. /\ r.op \in Terminators <=> o.op \in Terminators
        /\ r.op \in Terminators => r.dst = NoReg
        /\ r.op = "phi" => o.op = "phi"
    BY <2>2, <2>4, <2>5 DEF Terminators, Shifted
  <2>7. ASSUME o.op = "phi" PROVE PhisFirst(h, Into(q, b))
    <3>1. q[1] # 1 /\ \A y \in 1..q[2] : At(g, <<q[1], y>>).op = "phi"
      BY <2>2, <2>7
    <3>2. Into(q, b)[1] # 1
      BY <1>13, <3>1
    <3>3. ASSUME NEW y \in 1..Into(q, b)[2] PROVE At(h, <<Into(q, b)[1], y>>).op = "phi"
      <4> DEFINE w == <<q[1], y>>
      <4>1. w \in Positions(g) /\ <<Into(q, b)[1], y>> = Into(w, b) /\ At(g, w).op = "phi"
        BY <1>14, <3>1 DEF Into
      <4> HIDE DEF w
      <4>2. InsnOk(At(g, w)) /\ At(g, w).op # "ret"
        BY <1>7, <4>1
      <4>3. At(h, Into(w, b)) = CopyOf(At(g, w), g, n, offset, call.args)
        BY <1>11, <4>1
      <4>4. CopyOf(At(g, w), g, n, offset, call.args).op = At(g, w).op
        <5>1. CopyFits(CopyOf(At(g, w), g, n, offset, call.args), At(g, w), g, n, offset, call.args)
          BY <1>5, <1>10, <4>2, CopyOk
        <5> QED
          BY <4>2, <5>1 DEF CopyFits
      <4> QED
        BY <4>1, <4>3, <4>4
    <3> QED
      BY <3>2, <3>3
  <2> QED
    BY <2>2, <2>3, <2>4, <2>6, <2>7 DEF r
<1>17. Good(h, <<b, i>>)
  <2> DEFINE r == At(h, <<b, i>>)
  <2>1. r = Br(Tag(g.blocks[1].label, g.name, n))
    BY <1>11
  <2> HIDE DEF r
  <2>2. InsnOk(r) /\ r.op = "br" /\ r.dst = NoReg
    BY <2>1, BrOk
  <2> QED
    BY <1>12, <2>2 DEF r, Terminators
<1>18. ASSUME call.dst # NoReg PROVE Good(h, <<b + m + 1, 1>>)
  <2> DEFINE P == <<b + m + 1, 1>>
             r == At(h, P)
  <2>1. r = result
    BY <1>11, <1>18
  <2>2. ResultOf(result, call.dst, g, n, offset, call.args)
    BY <1>18, ResultFacts DEF result, call, offset
  <2> HIDE DEF r
  <2>3. r.op = "phi" /\ r.dst = call.dst /\ IsSequence(r.args) /\ IsSequence(r.labels)
    BY <2>1, <2>2 DEF ResultOf
  <2>4. ASSUME NEW j \in DOMAIN r.args, IsReg(r.args[j]) PROVE r.args[j][2] \in Nat
    <3>1. PICK x \in 1..Len(g.blocks) :
            LET last == g.blocks[x].insns[Len(g.blocks[x].insns)]
            IN 1 \in DOMAIN last.args /\ r.args[j] = Argument(last.args[1], offset, call.args)
      BY <2>1, <2>2 DEF ResultOf
    <3> DEFINE last == g.blocks[x].insns[Len(g.blocks[x].insns)]
    <3>2. /\ Len(g.blocks[x].insns) \in Nat \ {0} /\ x \in DOMAIN g.blocks
          /\ DOMAIN g.blocks[x].insns = 1..Len(g.blocks[x].insns)
      BY <1>1, FormedSizes
    <3>3. Len(g.blocks[x].insns) \in DOMAIN g.blocks[x].insns
      BY <3>2
    <3> DEFINE w == <<x, Len(g.blocks[x].insns)>>
    <3>4. w \in Positions(g) /\ At(g, w) = last
      BY <3>2, <3>3, PositionFacts
    <3> HIDE DEF w
    <3>5. InsnOk(last)
      BY <1>7, <3>4
    <3>6. IsReg(last.args[1]) => last.args[1][2] \in Nat
      BY <3>1, <3>5 DEF InsnOk
    <3> HIDE DEF last
    <3>7. r.args[j] = Argument(last.args[1], offset, call.args)
      BY <3>1 DEF last
    <3> QED
      BY <1>5, <1>10, <2>4, <3>6, <3>7, ArgumentOk
  <2>5. InsnOk(r)
    BY <1>9, <2>3, <2>4 DEF InsnOk
  <2>6. PhisFirst(h, P)
    <3>1. P[1] = b + m + 1 /\ P[2] = 1
      OBVIOUS
    <3>2. \A y \in 1..P[2] : <<P[1], y>> = P
      BY <3>1
    <3> HIDE DEF P
    <3> QED
      BY <1>13, <2>3, <3>1, <3>2 DEF r
  <2>7. ~Ends(h, P)
    BY <1>12, <1>18
  <2> HIDE DEF P
  <2>8. Good(h, P)
    BY <2>3, <2>5, <2>6, <2>7 DEF r, Terminators
  <2> QED
    BY <2>8 DEF P
<1>19. ASSUME NEW P \in Positions(h) PROVE Good(h, P)
  BY <1>11, <1>15, <1>16, <1>17, <1>18
<1>20. h.nparams \in Nat
  BY <1>1, FormedSizes DEF Spliced
<1>21. \A K \in DOMAIN h.blocks : h.blocks[1].label \notin Targets(h.blocks[K])
  <2>1. Shape(h, f, b, g, n)
    BY ShapeOf
  <2> QED
    BY <2>1, InlinedGraph
<1>22. ASSUME NEW P \in Positions(h)
       PROVE  LET inst == At(h, P)
              IN /\ IsSequence(inst.args) /\ IsSequence(inst.labels) /\ inst.dst \in Nat \cup {NoReg}
                 /\ \A o \in ToSet(inst.args) : IsReg(o) => o[2] \in Nat
                 /\ inst.op \in Terminators <=> P[2] = Len(h.blocks[P[1]].insns)
                 /\ inst.op \in Terminators => inst.dst = NoReg
                 /\ inst.op = "phi" => P[1] # 1 /\ \A y \in 1..P[2] : At(h, <<P[1], y>>).op = "phi"
  <2> DEFINE inst == At(h, P)
  <2>1. Good(h, P)
    BY <1>19
  <2>2. \A o \in ToSet(inst.args) : \E j \in DOMAIN inst.args : o = inst.args[j]
    BY DEF ToSet
  <2>3. \A o \in ToSet(inst.args) : IsReg(o) => o[2] \in Nat
    BY <2>1, <2>2 DEF InsnOk
  <2> QED
    BY <2>1, <2>3 DEF InsnOk, Ends
<1>23. Formed(h)
  BY <1>12, <1>20, <1>21, <1>22 DEF Formed
<1> QED
  BY <1>19, <1>23

-----------------------------------------------------------------------------
(* What is well formed stays well formed *)

\* Each phi still has one income per predecessor: those of the second half's successors
\* are redirected to it, and the copy brings its own.
LEMMA InlinedIncomes ==
  ASSUME NEW h, NEW f, NEW b, NEW i, NEW g, NEW n, Setting(f, b, i, g, n), Spliced(h, f, b, i, g, n)
  PROVE  IncomesExact(h)
<1> DEFINE m == Len(g.blocks)
           d == Gap(f, b, i)
           s == f.blocks[b].label
           e == Ending(g, n)
           entry == g.blocks[1].label
           T(l) == Tag(l, g.name, n)
           call == f.blocks[b].insns[i]
           offset == Largest(f) + 1
           PF(p) == Put(p, b, i, m, d)
           result == ResultPhi(call.dst, CopyAt(f, b, i, g, n))
           Here(x, P) == x.blocks[P[1]].label
           Exact(x, P) == ToSet(At(x, P).labels) = PredLabels(x, Here(x, P)) /\ IsInjective(At(x, P).labels)
<1>1. Formed(f) /\ Formed(g) /\ TheCall(f, b, i, g) /\ WellFormed(f) /\ WellFormed(g) /\ Apart(f, g, n)
  BY DEF Setting
<1>2. Shape(h, f, b, g, n)
  BY ShapeOf
<1>3. /\ \A l \in Labels(f) : \A z : z \in PredLabels(h, l) <=> \E x \in PredLabels(f, l) : z = Sub(x, s, e)
      /\ \A l \in Labels(g) : \A z :
           z \in PredLabels(h, T(l)) <=> (\E x \in PredLabels(g, l) : z = T(x)) \/ (l = entry /\ z = s)
      /\ \A z : z \in PredLabels(h, e) <=> \E x \in 1..m : z = T(g.blocks[x].label) /\ Returns(g.blocks[x])
  <2>1. EdgesOf(h, f, b, g, n)
    BY <1>2, Edges
  <2> HIDE DEF s, e, T, entry, m
  <2> QED
    BY <2>1 DEF EdgesOf, s, e, T, entry, m
<1>4. /\ \A l \in Labels(g) : T(l) \notin Labels(f) /\ T(l) # e
      /\ \A l, k \in Labels(g) : T(l) = T(k) => l = k
      /\ e \notin Labels(f)
  BY <1>1 DEF Apart
<1>5. /\ \A p \in Positions(f) : p # <<b, i>> => At(h, PF(p)) = Redirected(At(f, p), s, e)
      /\ \A q \in Positions(g) : At(h, Into(q, b)) = CopyOf(At(g, q), g, n, offset, call.args)
      /\ At(h, <<b, i>>) = Br(T(entry))
      /\ call.dst # NoReg => At(h, <<b + m + 1, 1>>) = result
      /\ \A P \in Positions(h) :
           \/ P = <<b, i>> \/ (call.dst # NoReg /\ P = <<b + m + 1, 1>>)
           \/ (\E q \in Positions(g) : P = Into(q, b)) \/ (\E p \in Positions(f) : p # <<b, i>> /\ P = PF(p))
  <2>1. Laid(h, f, b, i, g, n)
    BY LaidOf
  <2> HIDE DEF s, e, T, entry, m, d, result, offset, call
  <2> QED
    BY <2>1 DEF Laid, IsPut, IsInto, s, e, T, entry, m, d, result, offset, call
<1>6. /\ \A p \in Positions(f) : At(f, p).op = "phi" => Exact(f, p)
      /\ \A q \in Positions(g) : At(g, q).op = "phi" => Exact(g, q)
  BY <1>1 DEF WellFormed, IncomesExact
<1>7. /\ \A p \in Positions(f) : At(f, p).op = "phi" => \A y \in 1..p[2] : At(f, <<p[1], y>>).op = "phi"
      /\ \A q \in Positions(g) : At(g, q).op = "phi" => q[1] # 1
  BY <1>1 DEF Formed
<1>8. /\ Len(f.blocks) \in Nat /\ DOMAIN f.blocks = 1..Len(f.blocks) /\ b \in 1..Len(f.blocks)
      /\ b \in Nat \ {0} /\ i \in Nat \ {0} /\ m \in Nat \ {0} /\ DOMAIN g.blocks = 1..m
  BY <1>1, CallPlace
<1>9. At(f, <<b, i>>).op = "call"
  BY <1>1 DEF At, TheCall
<1>10. /\ \A j \in 1..Len(f.blocks) : h.blocks[Place(j, b, m)].label = Sub(f.blocks[j].label, s, e)
       /\ h.blocks[b].label = s
       /\ \A x \in 1..m : h.blocks[b + x].label = T(g.blocks[x].label)
  BY <1>2 DEF Shape
<1>11. h.blocks[b + m + 1].label = e
  BY DEF Spliced, RightBlock
<1>12. /\ \A a, c \in 1..Len(f.blocks) : f.blocks[a].label = f.blocks[c].label => a = c
       /\ \A a \in 1..Len(f.blocks) : f.blocks[a].label \in Labels(f)
  BY <1>1, GraphFacts
<1>13. /\ \A a, c \in 1..m : g.blocks[a].label = g.blocks[c].label => a = c
       /\ \A a \in 1..m : g.blocks[a].label \in Labels(g)
  BY <1>1, GraphFacts
<1>14. /\ \A p \in Positions(f) : p[1] \in 1..Len(f.blocks) /\ p[2] \in Nat \ {0} /\ p = <<p[1], p[2]>>
       /\ \A q \in Positions(g) : q[1] \in 1..m
  <2>1. ASSUME NEW p \in Positions(f) PROVE p[1] \in 1..Len(f.blocks) /\ p[2] \in Nat \ {0} /\ p = <<p[1], p[2]>>
    <3>1. p[1] \in DOMAIN f.blocks /\ p[2] \in DOMAIN f.blocks[p[1]].insns /\ p = <<p[1], p[2]>>
      BY PositionFacts
    <3>2. Len(f.blocks[p[1]].insns) \in Nat /\ DOMAIN f.blocks[p[1]].insns = 1..Len(f.blocks[p[1]].insns)
      BY <1>1, <1>8, <3>1, FormedSizes
    <3> QED
      BY <1>8, <3>1, <3>2
  <2>2. \A q \in Positions(g) : q[1] \in DOMAIN g.blocks
    BY PositionFacts
  <2> QED
    BY <1>8, <2>1, <2>2
<1>15. /\ \A l : PredLabels(f, l) \subseteq Labels(f)
       /\ \A l : PredLabels(g, l) \subseteq Labels(g)
  BY DEF PredLabels, Labels
<1> HIDE DEF PF, result, e, s, call, m, d, offset, T, entry
<1>16. ASSUME NEW p \in Positions(f), p # <<b, i>>, At(h, PF(p)).op = "phi" PROVE Exact(h, PF(p))
  <2> DEFINE o == At(f, p)
             r == At(h, PF(p))
             l == Here(f, p)
  <2>1. r = Redirected(o, s, e)
    BY <1>5, <1>16
  <2> HIDE DEF o, r
  <2>2. r.op = o.op /\ o.op = "phi"
    BY <1>16, <2>1 DEF Redirected, Rewritten, r
  <2>3. r.labels = [j \in DOMAIN o.labels |-> Sub(o.labels[j], s, e)]
    BY <2>1, <2>2 DEF Redirected, Rewritten
  <2>4. Exact(f, p) /\ \A y \in 1..p[2] : At(f, <<p[1], y>>).op = "phi"
    BY <1>6, <1>7, <2>2 DEF o
  <2>5. p[1] \in 1..Len(f.blocks) /\ p[2] \in Nat \ {0} /\ p = <<p[1], p[2]>> /\ l \in Labels(f)
    BY <1>12, <1>14
  <2>6. Here(h, PF(p)) = l
    <3>1. CASE p[1] = b
      <4>1. ~(p[2] > i)
        <5>1. SUFFICES ASSUME p[2] > i PROVE FALSE
          OBVIOUS
        <5>2. i \in 1..p[2]
          BY <1>8, <2>5, <5>1
        <5>3. At(f, <<b, i>>).op = "phi"
          BY <2>4, <3>1, <5>2
        <5> QED
          BY <1>9, <5>3
      <4>2. p[2] < i
        BY <1>8, <1>16, <2>5, <3>1, <4>1
      <4>3. PF(p) = p
        BY <3>1, <4>2 DEF PF, Put
      <4> QED
        BY <1>10, <3>1, <4>3 DEF s
    <3>2. CASE p[1] # b
      <4>1. PF(p)[1] = Place(p[1], b, m)
        BY <1>8, <2>5, <3>2 DEF PF, Put, Place
      <4>2. l # s
        BY <1>8, <1>12, <2>5, <3>2 DEF s
      <4>3. Here(h, PF(p)) = Sub(l, s, e)
        BY <1>10, <2>5, <4>1
      <4> QED
        BY <4>2, <4>3 DEF Sub
    <3> QED
      BY <3>1, <3>2
  <2>7. ToSet(o.labels) = PredLabels(f, l) /\ IsInjective(o.labels)
    BY <2>4 DEF o
  <2>8. \A z : z \in ToSet(r.labels) <=> \E x \in PredLabels(f, l) : z = Sub(x, s, e)
    BY <2>3, <2>7 DEF ToSet
  <2> HIDE DEF l
  <2>9. ToSet(r.labels) = PredLabels(h, l)
    BY <1>3, <2>5, <2>8
  <2>10. \A j \in DOMAIN o.labels : o.labels[j] \in Labels(f)
    BY <1>15, <2>7 DEF ToSet
  <2>11. IsInjective(r.labels)
    <3>1. \A j, k \in DOMAIN o.labels : Sub(o.labels[j], s, e) = Sub(o.labels[k], s, e) => o.labels[j] = o.labels[k]
      BY <1>4, <2>10 DEF Sub
    <3> QED
      BY <2>3, <2>7, <3>1 DEF IsInjective
  <2> QED
    BY <2>6, <2>9, <2>11 DEF r
<1>17. ASSUME NEW q \in Positions(g), At(h, Into(q, b)).op = "phi" PROVE Exact(h, Into(q, b))
  <2> DEFINE o == At(g, q)
             r == At(h, Into(q, b))
             l == Here(g, q)
  <2>1. r = CopyOf(o, g, n, offset, call.args)
    BY <1>5
  <2> HIDE DEF o, r
  <2>2. o.op # "ret"
    BY <1>17, <2>1, BrOk DEF CopyOf, r
  <2>3. r = Renamed(o, g, n, offset, call.args)
    BY <2>1, <2>2 DEF CopyOf
  <2>4. /\ o.op = "phi" /\ r.labels = [j \in DOMAIN o.labels |-> T(o.labels[j])]
    BY <1>17, <2>3 DEF Renamed, Rewritten, r, T
  <2>5. Exact(g, q) /\ q[1] # 1 /\ q[1] \in 1..m /\ l \in Labels(g)
    BY <1>6, <1>7, <1>13, <1>14, <2>4 DEF o
  <2>6. ToSet(o.labels) = PredLabels(g, l) /\ IsInjective(o.labels)
    BY <2>5 DEF o
  <2>7. Here(h, Into(q, b)) = T(l)
    BY <1>10, <2>5 DEF Into
  <2>8. l # entry
    <3>1. 1 \in 1..m
      BY <1>8
    <3> QED
      BY <1>13, <2>5, <3>1 DEF entry
  <2>9. \A z : z \in ToSet(r.labels) <=> \E x \in PredLabels(g, l) : z = T(x)
    <3> HIDE DEF T, l
    <3>1. DOMAIN r.labels = DOMAIN o.labels /\ \A j \in DOMAIN o.labels : r.labels[j] = T(o.labels[j])
      BY <2>4
    <3>2. ASSUME NEW z \in ToSet(r.labels) PROVE \E x \in PredLabels(g, l) : z = T(x)
      <4>1. PICK j \in DOMAIN r.labels : z = r.labels[j]
        BY <3>2 DEF ToSet
      <4>2. o.labels[j] \in ToSet(o.labels)
        BY <3>1 DEF ToSet
      <4> QED
        BY <2>6, <3>1, <4>1, <4>2
    <3>3. ASSUME NEW x \in PredLabels(g, l) PROVE T(x) \in ToSet(r.labels)
      <4>1. PICK j \in DOMAIN o.labels : x = o.labels[j]
        BY <2>6 DEF ToSet
      <4> QED
        BY <3>1, <4>1 DEF ToSet
    <3> QED
      BY <3>2, <3>3
  <2> HIDE DEF l
  <2>10. ToSet(r.labels) = PredLabels(h, T(l))
    <3>1. \A z : z \in PredLabels(h, T(l)) <=> \E x \in PredLabels(g, l) : z = T(x)
      BY <1>3, <2>5, <2>8
    <3> HIDE DEF T
    <3> QED
      BY <2>9, <3>1
  <2>11. \A j \in DOMAIN o.labels : o.labels[j] \in Labels(g)
    BY <1>15, <2>6 DEF ToSet
  <2>12. IsInjective(r.labels)
    BY <1>4, <2>4, <2>6, <2>11 DEF IsInjective
  <2> QED
    BY <2>7, <2>10, <2>12 DEF r
<1>18. ASSUME call.dst # NoReg PROVE Exact(h, <<b + m + 1, 1>>)
  <2> DEFINE P == <<b + m + 1, 1>>
             r == At(h, P)
  <2>1. r = result
    BY <1>5, <1>18
  <2>2. ResultOf(result, call.dst, g, n, offset, call.args)
    BY <1>18, ResultFacts DEF result, call, offset
  <2>3. Here(h, P) = e
    BY <1>11
  <2> HIDE DEF r, P
  <2>4. /\ \A j \in DOMAIN r.labels : \E x \in 1..m : r.labels[j] = T(g.blocks[x].label) /\ Returns(g.blocks[x])
        /\ \A x \in 1..m : Returns(g.blocks[x]) => \E j \in DOMAIN r.labels : r.labels[j] = T(g.blocks[x].label)
        /\ IsInjective(r.labels)
    BY <2>1, <2>2 DEF ResultOf, m, T
  <2>5. \A z : z \in ToSet(r.labels) <=> \E j \in DOMAIN r.labels : z = r.labels[j]
    BY DEF ToSet
  <2>6. ASSUME NEW z \in ToSet(r.labels) PROVE z \in PredLabels(h, e)
    <3>1. PICK j \in DOMAIN r.labels : z = r.labels[j]
      BY <2>5
    <3>2. PICK x \in 1..m : z = T(g.blocks[x].label) /\ Returns(g.blocks[x])
      BY <2>4, <3>1
    <3> QED
      BY <1>3, <3>2
  <2>7. ASSUME NEW z \in PredLabels(h, e) PROVE z \in ToSet(r.labels)
    <3>1. PICK x \in 1..m : z = T(g.blocks[x].label) /\ Returns(g.blocks[x])
      BY <1>3
    <3>2. PICK j \in DOMAIN r.labels : r.labels[j] = T(g.blocks[x].label)
      BY <2>4, <3>1
    <3> QED
      BY <2>5, <3>1, <3>2
  <2>8. ToSet(r.labels) = PredLabels(h, e)
    BY <2>6, <2>7
  <2> QED
    BY <2>3, <2>4, <2>8 DEF r, P
<1>19. At(h, <<b, i>>).op # "phi"
  BY <1>5, BrOk
<1> HIDE DEF Exact
<1>20. ASSUME NEW P \in Positions(h), At(h, P).op = "phi" PROVE Exact(h, P)
  BY <1>5, <1>16, <1>17, <1>18, <1>19, <1>20
<1> QED
  BY <1>20 DEF IncomesExact, Exact

\* Register r is a parameter of f or written before p.
Written(f, r, p) == r < f.nparams \/ \E q \in Positions(f) : Precedes(q, p) /\ At(f, q).dst = r

\* DefinedFirst in these words.
LEMMA DefinedFirstFacts ==
  ASSUME NEW f
  PROVE  DefinedFirst(f) <=>
           \A p \in Positions(f) : At(f, p).op # "phi" =>
             \A j \in DOMAIN At(f, p).args : IsReg(At(f, p).args[j]) => Written(f, At(f, p).args[j][2], p)
BY DEF DefinedFirst, Written, ToSet

\* A register is still written before it is read: those of the copy are shifted together,
\* its parameters became arguments written before the call, and the result is written by
\* the phi.
LEMMA InlinedDefined ==
  ASSUME NEW h, NEW f, NEW b, NEW i, NEW g, NEW n, Setting(f, b, i, g, n), Spliced(h, f, b, i, g, n)
  PROVE  DefinedFirst(h)
<1> DEFINE m == Len(g.blocks)
           d == Gap(f, b, i)
           s == f.blocks[b].label
           e == Ending(g, n)
           call == f.blocks[b].insns[i]
           c == <<b, i>>
           offset == Largest(f) + 1
           PF(p) == Put(p, b, i, m, d)
           result == ResultPhi(call.dst, CopyAt(f, b, i, g, n))
           phi == <<b + m + 1, 1>>
<1>1. Formed(f) /\ Formed(g) /\ TheCall(f, b, i, g) /\ WellFormed(f) /\ WellFormed(g)
  BY DEF Setting
<1>2. /\ \A p \in Positions(f) : p # c => PF(p) \in Positions(h) /\ At(h, PF(p)) = Redirected(At(f, p), s, e)
      /\ \A q \in Positions(g) : Into(q, b) \in Positions(h) /\ At(h, Into(q, b)) = CopyOf(At(g, q), g, n, offset, call.args)
      /\ At(h, c) = Br(Tag(g.blocks[1].label, g.name, n))
      /\ call.dst # NoReg => phi \in Positions(h) /\ At(h, phi) = result
      /\ \A P \in Positions(h) :
           \/ P = c \/ (call.dst # NoReg /\ P = phi)
           \/ (\E q \in Positions(g) : P = Into(q, b)) \/ (\E p \in Positions(f) : p # c /\ P = PF(p))
  <2>1. Laid(h, f, b, i, g, n)
    BY LaidOf
  <2> HIDE DEF s, e, m, d, result, offset, call, c, phi
  <2> QED
    BY <2>1 DEF Laid, IsPut, IsInto, s, e, m, d, result, offset, call, c, phi
<1>3. /\ \A p, q \in Positions(f) : p # c /\ q # c /\ Precedes(p, q) => Precedes(PF(p), PF(q))
      /\ \A p \in Positions(f) : Precedes(p, c) =>
           p # c /\ PF(p) = p /\ \A q \in Positions(g) : Precedes(PF(p), Into(q, b))
      /\ \A p \in Positions(f) : Precedes(c, p) => p # c /\ (d = 1 => Precedes(phi, PF(p)))
      /\ \A p, q \in Positions(g) : Precedes(p, q) => Precedes(Into(p, b), Into(q, b))
  <2>1. Orderly(f, b, i, g)
    BY PlacesFacts
  <2> HIDE DEF m, d, c, phi
  <2> QED
    BY <2>1 DEF Orderly, m, d, c, phi
<1>4. call.dst # NoReg => d = 1
  BY DEF Gap
<1>5. c \in Positions(f) /\ At(f, c) = call /\ call.op = "call" /\ Len(call.args) = g.nparams
  <2>1. b \in 1..Len(f.blocks) /\ i \in 1..Len(f.blocks[b].insns)
    BY <1>1 DEF TheCall
  <2>2. DOMAIN f.blocks = 1..Len(f.blocks) /\ DOMAIN f.blocks[b].insns = 1..Len(f.blocks[b].insns)
    BY <1>1, <2>1, FormedSizes
  <2> QED
    BY <1>1, <2>1, <2>2, PositionFacts DEF TheCall
<1>6. offset \in Nat /\ h.nparams = f.nparams /\ f.nparams \in Nat /\ g.nparams \in Nat
  <2>1. offset \in Nat
    BY <1>1, LargestIsNumber
  <2>2. f.nparams \in Nat /\ g.nparams \in Nat
    BY <1>1, FormedSizes
  <2> QED
    BY <2>1, <2>2 DEF Spliced
<1>7. /\ \A p \in Positions(f) : InsnOk(At(f, p))
      /\ \A q \in Positions(g) : InsnOk(At(g, q)) /\ (At(g, q).op = "ret" => At(g, q).dst = NoReg)
  <2>1. \A q \in Positions(g) : At(g, q).op = "ret" => At(g, q).dst = NoReg
    BY <1>1 DEF Formed, Terminators
  <2> QED
    BY <1>1, <2>1, InsnsOk
<1>8. /\ \A p \in Positions(f) : At(f, p).op # "phi" =>
           \A j \in DOMAIN At(f, p).args : IsReg(At(f, p).args[j]) => Written(f, At(f, p).args[j][2], p)
      /\ \A q \in Positions(g) : At(g, q).op # "phi" =>
           \A j \in DOMAIN At(g, q).args : IsReg(At(g, q).args[j]) => Written(g, At(g, q).args[j][2], q)
  BY <1>1, DefinedFirstFacts DEF WellFormed
<1>9. InsnOk(call)
  BY <1>5, <1>7
<1>10. /\ IsSequence(call.args) /\ \A j \in DOMAIN call.args : IsReg(call.args[j]) => call.args[j][2] \in Nat
       /\ DOMAIN call.args = 1..Len(call.args) /\ Len(call.args) \in Nat
  <2>1. IsSequence(call.args)
    BY <1>9 DEF InsnOk
  <2>2. DOMAIN call.args = 1..Len(call.args) /\ Len(call.args) \in Nat
    BY <2>1, SequenceFacts
  <2> QED
    BY <1>9, <2>1, <2>2 DEF InsnOk
<1>11. \A inst, x, y : Redirected(inst, x, y).op = inst.op /\ Redirected(inst, x, y).dst = inst.dst /\ Redirected(inst, x, y).args = inst.args
  BY DEF Redirected, Rewritten
<1>12. call.dst # NoReg => result.dst = call.dst /\ result.op = "phi"
  BY DEF ResultPhi
<1> HIDE DEF PF, result, e, s, call, m, d, offset, c, phi
<1>13. ASSUME NEW p \in Positions(f), p # c, NEW r, r \in Nat, Written(f, r, p) PROVE Written(h, r, PF(p))
  <2>1. CASE r < f.nparams
    BY <1>6, <2>1 DEF Written
  <2>2. CASE \E q \in Positions(f) : Precedes(q, p) /\ At(f, q).dst = r
    <3>1. PICK q \in Positions(f) : Precedes(q, p) /\ At(f, q).dst = r
      BY <2>2
    <3>2. CASE q # c
      <4>1. Precedes(PF(q), PF(p)) /\ PF(q) \in Positions(h) /\ At(h, PF(q)).dst = r
        BY <1>2, <1>3, <1>11, <1>13, <3>1, <3>2
      <4> QED
        BY <4>1 DEF Written
    <3>3. CASE q = c
      <4>1. call.dst = r /\ r # NoReg
        BY <1>5, <1>13, <3>1, <3>3 DEF NoReg
      <4>2. phi \in Positions(h) /\ At(h, phi).dst = r
        BY <1>2, <1>12, <4>1
      <4>3. Precedes(phi, PF(p))
        BY <1>3, <1>4, <3>1, <3>3, <4>1
      <4> QED
        BY <4>2, <4>3 DEF Written
    <3> QED
      BY <3>2, <3>3
  <2> QED
    BY <1>13, <2>1, <2>2 DEF Written
<1>14. ASSUME NEW q \in Positions(g), NEW r, Written(f, r, c) PROVE Written(h, r, Into(q, b))
  <2>1. CASE r < f.nparams
    BY <1>6, <2>1 DEF Written
  <2>2. CASE \E p \in Positions(f) : Precedes(p, c) /\ At(f, p).dst = r
    <3>1. PICK p \in Positions(f) : Precedes(p, c) /\ At(f, p).dst = r
      BY <2>2
    <3>2. p # c /\ Precedes(PF(p), Into(q, b))
      BY <1>3, <3>1
    <3>3. PF(p) \in Positions(h) /\ At(h, PF(p)).dst = r
      BY <1>2, <1>11, <3>1, <3>2
    <3> QED
      BY <3>2, <3>3 DEF Written
  <2> QED
    BY <1>14, <2>1, <2>2 DEF Written
<1>15. ASSUME NEW q \in Positions(g)
       PROVE  CopyFits(At(h, Into(q, b)), At(g, q), g, n, offset, call.args)
  <2>1. InsnOk(At(g, q))
    BY <1>7
  <2>2. CopyFits(CopyOf(At(g, q), g, n, offset, call.args), At(g, q), g, n, offset, call.args)
    BY <1>6, <1>10, <2>1, CopyOk
  <2> QED
    BY <1>2, <2>2
<1>16. ASSUME NEW q \in Positions(g), NEW r \in Nat, Written(g, r, q), ~(r < Len(call.args))
       PROVE  Written(h, r + offset, Into(q, b))
  <2>1. PICK w \in Positions(g) : Precedes(w, q) /\ At(g, w).dst = r
    BY <1>5, <1>16 DEF Written
  <2>2. At(g, w).op # "ret"
    BY <1>7, <2>1 DEF NoReg
  <2>3. At(h, Into(w, b)).dst = r + offset
    <3>1. At(h, Into(w, b)).dst = Shifted(r, offset)
      BY <1>15, <2>1, <2>2 DEF CopyFits
    <3> QED
      BY <3>1 DEF Shifted, NoReg
  <2>4. Precedes(Into(w, b), Into(q, b)) /\ Into(w, b) \in Positions(h)
    BY <1>2, <1>3, <2>1
  <2> QED
    BY <2>3, <2>4 DEF Written
<1>17. ASSUME NEW p \in Positions(f), p # c, At(h, PF(p)).op # "phi", NEW j \in DOMAIN At(h, PF(p)).args,
              IsReg(At(h, PF(p)).args[j])
       PROVE  Written(h, At(h, PF(p)).args[j][2], PF(p))
  <2> DEFINE o == At(f, p)
             r == At(h, PF(p))
  <2>1. r.args = o.args /\ r.op = o.op
    BY <1>2, <1>11, <1>17
  <2> HIDE DEF o, r
  <2>2. j \in DOMAIN o.args /\ IsReg(o.args[j]) /\ o.op # "phi" /\ InsnOk(o)
    BY <1>7, <1>17, <2>1 DEF o, r
  <2>3. o.args[j][2] \in Nat
    BY <2>2 DEF InsnOk
  <2>4. Written(f, o.args[j][2], p)
    BY <1>8, <2>2 DEF o
  <2>5. Written(h, o.args[j][2], PF(p))
    BY <1>13, <1>17, <2>3, <2>4
  <2> QED
    BY <2>1, <2>5 DEF r
<1>18. ASSUME NEW q \in Positions(g), At(h, Into(q, b)).op # "phi", NEW j \in DOMAIN At(h, Into(q, b)).args,
              IsReg(At(h, Into(q, b)).args[j])
       PROVE  Written(h, At(h, Into(q, b)).args[j][2], Into(q, b))
  <2> DEFINE o == At(g, q)
             r == At(h, Into(q, b))
             a == o.args[j]
  <2>1. CopyFits(r, o, g, n, offset, call.args)
    BY <1>15
  <2> HIDE DEF r
  <2>2. o.op # "ret"
    <3>1. SUFFICES ASSUME o.op = "ret" PROVE FALSE
      OBVIOUS
    <3>2. r.args = <<>>
      BY <2>1, <3>1, BrOk DEF CopyFits
    <3>3. j \in DOMAIN <<>>
      BY <1>18, <3>2 DEF r
    <3> QED
      BY <3>3
  <2>3. r.op = o.op /\ j \in DOMAIN o.args /\ r.args[j] = Argument(a, offset, call.args) /\ InsnOk(o)
    BY <1>7, <1>18, <2>1, <2>2 DEF CopyFits, r
  <2>4. o.op # "phi" /\ IsReg(r.args[j])
    BY <1>18, <2>3 DEF r
  <2> HIDE DEF o
  <2>5. IsReg(a) => a[2] \in Nat /\ Written(g, a[2], q)
    BY <1>8, <2>3, <2>4 DEF InsnOk, o
  <2> HIDE DEF a
  <2>6. IsReg(a)
    BY <2>3, <2>4 DEF Argument
  <2>7. CASE a[2] < Len(call.args)
    <3>1. a[2] + 1 \in DOMAIN call.args /\ r.args[j] = call.args[a[2] + 1]
      BY <1>10, <2>3, <2>5, <2>6, <2>7 DEF Argument
    <3>2. IsReg(call.args[a[2] + 1])
      BY <2>4, <3>1
    <3>3. Written(f, call.args[a[2] + 1][2], c)
      BY <1>5, <1>8, <3>1, <3>2
    <3>4. Written(h, call.args[a[2] + 1][2], Into(q, b))
      BY <1>14, <3>3
    <3> QED
      BY <3>1, <3>4 DEF r
  <2>8. CASE ~(a[2] < Len(call.args))
    <3>1. r.args[j] = Reg(a[2] + offset)
      BY <2>3, <2>6, <2>8 DEF Argument
    <3>2. r.args[j][2] = a[2] + offset
      BY <3>1 DEF Reg
    <3>3. Written(h, a[2] + offset, Into(q, b))
      BY <1>16, <2>5, <2>6, <2>8
    <3> QED
      BY <3>2, <3>3 DEF r
  <2> QED
    BY <2>7, <2>8
<1>19. At(h, c).args = <<>> /\ DOMAIN <<>> = {}
  BY <1>2, BrOk
<1>20. call.dst # NoReg => At(h, phi).op = "phi"
  BY <1>2, <1>12
<1>21. ASSUME NEW P \in Positions(h), At(h, P).op # "phi", NEW j \in DOMAIN At(h, P).args, IsReg(At(h, P).args[j])
       PROVE  Written(h, At(h, P).args[j][2], P)
  <2>1. P # c /\ ~(call.dst # NoReg /\ P = phi)
    BY <1>19, <1>20, <1>21
  <2>2. (\E q \in Positions(g) : P = Into(q, b)) \/ (\E p \in Positions(f) : p # c /\ P = PF(p))
    BY <1>2, <2>1
  <2> QED
    BY <1>17, <1>18, <1>21, <2>2
<1> QED
  BY <1>21, DefinedFirstFacts

\* What inlining a call makes of two well formed functions is one.
LEMMA InlinedWellFormed ==
  ASSUME NEW f, NEW b, NEW i, NEW g, NEW n, Setting(f, b, i, g, n)
  PROVE  Formed(InlineAt(f, b, i, g, n)) /\ WellFormed(InlineAt(f, b, i, g, n))
<1> DEFINE h == InlineAt(f, b, i, g, n)
<1>1. Formed(f) /\ Formed(g) /\ TheCall(f, b, i, g)
  BY DEF Setting
<1>2. Spliced(h, f, b, i, g, n)
  BY <1>1, InlinedIsSpliced
<1> HIDE DEF h
<1>3. Shape(h, f, b, g, n)
  BY <1>2, ShapeOf
<1>4. LabelsUnique(h) /\ BranchesLead(h) /\ NoCriticalEdge(h)
  BY <1>3, InlinedGraph
<1>5. IncomesExact(h) /\ DefinedFirst(h) /\ Formed(h)
  BY <1>2, InlinedIncomes, InlinedDefined, InlinedFormed
<1> QED
  BY <1>4, <1>5 DEF WellFormed, h

-----------------------------------------------------------------------------
(* The labels after a call was inlined *)

\* The labels of h are those of f, those of g with the appendix, and the ending's.
LabelsJoined(h, f, g, n) ==
  \A z : z \in Labels(h) <=> z \in Labels(f) \/ z = Ending(g, n) \/ \E l \in Labels(g) : z = Tag(l, g.name, n)

\* What an appendix of h names is named in f or g already, or is g, for a call
\* up to this one.
LEMMA InlinedLabels ==
  ASSUME NEW h, NEW f, NEW g, NEW n \in Nat, LabelsJoined(h, f, g, n), Known(f), Known(g)
  PROVE  /\ Known(h)
         /\ \A name : name # g.name /\ Mentions(h, name) => Mentions(f, name) \/ Mentions(g, name)
         /\ MentionsUpTo(f, g.name, n - 1) /\ ~Mentions(g, g.name) => MentionsUpTo(h, g.name, n)
<1> DEFINE e == Ending(g, n)
           T(l) == Tag(l, g.name, n)
           x == <<g.name, n>>
<1>1. \A z \in Labels(h) : z \in Labels(f) \/ z = e \/ \E l \in Labels(g) : z = T(l)
  BY DEF LabelsJoined
<1>2. IsLabel(e) /\ e[3] # <<>> /\ DOMAIN e[3] = {1} /\ e[3][1] = x
  BY EndingFacts
<1>3. x[1] = g.name /\ x[2] = n
  OBVIOUS
<1>4. ASSUME NEW l \in Labels(g)
      PROVE  /\ IsLabel(T(l)) /\ T(l)[3] # <<>>
             /\ \A j \in DOMAIN T(l)[3] : (j \in DOMAIN l[3] /\ T(l)[3][j] = l[3][j]) \/ T(l)[3][j] = x
  <2>1. IsLabel(l)
    BY DEF Known
  <2>2. /\ IsLabel(T(l)) /\ Len(l[3]) \in Nat /\ T(l)[3] # <<>>
        /\ DOMAIN l[3] = 1..Len(l[3]) /\ DOMAIN T(l)[3] = 1..Len(l[3]) + 1
        /\ \A j \in 1..Len(l[3]) : T(l)[3][j] = l[3][j]
        /\ T(l)[3][Len(l[3]) + 1] = x
    BY <2>1, TagFacts
  <2> HIDE DEF T, x
  <2>3. \A j \in 1..Len(l[3]) + 1 : j \in 1..Len(l[3]) \/ j = Len(l[3]) + 1
    BY <2>2
  <2> QED
    BY <2>2, <2>3
<1> HIDE DEF e, T, x
<1>5. Known(h)
  <2>1. ASSUME NEW z \in Labels(h) PROVE IsLabel(z) /\ (z[1] = "inline_exit" => z[3] # <<>>)
    <3>1. CASE z \in Labels(f)
      BY <3>1 DEF Known
    <3>2. CASE z = e
      BY <3>2, <1>2
    <3>3. CASE \E l \in Labels(g) : z = T(l)
      BY <3>3, <1>4
    <3> QED
      BY <1>1, <3>1, <3>2, <3>3
  <2> QED
    BY <2>1 DEF Known
<1>6. ASSUME NEW name, name # g.name, Mentions(h, name) PROVE Mentions(f, name) \/ Mentions(g, name)
  <2>1. PICK z \in Labels(h) : \E j \in DOMAIN z[3] : z[3][j][1] = name
    BY <1>6 DEF Mentions
  <2>2. PICK j \in DOMAIN z[3] : z[3][j][1] = name
    BY <2>1
  <2>3. CASE z \in Labels(f)
    BY <2>2, <2>3 DEF Mentions
  <2>4. CASE z = e
    BY <1>2, <1>3, <1>6, <2>2, <2>4
  <2>5. CASE \E l \in Labels(g) : z = T(l)
    <3>1. PICK l \in Labels(g) : z = T(l)
      BY <2>5
    <3>2. j \in DOMAIN l[3] /\ z[3][j] = l[3][j]
      BY <1>3, <1>4, <1>6, <2>2, <3>1
    <3> QED
      BY <2>2, <3>2 DEF Mentions
  <2> QED
    BY <1>1, <2>3, <2>4, <2>5
<1>7. ASSUME MentionsUpTo(f, g.name, n - 1), ~Mentions(g, g.name) PROVE MentionsUpTo(h, g.name, n)
  <2>1. ASSUME NEW z \in Labels(h), NEW j \in DOMAIN z[3], z[3][j][1] = g.name PROVE z[3][j][2] \in Nat /\ z[3][j][2] <= n
    <3>1. CASE z \in Labels(f)
      BY <1>7, <2>1, <3>1 DEF MentionsUpTo
    <3>2. CASE z = e
      BY <1>2, <1>3, <2>1, <3>2
    <3>3. CASE \E l \in Labels(g) : z = T(l)
      <4>1. PICK l \in Labels(g) : z = T(l)
        BY <3>3
      <4>2. z[3][j] = x
        BY <1>4, <1>7, <2>1, <4>1 DEF Mentions
      <4> QED
        BY <1>3, <4>2
    <3> QED
      BY <1>1, <3>1, <3>2, <3>3
  <2> QED
    BY <2>1 DEF MentionsUpTo
<1> QED
  BY <1>5, <1>6, <1>7

-----------------------------------------------------------------------------
(* The calls and the returns after a call was inlined *)

\* A return of h is one of f, and a call of h one of f, but for the one inlined,
\* or one of g.
FromOld(inst, f, b, i) ==
  \E p \in Positions(f) : /\ p # <<b, i>>
                          /\ inst.op = At(f, p).op /\ inst.callee = At(f, p).callee
                          /\ inst.dst = At(f, p).dst /\ inst.args = At(f, p).args
FromCallee(inst, g) ==
  \E q \in Positions(g) : /\ inst.op = At(g, q).op /\ inst.op # "ret" /\ inst.callee = At(g, q).callee
                          /\ Len(inst.args) = Len(At(g, q).args) /\ (At(g, q).dst = NoReg => inst.dst = NoReg)

\* Where the calls and returns of h come from.
LEMMA InlinedSources ==
  ASSUME NEW h, NEW f, NEW b, NEW i, NEW g, NEW n, Setting(f, b, i, g, n), Laid(h, f, b, i, g, n),
         NEW P \in Positions(h), At(h, P).op \in {"call", "ret"}
  PROVE  FromOld(At(h, P), f, b, i) \/ FromCallee(At(h, P), g)
<1> DEFINE call == f.blocks[b].insns[i]
           s == f.blocks[b].label
           m == Len(g.blocks)
           d == Gap(f, b, i)
           phi == <<b + m + 1, 1>>
           copy == CopyAt(f, b, i, g, n)
           offset == Largest(f) + 1
           entry == Tag(g.blocks[1].label, g.name, n)
           e == Ending(g, n)
<1>1. P = <<b, i>> \/ (call.dst # NoReg /\ P = phi) \/ IsInto(P, g, b) \/ IsPut(P, f, b, i, m, d)
  BY DEF Laid
<1>2. P # <<b, i>>
  <2>1. At(h, <<b, i>>) = Br(entry) /\ Br(entry).op = "br"
    BY BrOk DEF Laid
  <2> HIDE DEF entry
  <2> QED
    BY <2>1
<1>3. ~(call.dst # NoReg /\ P = phi)
  <2>1. call.dst # NoReg => At(h, phi) = ResultPhi(call.dst, copy)
    BY DEF Laid
  <2>2. ResultPhi(call.dst, copy).op = "phi"
    BY DEF ResultPhi
  <2> HIDE DEF call, phi, copy
  <2> QED
    BY <2>1, <2>2
<1>4. CASE IsPut(P, f, b, i, m, d)
  <2>1. PICK p \in Positions(f) : p # <<b, i>> /\ P = Put(p, b, i, m, d)
    BY <1>4 DEF IsPut
  <2>2. At(h, P) = Redirected(At(f, p), s, e)
    BY <2>1 DEF Laid
  <2> DEFINE r == Redirected(At(f, p), s, e)
  <2>3. r.op = At(f, p).op /\ r.dst = At(f, p).dst /\ r.args = At(f, p).args /\ r.callee = At(f, p).callee
    BY RedirectedOk
  <2> HIDE DEF r
  <2>4. At(h, P) = r
    BY <2>2 DEF r
  <2> QED
    BY <2>1, <2>3, <2>4 DEF FromOld
<1>5. CASE IsInto(P, g, b)
  <2>1. PICK q \in Positions(g) : P = Into(q, b)
    BY <1>5 DEF IsInto
  <2> DEFINE inst == At(g, q)
             r == CopyOf(inst, g, n, offset, call.args)
  <2>2. At(h, P) = r
    BY <2>1 DEF Laid
  <2>3. Formed(f) /\ Formed(g) /\ TheCall(f, b, i, g)
    BY DEF Setting
  <2>4. Largest(f) \in Nat
    BY <2>3, LargestIsNumber
  <2>5. offset \in Nat
    BY <2>4
  <2>6. InsnOk(inst)
    BY <2>3, InsnsOk
  <2>7. <<b, i>> \in Positions(f) /\ At(f, <<b, i>>) = call
    <3>1. b \in DOMAIN f.blocks /\ i \in DOMAIN f.blocks[b].insns
      BY <2>3, FormedSizes DEF TheCall
    <3> QED
      BY <3>1, PositionFacts
  <2>8. InsnOk(At(f, <<b, i>>))
    BY <2>3, <2>7, InsnsOk
  <2>9. IsSequence(call.args) /\ \A j \in DOMAIN call.args : IsReg(call.args[j]) => call.args[j][2] \in Nat
    BY <2>7, <2>8 DEF InsnOk
  <2> HIDE DEF r, inst, offset, call
  <2>10. CopyFits(CopyOf(inst, g, n, offset, call.args), inst, g, n, offset, call.args)
    BY <2>5, <2>6, <2>9, CopyOk
  <2>11. CopyFits(r, inst, g, n, offset, call.args)
    BY <2>10 DEF r
  <2>12. inst.op # "ret"
    <3>1. inst.op = "ret" => r = Br(e)
      BY <2>11 DEF CopyFits
    <3>2. Br(e).op = "br"
      BY BrOk
    <3> HIDE DEF e
    <3> QED
      BY <2>2, <3>1, <3>2
  <2>13. r.op = inst.op /\ r.callee = inst.callee /\ r.dst = Shifted(inst.dst, offset) /\ Len(r.args) = Len(inst.args)
    BY <2>11, <2>12 DEF CopyFits
  <2>14. inst.dst = NoReg => r.dst = NoReg
    BY <2>13 DEF Shifted
  <2>15. inst = At(g, q)
    BY DEF inst
  <2> QED
    BY <2>2, <2>12, <2>13, <2>14, <2>15 DEF FromCallee
<1> QED
  BY <1>1, <1>2, <1>3, <1>4, <1>5

\* The instructions are those at the positions.
LEMMA InsnsAt ==
  ASSUME NEW f PROVE \A inst : inst \in Insns(f) <=> \E p \in Positions(f) : inst = At(f, p)
BY DEF Insns

\* Calls still lead where those of f and g led, and fit.
LEMMA InlinedCalls ==
  ASSUME NEW h, NEW f, NEW b, NEW i, NEW g, NEW n, Setting(f, b, i, g, n), Laid(h, f, b, i, g, n)
  PROVE  /\ \A names : CallsLead(f, names) /\ CallsLead(g, names) => CallsLead(h, names)
         /\ \A F : CallsFit(f, F) /\ CallsFit(g, F) => CallsFit(h, F)
         /\ ReturnsValue(f) => ReturnsValue(h)
<1>1. ASSUME NEW inst \in Insns(h), inst.op \in {"call", "ret"}
      PROVE  FromOld(inst, f, b, i) \/ FromCallee(inst, g)
  <2>1. PICK P \in Positions(h) : inst = At(h, P)
    BY InsnsAt
  <2> QED
    BY <1>1, <2>1, InlinedSources
<1>2. ASSUME NEW inst, FromOld(inst, f, b, i)
      PROVE  \E old \in Insns(f) : inst.op = old.op /\ inst.callee = old.callee /\ inst.dst = old.dst /\ inst.args = old.args
  BY <1>2, InsnsAt DEF FromOld
<1>3. ASSUME NEW inst, FromCallee(inst, g)
      PROVE  \E old \in Insns(g) : /\ inst.op = old.op /\ inst.op # "ret" /\ inst.callee = old.callee
                                   /\ Len(inst.args) = Len(old.args) /\ (old.dst = NoReg => inst.dst = NoReg)
  BY <1>3, InsnsAt DEF FromCallee
<1>4. ASSUME NEW names, CallsLead(f, names), CallsLead(g, names) PROVE CallsLead(h, names)
  <2>1. ASSUME NEW inst \in Insns(h), inst.op = "call" PROVE inst.callee \in names
    BY <1>1, <1>2, <1>3, <1>4, <2>1 DEF CallsLead
  <2> QED
    BY <2>1 DEF CallsLead
<1>5. ASSUME NEW F, CallsFit(f, F), CallsFit(g, F) PROVE CallsFit(h, F)
  <2>1. ASSUME NEW inst \in Insns(h), NEW c \in F, inst.op = "call", inst.callee = c.name
        PROVE  Len(inst.args) = c.nparams /\ (inst.dst # NoReg => ReturnsValue(c))
    <3>1. CASE FromOld(inst, f, b, i)
      BY <1>2, <1>5, <2>1, <3>1 DEF CallsFit
    <3>2. CASE FromCallee(inst, g)
      BY <1>3, <1>5, <2>1, <3>2 DEF CallsFit
    <3> QED
      BY <1>1, <2>1, <3>1, <3>2
  <2> QED
    BY <2>1 DEF CallsFit
<1>6. ASSUME ReturnsValue(f) PROVE ReturnsValue(h)
  <2>1. ASSUME NEW inst \in Insns(h), inst.op = "ret" PROVE inst.args # <<>>
    <3>1. CASE FromOld(inst, f, b, i)
      BY <1>2, <1>6, <2>1, <3>1 DEF ReturnsValue
    <3>2. CASE FromCallee(inst, g)
      BY <1>3, <2>1, <3>2
    <3> QED
      BY <1>1, <2>1, <3>1, <3>2
  <2> QED
    BY <2>1 DEF ReturnsValue
<1> QED
  BY <1>4, <1>5, <1>6

\* No call of g is left before the block the search goes on with.
LEMMA NoneLeftBehind ==
  ASSUME NEW h, NEW f, NEW b, NEW i, NEW g, NEW n, Setting(f, b, i, g, n), Laid(h, f, b, i, g, n),
         ~CallsItself(g), \A k \in 1..b - 1 : ~CallsOf(f, k, g.name),
         \A j \in 1..i - 1 : ~(f.blocks[b].insns[j].op = "call" /\ f.blocks[b].insns[j].callee = g.name),
         NEW K \in DOMAIN h.blocks, K < NextBlock(b, g)
  PROVE  ~CallsOf(h, K, g.name)
<1> DEFINE call == f.blocks[b].insns[i]
           m == Len(g.blocks)
           d == Gap(f, b, i)
           phi == <<b + m + 1, 1>>
           IsCall(inst) == inst.op = "call" /\ inst.callee = g.name
<1>1. SUFFICES ASSUME NEW I \in DOMAIN h.blocks[K].insns, IsCall(h.blocks[K].insns[I]) PROVE FALSE
  BY DEF CallsOf
<1> DEFINE P == <<K, I>>
<1>2. P \in Positions(h) /\ At(h, P) = h.blocks[K].insns[I] /\ P[1] = K
  BY PositionFacts
<1>3. Formed(f) /\ Formed(g) /\ TheCall(f, b, i, g)
  BY DEF Setting
<1>4. /\ m \in Nat /\ b \in 1..Len(f.blocks) /\ Len(f.blocks) \in Nat /\ i \in 1..Len(f.blocks[b].insns)
      /\ Len(f.blocks[b].insns) \in Nat
  BY <1>3, FormedSizes DEF TheCall
<1>5. K < b + m + 1 /\ d \in {0, 1}
  BY DEF NextBlock, Gap
<1>6. FromOld(At(h, P), f, b, i) \/ FromCallee(At(h, P), g)
  <2> HIDE DEF P
  <2>1. At(h, P).op \in {"call", "ret"}
    BY <1>1, <1>2
  <2> QED
    BY <1>2, <2>1, InlinedSources
<1>7. P = <<b, i>> \/ (call.dst # NoReg /\ P = phi) \/ IsInto(P, g, b) \/ IsPut(P, f, b, i, m, d)
  <2> HIDE DEF P
  <2> QED
    BY <1>2 DEF Laid
<1>8. P # <<b, i>>
  <2>1. At(h, <<b, i>>) = Br(Tag(g.blocks[1].label, g.name, n)) /\ Br(Tag(g.blocks[1].label, g.name, n)).op = "br"
    BY BrOk DEF Laid
  <2> HIDE DEF P
  <2> QED
    BY <1>1, <1>2, <2>1
<1>9. P # phi
  <2> DEFINE M == b + m + 1
  <2>1. K < M /\ M \in Nat /\ K # M
    BY <1>4, <1>5
  <2> HIDE DEF M
  <2> QED
    BY <2>1 DEF M
<1> HIDE DEF P
<1>10. CASE IsInto(P, g, b)
  <2>1. PICK q \in Positions(g) : P = Into(q, b)
    BY <1>10 DEF IsInto
  <2> DEFINE inst == At(g, q)
             r == CopyOf(inst, g, n, Largest(f) + 1, call.args)
  <2>2. At(h, P) = r
    BY <2>1 DEF Laid
  <2>3. inst.op = "ret" => r.op = "br"
    BY BrOk DEF CopyOf
  <2>4. inst.op # "ret" => r.op = inst.op /\ r.callee = inst.callee
    BY DEF CopyOf, Renamed, Rewritten
  <2>5. inst \in Insns(g)
    BY InsnsAt
  <2> HIDE DEF r, inst
  <2> QED
    BY <1>1, <1>2, <2>2, <2>3, <2>4, <2>5 DEF CallsItself
<1>11. CASE IsPut(P, f, b, i, m, d)
  <2>1. PICK p \in Positions(f) : p # <<b, i>> /\ P = Put(p, b, i, m, d)
    BY <1>11 DEF IsPut
  <2>2. At(h, P) = Redirected(At(f, p), f.blocks[b].label, Ending(g, n))
    BY <2>1 DEF Laid
  <2>3. At(h, P).op = At(f, p).op /\ At(h, P).callee = At(f, p).callee
    BY <2>2, RedirectedOk
  <2>4. /\ p[1] \in DOMAIN f.blocks /\ p[2] \in DOMAIN f.blocks[p[1]].insns
        /\ p = <<p[1], p[2]>> /\ At(f, p) = f.blocks[p[1]].insns[p[2]]
    BY PositionFacts
  <2>5. p[1] \in 1..Len(f.blocks) /\ p[2] \in 1..Len(f.blocks[p[1]].insns) /\ Len(f.blocks[p[1]].insns) \in Nat
    BY <1>3, <2>4, FormedSizes
  <2>6. IsCall(f.blocks[p[1]].insns[p[2]])
    BY <1>1, <1>2, <2>3, <2>4
  <2>7. CASE p[1] < b
    <3>1. p[1] \in 1..b - 1 /\ p[2] \in DOMAIN f.blocks[p[1]].insns
      BY <1>4, <2>4, <2>5, <2>7
    <3>2. ~CallsOf(f, p[1], g.name)
      BY <3>1
    <3> QED
      BY <2>6, <3>1, <3>2 DEF CallsOf
  <2>8. CASE p[1] = b /\ p[2] < i
    <3>1. p[2] \in 1..i - 1
      BY <1>4, <2>5, <2>8
    <3> QED
      BY <2>6, <2>8, <3>1
  <2>9. CASE ~(p[1] < b \/ (p[1] = b /\ p[2] < i))
    <3>1. P[1] = p[1] + m + 1
      BY <2>1, <2>9 DEF Put
    <3>2. p[1] >= b
      BY <1>4, <2>5, <2>9
    <3> QED
      BY <1>2, <1>4, <1>5, <2>5, <3>1, <3>2
  <2> QED
    BY <2>7, <2>8, <2>9
<1> QED
  BY <1>7, <1>8, <1>9, <1>10, <1>11

-----------------------------------------------------------------------------
(* Renumbering the registers *)

\* The number Reorder gives a register; parameters keep theirs.
LEMMA NewIdIsNumber ==
  ASSUME NEW f, Formed(f), NEW r \in Nat
  PROVE  NewId(f, r) \in Nat /\ (r < f.nparams => NewId(f, r) = r)
<1> DEFINE S == WrittenBefore(f, r) \cap Numbered(f)
<1>1. PICK M \in Nat : \A inst \in Insns(f) : Used(inst) \subseteq 0..M
  BY UsedBounded
<1>2. f.nparams \in Nat
  BY DEF Formed
<1>3. \A x \in Numbered(f) : x \in 0..M /\ x >= f.nparams
  <2>1. ASSUME NEW x \in Numbered(f) PROVE x \in 0..M /\ x >= f.nparams
    <3>1. PICK inst \in Insns(f) : x = inst.dst /\ x >= f.nparams
      BY DEF Numbered
    <3>2. PICK p \in Positions(f) : inst = At(f, p)
      BY InsnsAt
    <3>3. inst.dst \in Nat \cup {NoReg}
      BY <3>2 DEF Formed
    <3>4. x # NoReg
      BY <1>2, <3>1, <3>3 DEF NoReg
    <3>5. x \in Used(inst)
      BY <3>1, <3>4 DEF Used
    <3> QED
      BY <1>1, <3>1, <3>5
  <2> QED
    BY <2>1
<1>4. IsFiniteSet(0..M)
  BY FS_Interval
<1>5. S \subseteq 0..M
  BY <1>3
<1>6. IsFiniteSet(S)
  BY <1>4, <1>5, FS_Subset
<1>7. Cardinality(S) \in Nat
  BY <1>6, FS_CardinalityType
<1>8. NewId(f, r) = IF r \in Numbered(f) THEN f.nparams + Cardinality(S) ELSE r
  BY DEF NewId
<1>9. r < f.nparams => r \notin Numbered(f)
  BY <1>2, <1>3
<1> HIDE DEF S
<1> QED
  BY <1>2, <1>7, <1>8, <1>9

\* Instruction new of h is instruction old of f with its registers renumbered.
RenumberedInsn(new, old, f) ==
  /\ new.op = old.op /\ new.labels = old.labels /\ new.callee = old.callee
  /\ new.dst = (IF old.dst = NoReg THEN NoReg ELSE NewId(f, old.dst))
  /\ IsSequence(new.args) /\ Len(new.args) = Len(old.args) /\ DOMAIN new.args = DOMAIN old.args
  /\ \A j \in DOMAIN old.args :
       new.args[j] = IF IsReg(old.args[j]) THEN Reg(NewId(f, old.args[j][2])) ELSE old.args[j]
\* h is f with its registers renumbered.
Renumbered(h, f) ==
  /\ h.name = f.name /\ h.nparams = f.nparams
  /\ IsSequence(h.blocks) /\ Len(h.blocks) = Len(f.blocks) /\ DOMAIN h.blocks = DOMAIN f.blocks
  /\ \A b \in DOMAIN f.blocks :
       /\ h.blocks[b].label = f.blocks[b].label
       /\ IsSequence(h.blocks[b].insns) /\ Len(h.blocks[b].insns) = Len(f.blocks[b].insns)
       /\ DOMAIN h.blocks[b].insns = DOMAIN f.blocks[b].insns
       /\ \A i \in DOMAIN f.blocks[b].insns : RenumberedInsn(h.blocks[b].insns[i], f.blocks[b].insns[i], f)

\* Rewriting an instruction with the new numbers.
LEMMA RenumberedInsnOf ==
  ASSUME NEW f, NEW inst, IsSequence(inst.args)
  PROVE  RenumberedInsn(
           Rewritten(inst, IF inst.dst = NoReg THEN NoReg ELSE NewId(f, inst.dst),
                     [j \in DOMAIN inst.args |->
                        IF IsReg(inst.args[j]) THEN Reg(NewId(f, inst.args[j][2])) ELSE inst.args[j]],
                     inst.labels), inst, f)
<1> DEFINE dst == IF inst.dst = NoReg THEN NoReg ELSE NewId(f, inst.dst)
           args == [j \in DOMAIN inst.args |->
                      IF IsReg(inst.args[j]) THEN Reg(NewId(f, inst.args[j][2])) ELSE inst.args[j]]
           r == Rewritten(inst, dst, args, inst.labels)
<1>1. /\ r.op = inst.op /\ r.labels = inst.labels /\ r.callee = inst.callee
      /\ r.dst = dst /\ r.args = args
  BY DEF Rewritten
<1>2. /\ DOMAIN args = DOMAIN inst.args /\ args = [j \in DOMAIN inst.args |-> args[j]]
      /\ \A j \in DOMAIN inst.args :
           args[j] = IF IsReg(inst.args[j]) THEN Reg(NewId(f, inst.args[j][2])) ELSE inst.args[j]
  OBVIOUS
<1> HIDE DEF args
<1>3. IsSequence(args) /\ Len(args) = Len(inst.args)
  BY <1>2, MappedSequence
<1> HIDE DEF r
<1>4. RenumberedInsn(r, inst, f)
  BY <1>1, <1>2, <1>3 DEF RenumberedInsn
<1> QED
  BY <1>4 DEF r, args

\* Reorder renumbers and does no more.
LEMMA RenumberedOf ==
  ASSUME NEW f, Formed(f)
  PROVE  Renumbered(Reorder(f), f)
<1> DEFINE G(inst) == Rewritten(inst, IF inst.dst = NoReg THEN NoReg ELSE NewId(f, inst.dst),
                     [j \in DOMAIN inst.args |->
                        IF IsReg(inst.args[j]) THEN Reg(NewId(f, inst.args[j][2])) ELSE inst.args[j]],
                     inst.labels)
           h == Reorder(f)
<1>1. h = MapInsns(f, G)
  BY DEF Reorder
<1> HIDE DEF G
<1>2. h.name = f.name /\ h.nparams = f.nparams
  BY <1>1 DEF MapInsns
<1>3. h.blocks = [b \in DOMAIN f.blocks |->
                    [label |-> f.blocks[b].label,
                     insns |-> [i \in DOMAIN f.blocks[b].insns |-> G(f.blocks[b].insns[i])]]]
  BY <1>1 DEF MapInsns
<1>4. DOMAIN h.blocks = DOMAIN f.blocks /\ h.blocks = [b \in DOMAIN f.blocks |-> h.blocks[b]]
  BY <1>3
<1>5. ASSUME NEW b \in DOMAIN f.blocks
      PROVE  /\ h.blocks[b].label = f.blocks[b].label
             /\ h.blocks[b].insns = [i \in DOMAIN f.blocks[b].insns |-> G(f.blocks[b].insns[i])]
  BY <1>3
<1> HIDE DEF h
<1>6. IsSequence(f.blocks) /\ \A b \in DOMAIN f.blocks : IsSequence(f.blocks[b].insns)
  BY DEF Formed
<1>7. IsSequence(h.blocks) /\ Len(h.blocks) = Len(f.blocks)
  BY <1>4, <1>6, MappedSequence
<1>8. ASSUME NEW b \in DOMAIN f.blocks
      PROVE  /\ IsSequence(h.blocks[b].insns) /\ Len(h.blocks[b].insns) = Len(f.blocks[b].insns)
             /\ DOMAIN h.blocks[b].insns = DOMAIN f.blocks[b].insns
             /\ \A i \in DOMAIN f.blocks[b].insns : RenumberedInsn(h.blocks[b].insns[i], f.blocks[b].insns[i], f)
  <2> DEFINE s == f.blocks[b].insns
             t == h.blocks[b].insns
  <2>1. t = [i \in DOMAIN s |-> G(s[i])] /\ IsSequence(s)
    BY <1>5, <1>6
  <2>2. ASSUME NEW i \in DOMAIN s PROVE IsSequence(s[i].args)
    <3>1. <<b, i>> \in Positions(f) /\ At(f, <<b, i>>) = s[i]
      BY PositionFacts
    <3>2. InsnOk(At(f, <<b, i>>))
      BY <3>1, InsnsOk
    <3> HIDE DEF s
    <3> QED
      BY <3>1, <3>2 DEF InsnOk
  <2> HIDE DEF s, t
  <2>3. DOMAIN t = DOMAIN s /\ t = [i \in DOMAIN s |-> t[i]] /\ \A i \in DOMAIN s : t[i] = G(s[i])
    BY <2>1
  <2>4. IsSequence(t) /\ Len(t) = Len(s)
    BY <2>1, <2>3, MappedSequence
  <2>5. ASSUME NEW i \in DOMAIN s PROVE RenumberedInsn(t[i], s[i], f)
    <3>1. IsSequence(s[i].args)
      BY <2>2
    <3> DEFINE inst == s[i]
    <3>2. RenumberedInsn(G(inst), inst, f)
      BY <3>1, RenumberedInsnOf DEF G
    <3>3. t[i] = G(s[i])
      BY <2>3
    <3> QED
      BY <3>2, <3>3
  <2> QED
    BY <2>3, <2>4, <2>5 DEF s, t
<1> QED
  BY <1>2, <1>4, <1>5, <1>7, <1>8 DEF Renumbered, h

\* The instructions stay where they are.
LEMMA RenumberedPlaces ==
  ASSUME NEW h, NEW f, Renumbered(h, f)
  PROVE  /\ Labels(h) = Labels(f) /\ Positions(h) = Positions(f)
         /\ \A p \in Positions(f) : RenumberedInsn(At(h, p), At(f, p), f)
<1>1. Labels(h) = Labels(f)
  BY DEF Labels, Renumbered
<1>2. Positions(h) = Positions(f)
  <2>1. ASSUME NEW p \in Positions(f) PROVE p \in Positions(h)
    <3>1. p[1] \in DOMAIN f.blocks /\ p[2] \in DOMAIN f.blocks[p[1]].insns /\ p = <<p[1], p[2]>>
      BY PositionFacts
    <3>2. p[1] \in DOMAIN h.blocks /\ p[2] \in DOMAIN h.blocks[p[1]].insns
      BY <3>1 DEF Renumbered
    <3>3. <<p[1], p[2]>> \in Positions(h)
      BY <3>2, PositionFacts
    <3> QED
      BY <3>1, <3>3
  <2>2. ASSUME NEW p \in Positions(h) PROVE p \in Positions(f)
    <3>1. p[1] \in DOMAIN h.blocks /\ p[2] \in DOMAIN h.blocks[p[1]].insns /\ p = <<p[1], p[2]>>
      BY PositionFacts
    <3>2. p[1] \in DOMAIN f.blocks /\ p[2] \in DOMAIN f.blocks[p[1]].insns
      BY <3>1 DEF Renumbered
    <3>3. <<p[1], p[2]>> \in Positions(f)
      BY <3>2, PositionFacts
    <3> QED
      BY <3>1, <3>3
  <2> QED
    BY <2>1, <2>2
<1>3. ASSUME NEW p \in Positions(f) PROVE RenumberedInsn(At(h, p), At(f, p), f)
  <2>1. p[1] \in DOMAIN f.blocks /\ p[2] \in DOMAIN f.blocks[p[1]].insns
    BY PositionFacts
  <2>2. RenumberedInsn(h.blocks[p[1]].insns[p[2]], f.blocks[p[1]].insns[p[2]], f)
    BY <2>1 DEF Renumbered
  <2> QED
    BY <2>2 DEF At
<1> QED
  BY <1>1, <1>2, <1>3

\* The edges stay as they are.
LEMMA RenumberedGraph ==
  ASSUME NEW h, NEW f, Renumbered(h, f), Formed(f)
  PROVE  /\ \A b \in DOMAIN f.blocks : h.blocks[b].label = f.blocks[b].label /\ Targets(h.blocks[b]) = Targets(f.blocks[b])
         /\ \A l : PredLabels(h, l) = PredLabels(f, l)
<1>1. ASSUME NEW b \in DOMAIN f.blocks PROVE Targets(h.blocks[b]) = Targets(f.blocks[b])
  <2> DEFINE s == f.blocks[b].insns
             t == h.blocks[b].insns
             n == Len(s)
  <2>1. n \in Nat \ {0} /\ DOMAIN s = 1..n
    BY FormedSizes
  <2>2. Len(t) = n /\ \A i \in DOMAIN s : RenumberedInsn(t[i], s[i], f)
    BY DEF Renumbered
  <2> HIDE DEF s, t, n
  <2>3. n \in DOMAIN s
    BY <2>1
  <2>4. RenumberedInsn(t[n], s[n], f)
    BY <2>2, <2>3
  <2>5. t[n].op = s[n].op /\ t[n].labels = s[n].labels
    BY <2>4 DEF RenumberedInsn
  <2>6. Last(h.blocks[b].insns) = t[n] /\ Last(f.blocks[b].insns) = s[n]
    BY <2>2 DEF Last, s, t, n
  <2> QED
    BY <2>5, <2>6 DEF Targets
<1>2. \A b \in DOMAIN f.blocks : h.blocks[b].label = f.blocks[b].label
  BY DEF Renumbered
<1>3. DOMAIN h.blocks = DOMAIN f.blocks
  BY DEF Renumbered
<1>4. \A l : PredLabels(h, l) = PredLabels(f, l)
  BY <1>1, <1>2, <1>3 DEF PredLabels
<1> QED
  BY <1>1, <1>2, <1>4

\* A renumbered function is formed.
LEMMA RenumberedFormed ==
  ASSUME NEW h, NEW f, Renumbered(h, f), Formed(f)
  PROVE  Formed(h)
<1>1. BlocksFormed(f)
  BY FormedAt
<1>2. /\ h.nparams = f.nparams /\ IsSequence(h.blocks) /\ Len(h.blocks) = Len(f.blocks)
      /\ DOMAIN f.blocks = 1..Len(f.blocks)
  BY FormedSizes DEF Renumbered
<1>3. ASSUME NEW b \in 1..Len(f.blocks)
      PROVE  /\ IsSequence(h.blocks[b].insns) /\ Len(h.blocks[b].insns) > 0
             /\ h.blocks[1].label \notin Targets(h.blocks[b])
  <2>1. 1 \in DOMAIN f.blocks /\ b \in DOMAIN f.blocks
    <3>1. Len(f.blocks) \in Nat \ {0}
      BY FormedSizes
    <3> QED
      BY <1>2, <3>1
  <2>2. Targets(h.blocks[b]) = Targets(f.blocks[b]) /\ h.blocks[1].label = f.blocks[1].label
    BY <2>1, RenumberedGraph
  <2> QED
    BY <1>1, <2>1, <2>2 DEF BlocksFormed, Renumbered
<1>4. ASSUME NEW b \in 1..Len(f.blocks), NEW i \in 1..Len(h.blocks[b].insns)
      PROVE  InsnFormed(h, b, i)
  <2> DEFINE old(j) == f.blocks[b].insns[j]
             new(j) == h.blocks[b].insns[j]
  <2>1. Len(h.blocks[b].insns) = Len(f.blocks[b].insns) /\ DOMAIN f.blocks[b].insns = 1..Len(f.blocks[b].insns)
    BY <1>2, FormedSizes DEF Renumbered
  <2>2. \A j \in 1..Len(f.blocks[b].insns) : RenumberedInsn(new(j), old(j), f)
    BY <1>2, <2>1 DEF Renumbered
  <2>3. RenumberedInsn(new(i), old(i), f) /\ InsnFormed(f, b, i)
    BY <1>1, <2>1, <2>2 DEF BlocksFormed
  <2>4. \A j \in 1..Len(f.blocks[b].insns) : new(j).op = old(j).op
    BY <2>2 DEF RenumberedInsn
  <2>5. /\ IsSequence(old(i).labels) /\ old(i).dst \in Nat \cup {NoReg}
        /\ \A j \in DOMAIN old(i).args : IsReg(old(i).args[j]) => old(i).args[j][2] \in Nat
        /\ old(i).op \in Terminators <=> i = Len(f.blocks[b].insns)
        /\ old(i).op \in Terminators => old(i).dst = NoReg
        /\ old(i).op = "phi" => b # 1 /\ \A j \in 1..i : old(j).op = "phi"
    BY <2>3 DEF InsnFormed
  <2>6. /\ new(i).op = old(i).op /\ new(i).labels = old(i).labels
        /\ new(i).dst = (IF old(i).dst = NoReg THEN NoReg ELSE NewId(f, old(i).dst))
        /\ IsSequence(new(i).args) /\ DOMAIN new(i).args = DOMAIN old(i).args
        /\ \A j \in DOMAIN old(i).args :
             new(i).args[j] = IF IsReg(old(i).args[j]) THEN Reg(NewId(f, old(i).args[j][2])) ELSE old(i).args[j]
    BY <2>3 DEF RenumberedInsn
  <2>7. new(i).dst \in Nat \cup {NoReg}
    <3>1. old(i).dst \in Nat => NewId(f, old(i).dst) \in Nat
      BY NewIdIsNumber
    <3> QED
      BY <2>5, <2>6, <3>1
  <2>8. ASSUME NEW j \in DOMAIN new(i).args, IsReg(new(i).args[j]) PROVE new(i).args[j][2] \in Nat
    <3> DEFINE o == old(i).args[j]
    <3>1. j \in DOMAIN old(i).args /\ (IsReg(o) => o[2] \in Nat)
      BY <2>5, <2>6
    <3>2. new(i).args[j] = IF IsReg(o) THEN Reg(NewId(f, o[2])) ELSE o
      BY <2>6, <3>1
    <3> HIDE DEF o
    <3>3. CASE IsReg(o)
      <4>1. NewId(f, o[2]) \in Nat
        BY <3>1, <3>3, NewIdIsNumber
      <4> QED
        BY <3>2, <3>3, <4>1 DEF Reg
    <3>4. CASE ~IsReg(o)
      BY <2>8, <3>2, <3>4
    <3> QED
      BY <3>3, <3>4
  <2>9. old(i).op = "phi" => b # 1 /\ \A j \in 1..i : new(j).op = "phi"
    <3>1. Len(f.blocks[b].insns) \in Nat
      BY <1>2, FormedSizes
    <3>2. \A j \in 1..i : j \in 1..Len(f.blocks[b].insns)
      BY <2>1, <3>1
    <3> QED
      BY <2>4, <2>5, <3>2
  <2> QED
    BY <2>1, <2>5, <2>6, <2>7, <2>8, <2>9 DEF InsnFormed
<1>5. BlocksFormed(h)
  BY <1>1, <1>2, <1>3, <1>4 DEF BlocksFormed
<1> QED
  BY <1>5, FormedAt

\* And well formed: writing before reading does not depend on the numbers.
LEMMA RenumberedWellFormed ==
  ASSUME NEW h, NEW f, Renumbered(h, f), Formed(f), WellFormed(f)
  PROVE  WellFormed(h)
<1>1. /\ Labels(h) = Labels(f) /\ Positions(h) = Positions(f)
      /\ \A p \in Positions(f) : RenumberedInsn(At(h, p), At(f, p), f)
  BY RenumberedPlaces
<1>2. /\ \A b \in DOMAIN f.blocks : h.blocks[b].label = f.blocks[b].label /\ Targets(h.blocks[b]) = Targets(f.blocks[b])
      /\ \A l : PredLabels(h, l) = PredLabels(f, l)
  BY RenumberedGraph
<1>3. DOMAIN h.blocks = DOMAIN f.blocks /\ h.nparams = f.nparams
  BY DEF Renumbered
<1>4. LabelsUnique(h)
  BY <1>2, <1>3 DEF WellFormed, LabelsUnique
<1>5. BranchesLead(h)
  BY <1>1, <1>2, <1>3 DEF WellFormed, BranchesLead
<1>6. NoCriticalEdge(h)
  BY <1>2, <1>3 DEF WellFormed, NoCriticalEdge
<1>7. IncomesExact(h)
  <2>1. ASSUME NEW p \in Positions(h), At(h, p).op = "phi"
        PROVE  ToSet(At(h, p).labels) = PredLabels(h, h.blocks[p[1]].label) /\ IsInjective(At(h, p).labels)
    <3>1. p \in Positions(f) /\ At(f, p).op = "phi" /\ At(h, p).labels = At(f, p).labels
      BY <1>1, <2>1 DEF RenumberedInsn
    <3>2. h.blocks[p[1]].label = f.blocks[p[1]].label
      BY <1>2, <3>1, PositionFacts
    <3> QED
      BY <1>2, <3>1, <3>2 DEF WellFormed, IncomesExact
  <2> QED
    BY <2>1 DEF IncomesExact
<1>8. DefinedFirst(h)
  <2>1. ASSUME NEW p \in Positions(h), At(h, p).op # "phi", NEW j \in DOMAIN At(h, p).args, IsReg(At(h, p).args[j])
        PROVE  At(h, p).args[j][2] < h.nparams
                 \/ \E q \in Positions(h) : Precedes(q, p) /\ At(h, q).dst = At(h, p).args[j][2]
    <3> DEFINE o == At(f, p).args[j]
    <3>1. p \in Positions(f) /\ At(f, p).op # "phi" /\ j \in DOMAIN At(f, p).args
      BY <1>1, <2>1 DEF RenumberedInsn
    <3>2. At(h, p).args[j] = IF IsReg(o) THEN Reg(NewId(f, o[2])) ELSE o
      BY <1>1, <3>1 DEF RenumberedInsn
    <3>3. IsReg(o)
      BY <2>1, <3>2
    <3>4. o[2] \in Nat /\ o \in ToSet(At(f, p).args)
      <4>1. InsnOk(At(f, p))
        BY <3>1, InsnsOk
      <4>2. o \in ToSet(At(f, p).args)
        BY <3>1 DEF ToSet
      <4> QED
        BY <3>1, <3>3, <4>1, <4>2 DEF InsnOk
    <3>5. o[2] < f.nparams \/ \E q \in Positions(f) : Precedes(q, p) /\ At(f, q).dst = o[2]
      BY <3>1, <3>3, <3>4 DEF WellFormed, DefinedFirst
    <3>6. At(h, p).args[j][2] = NewId(f, o[2])
      BY <3>2, <3>3 DEF Reg
    <3> HIDE DEF o
    <3>7. CASE o[2] < f.nparams
      BY <1>3, <3>4, <3>6, <3>7, NewIdIsNumber
    <3>8. CASE \E q \in Positions(f) : Precedes(q, p) /\ At(f, q).dst = o[2]
      <4>1. PICK q \in Positions(f) : Precedes(q, p) /\ At(f, q).dst = o[2]
        BY <3>8
      <4>2. At(h, q).dst = IF At(f, q).dst = NoReg THEN NoReg ELSE NewId(f, At(f, q).dst)
        BY <1>1 DEF RenumberedInsn
      <4>3. At(h, q).dst = NewId(f, o[2])
        BY <3>4, <4>1, <4>2 DEF NoReg
      <4> QED
        BY <1>1, <3>6, <4>1, <4>3
    <3> QED
      BY <3>5, <3>7, <3>8
  <2>2. ASSUME NEW p \in Positions(h), At(h, p).op # "phi", NEW o \in ToSet(At(h, p).args), IsReg(o)
        PROVE  o[2] < h.nparams \/ \E q \in Positions(h) : Precedes(q, p) /\ At(h, q).dst = o[2]
    <3>1. PICK j \in DOMAIN At(h, p).args : o = At(h, p).args[j]
      BY DEF ToSet
    <3> QED
      BY <2>1, <2>2, <3>1
  <2> QED
    BY <2>2 DEF DefinedFirst
<1> QED
  BY <1>4, <1>5, <1>6, <1>7, <1>8 DEF WellFormed

\* Its calls are the same.
LEMMA RenumberedCalls ==
  ASSUME NEW h, NEW f, Renumbered(h, f), Formed(f)
  PROVE  /\ \A names : CallsLead(f, names) => CallsLead(h, names)
         /\ \A F : CallsFit(f, F) => CallsFit(h, F)
         /\ ReturnsValue(f) => ReturnsValue(h)
         /\ \A b, name : b \in DOMAIN h.blocks /\ ~CallsOf(f, b, name) => ~CallsOf(h, b, name)
<1>1. /\ Positions(h) = Positions(f)
      /\ \A p \in Positions(f) : RenumberedInsn(At(h, p), At(f, p), f)
  BY RenumberedPlaces
<1>2. ASSUME NEW inst \in Insns(h)
      PROVE  \E old \in Insns(f) : RenumberedInsn(inst, old, f) /\ InsnOk(old)
  <2>1. PICK p \in Positions(h) : inst = At(h, p)
    BY InsnsAt
  <2>2. At(f, p) \in Insns(f) /\ InsnOk(At(f, p))
    BY <1>1, InsnsAt, InsnsOk
  <2> QED
    BY <1>1, <2>1, <2>2
<1>3. ASSUME NEW names, CallsLead(f, names) PROVE CallsLead(h, names)
  <2>1. ASSUME NEW inst \in Insns(h), inst.op = "call" PROVE inst.callee \in names
    BY <1>2, <1>3, <2>1 DEF CallsLead, RenumberedInsn
  <2> QED
    BY <2>1 DEF CallsLead
<1>4. ASSUME NEW F, CallsFit(f, F) PROVE CallsFit(h, F)
  <2>1. ASSUME NEW inst \in Insns(h), NEW c \in F, inst.op = "call", inst.callee = c.name
        PROVE  Len(inst.args) = c.nparams /\ (inst.dst # NoReg => ReturnsValue(c))
    <3>1. PICK old \in Insns(f) : RenumberedInsn(inst, old, f)
      BY <1>2
    <3>2. old.op = "call" /\ old.callee = c.name /\ Len(inst.args) = Len(old.args) /\ (inst.dst # NoReg => old.dst # NoReg)
      BY <2>1, <3>1 DEF RenumberedInsn
    <3> QED
      BY <1>4, <3>2 DEF CallsFit
  <2> QED
    BY <2>1 DEF CallsFit
<1>5. ASSUME ReturnsValue(f) PROVE ReturnsValue(h)
  <2>1. ASSUME NEW inst \in Insns(h), inst.op = "ret" PROVE inst.args # <<>>
    <3>1. PICK old \in Insns(f) : RenumberedInsn(inst, old, f) /\ InsnOk(old)
      BY <1>2
    <3>2. old.op = "ret" /\ Len(inst.args) = Len(old.args) /\ IsSequence(inst.args) /\ IsSequence(old.args)
      BY <2>1, <3>1 DEF RenumberedInsn, InsnOk
    <3>3. old.args # <<>>
      BY <1>5, <3>2 DEF ReturnsValue
    <3> QED
      BY <3>2, <3>3, SequenceFacts
  <2> QED
    BY <2>1 DEF ReturnsValue
<1>6. ASSUME NEW b, NEW name, b \in DOMAIN h.blocks, ~CallsOf(f, b, name) PROVE ~CallsOf(h, b, name)
  <2>1. /\ b \in DOMAIN f.blocks /\ DOMAIN h.blocks[b].insns = DOMAIN f.blocks[b].insns
        /\ \A i \in DOMAIN f.blocks[b].insns : RenumberedInsn(h.blocks[b].insns[i], f.blocks[b].insns[i], f)
    BY <1>6 DEF Renumbered
  <2> QED
    BY <1>6, <2>1 DEF CallsOf, RenumberedInsn
<1> QED
  BY <1>3, <1>4, <1>5, <1>6

-----------------------------------------------------------------------------
(* One function takes the place of another *)

\* h can stand for f: same name, same parameters, still a result when f had one,
\* and it calls nothing that f or g did not.
StandsFor(h, f, F, names) ==
  /\ h.name = f.name /\ h.nparams = f.nparams /\ (ReturnsValue(f) => ReturnsValue(h))
  /\ Formed(h) /\ WellFormed(h) /\ Known(h) /\ CallsLead(h, names) /\ CallsFit(h, F)

\* The function with one call inlined can stand for the old one, and the search goes on
\* behind the copy.
LEMMA InlinedStands ==
  ASSUME NEW f, NEW b, NEW i, NEW g, NEW n \in Nat, NEW F, NEW names,
         Formed(f), WellFormed(f), Known(f), CallsLead(f, names), CallsFit(f, F),
         Formed(g), WellFormed(g), Known(g), CallsLead(g, names), CallsFit(g, F),
         ~CallsItself(g), ~Mentions(g, g.name), MentionsUpTo(f, g.name, n - 1), TheCall(f, b, i, g),
         \A k \in 1..b - 1 : ~CallsOf(f, k, g.name),
         \A j \in 1..i - 1 : ~(f.blocks[b].insns[j].op = "call" /\ f.blocks[b].insns[j].callee = g.name)
  PROVE  LET h == InlineAt(f, b, i, g, n)
         IN /\ StandsFor(h, f, F, names)
            /\ \A name : name # g.name /\ Mentions(h, name) => Mentions(f, name) \/ Mentions(g, name)
            /\ MentionsUpTo(h, g.name, n)
            /\ \A K \in DOMAIN h.blocks : K < NextBlock(b, g) => ~CallsOf(h, K, g.name)
<1> DEFINE h == InlineAt(f, b, i, g, n)
<1>1. Apart(f, g, n)
  BY Freshness
<1>2. Setting(f, b, i, g, n)
  BY <1>1 DEF Setting
<1>3. Formed(h) /\ WellFormed(h)
  BY <1>2, InlinedWellFormed
<1>4. Spliced(h, f, b, i, g, n)
  BY InlinedIsSpliced
<1> HIDE DEF h
<1>5. Laid(h, f, b, i, g, n) /\ Shape(h, f, b, g, n)
  BY <1>2, <1>4, LaidOf, ShapeOf
<1>6. LabelsJoined(h, f, g, n)
  BY <1>2, <1>5, InlinedGraph DEF LabelsJoined
<1>7. /\ Known(h)
      /\ \A name : name # g.name /\ Mentions(h, name) => Mentions(f, name) \/ Mentions(g, name)
      /\ MentionsUpTo(h, g.name, n)
  BY <1>6, InlinedLabels
<1>8. CallsLead(h, names) /\ CallsFit(h, F) /\ (ReturnsValue(f) => ReturnsValue(h))
  BY <1>2, <1>5, InlinedCalls
<1>9. \A K \in DOMAIN h.blocks : K < NextBlock(b, g) => ~CallsOf(h, K, g.name)
  BY <1>2, <1>5, NoneLeftBehind
<1>10. h.name = f.name /\ h.nparams = f.nparams
  BY <1>4 DEF Spliced
<1>11. StandsFor(h, f, F, names)
  BY <1>3, <1>7, <1>8, <1>10 DEF StandsFor
<1> QED
  BY <1>7, <1>9, <1>11 DEF h

\* So can the renumbered one.
LEMMA RenumberedStands ==
  ASSUME NEW f, NEW F, NEW names, Formed(f), WellFormed(f), Known(f), CallsLead(f, names), CallsFit(f, F)
  PROVE  LET h == Reorder(f)
         IN /\ StandsFor(h, f, F, names)
            /\ \A name : Mentions(h, name) => Mentions(f, name)
            /\ DOMAIN h.blocks = DOMAIN f.blocks
            /\ \A b \in DOMAIN h.blocks : \A name : ~CallsOf(f, b, name) => ~CallsOf(h, b, name)
<1> DEFINE h == Reorder(f)
<1>1. Renumbered(h, f)
  BY RenumberedOf
<1> HIDE DEF h
<1>2. Formed(h) /\ WellFormed(h) /\ Labels(h) = Labels(f)
  BY <1>1, RenumberedFormed, RenumberedWellFormed, RenumberedPlaces
<1>3. Known(h) /\ \A name : Mentions(h, name) => Mentions(f, name)
  BY <1>2 DEF Known, Mentions
<1>4. /\ CallsLead(h, names) /\ CallsFit(h, F) /\ (ReturnsValue(f) => ReturnsValue(h))
      /\ \A b \in DOMAIN h.blocks : \A name : ~CallsOf(f, b, name) => ~CallsOf(h, b, name)
  BY <1>1, RenumberedCalls
<1>5. h.name = f.name /\ h.nparams = f.nparams /\ DOMAIN h.blocks = DOMAIN f.blocks
  BY <1>1 DEF Renumbered
<1>6. StandsFor(h, f, F, names)
  BY <1>2, <1>3, <1>4, <1>5 DEF StandsFor
<1> QED
  BY <1>3, <1>4, <1>5, <1>6 DEF h

\* What the calls of x fit does not change when h stands for f.
LEMMA FitsStill ==
  ASSUME NEW x, NEW F, NEW f \in F, NEW h, NEW names, StandsFor(h, f, F, names), CallsFit(x, F),
         NEW E, E \subseteq F \cup {h}
  PROVE  CallsFit(x, E)
<1>1. ASSUME NEW inst \in Insns(x), NEW c \in E, inst.op = "call", inst.callee = c.name
      PROVE  Len(inst.args) = c.nparams /\ (inst.dst # NoReg => ReturnsValue(c))
  <2>1. CASE c \in F
    BY <1>1, <2>1 DEF CallsFit
  <2>2. CASE c = h
    <3>1. inst.callee = f.name
      BY <1>1, <2>2 DEF StandsFor
    <3>2. Len(inst.args) = f.nparams /\ (inst.dst # NoReg => ReturnsValue(f))
      BY <1>1, <3>1 DEF CallsFit
    <3> QED
      BY <2>2, <3>2 DEF StandsFor
  <2> QED
    BY <2>1, <2>2
<1> QED
  BY <1>1 DEF CallsFit

-----------------------------------------------------------------------------
(* The steps of the pass *)

\* The elements of a sequence without one.
LEMMA RemovedFacts ==
  ASSUME NEW s, IsSequence(s), NEW k \in 1..Len(s)
  PROVE  LET t == RemoveAt(s, k)
         IN /\ IsSequence(t) /\ Len(t) = Len(s) - 1 /\ DOMAIN t = 1..Len(s) - 1
            /\ \A j \in 1..Len(s) - 1 : t[j] = s[IF j < k THEN j ELSE j + 1]
<1> DEFINE n == Len(s)
           a == SubSeq(s, 1, k - 1)
           c == SubSeq(s, k + 1, n)
           t == a \o c
<1>1. n \in Nat /\ k \in 1..n
  BY SequenceFacts
<1>2. 1 \in Nat \ {0} /\ k - 1 \in Nat /\ k - 1 <= n /\ 1 <= (k - 1) + 1
  BY <1>1
<1>3. /\ IsSequence(a) /\ Len(a) = (k - 1) - 1 + 1
      /\ \A j \in 1..(k - 1) - 1 + 1 : a[j] = s[1 + j - 1]
  <2> DEFINE K == k - 1
  <2>1. K \in Nat /\ K <= n
    BY <1>2
  <2> HIDE DEF K
  <2>2. /\ IsSequence(SubSeq(s, 1, K)) /\ Len(SubSeq(s, 1, K)) = K - 1 + 1
        /\ \A j \in 1..K - 1 + 1 : SubSeq(s, 1, K)[j] = s[1 + j - 1]
    BY <2>1, Part
  <2> QED
    BY <2>2 DEF K
<1>4. /\ IsSequence(c) /\ Len(c) = n - (k + 1) + 1
      /\ \A j \in 1..n - (k + 1) + 1 : c[j] = s[(k + 1) + j - 1]
  <2> DEFINE K == k + 1
  <2>1. K \in Nat \ {0} /\ K <= n + 1
    BY <1>1
  <2> HIDE DEF K
  <2>2. /\ IsSequence(SubSeq(s, K, n)) /\ Len(SubSeq(s, K, n)) = n - K + 1
        /\ \A j \in 1..n - K + 1 : SubSeq(s, K, n)[j] = s[K + j - 1]
    BY <1>1, <2>1, Part
  <2> QED
    BY <2>2 DEF K
<1> HIDE DEF a, c, n
<1>5. /\ Len(a) = k - 1 /\ \A j \in 1..k - 1 : a[j] = s[j]
  <2>1. (k - 1) - 1 + 1 = k - 1 /\ \A j \in 1..k - 1 : 1 + j - 1 = j
    BY <1>1
  <2> QED
    BY <1>3, <2>1
<1>6. /\ Len(c) = n - k /\ \A j \in 1..n - k : c[j] = s[k + j]
  <2>1. n - (k + 1) + 1 = n - k /\ \A j \in 1..n - k : (k + 1) + j - 1 = k + j
    BY <1>1
  <2> QED
    BY <1>4, <2>1
<1>7. IsSequence(t) /\ Len(t) = Len(a) + Len(c)
      /\ (\A j \in 1..Len(a) : t[j] = a[j]) /\ (\A j \in 1..Len(c) : t[Len(a) + j] = c[j])
  <2>1. IsSequence(a) /\ IsSequence(c)
    BY <1>3, <1>4
  <2> QED
    BY <2>1, Joined
<1>8. DOMAIN t = 1..Len(t)
  BY <1>7, SequenceFacts
<1> HIDE DEF t
<1>9. Len(t) = n - 1
  BY <1>1, <1>5, <1>6, <1>7
<1>10. ASSUME NEW j \in 1..n - 1 PROVE t[j] = s[IF j < k THEN j ELSE j + 1]
  <2>1. CASE j < k
    BY <1>1, <1>5, <1>7, <2>1
  <2>2. CASE ~(j < k)
    <3> DEFINE x == j - (k - 1)
    <3>1. x \in 1..n - k /\ (k - 1) + x = j /\ k + x = j + 1
      BY <1>1, <2>2
    <3> HIDE DEF x
    <3>2. t[Len(a) + x] = c[x] /\ c[x] = s[k + x]
      BY <1>6, <1>7, <3>1
    <3> QED
      BY <1>5, <2>2, <3>1, <3>2
  <2> QED
    BY <2>1, <2>2
<1>11. RemoveAt(s, k) = t
  BY DEF RemoveAt, t, a, c, n
<1> QED
  BY <1>7, <1>8, <1>9, <1>10, <1>11 DEF n

\* The function Extract takes out is a cheap one.
LEMMA FirstCheap ==
  ASSUME NEW s, IsSequence(s)
  PROVE  LET k == SelectInSeq(s, IsCheap) IN k # 0 => k \in 1..Len(s) /\ IsCheap(s[k])
<1> DEFINE I == {i \in 1..Len(s) : IsCheap(s[i])}
<1>1. Len(s) \in Nat
  BY SequenceFacts
<1>2. SelectInSeq(s, IsCheap) = IF I # {} THEN Min(I) ELSE 0
  BY DEF SelectInSeq
<1>3. ASSUME I # {} PROVE Min(I) \in I
  <2>1. I \in SUBSET (0..Len(s))
    BY <1>1
  <2> HIDE DEF I
  <2>2. \E m \in I : \A n \in I : m <= n
    BY <1>1, <1>3, <2>1, Least
  <2> QED
    BY <2>2 DEF Min
<1> QED
  BY <1>2, <1>3

\* The programs the pass is given.
LEMMA InitSound == Init => IInv
<1> SUFFICES ASSUME NEW program \in Programs, InitWith(program) PROVE IInv
  BY DEF Init
<1>1. pack = program /\ pc = "extract" /\ Given(program)
  BY ProgramsAssumption DEF InitWith
<1>2. pc # "inline"
  BY <1>1
<1>3. IsSequence(pack) /\ \A j, k \in DOMAIN pack : pack[j].name = pack[k].name => j = k
  BY <1>1 DEF Given
<1>4. Present = ToSet(pack)
  BY <1>2 DEF Present
<1>5. Callable = {g.name : g \in ToSet(pack)}
  BY <1>2 DEF Callable, ToSet
<1>6. ASSUME NEW f \in ToSet(pack)
      PROVE  Sound(f) /\ CallsLead(f, Callable) /\ CallsFit(f, ToSet(pack)) /\ \A name : ~Mentions(f, name)
  <2>1. /\ Formed(f) /\ WellFormed(f)
        /\ CallsLead(f, {g.name : g \in ToSet(pack)}) /\ CallsFit(f, ToSet(pack))
        /\ \A l \in Labels(f) : l = <<l[1], l[2], <<>>>> /\ l[1] # "inline_exit"
    BY <1>1 DEF Given
  <2>2. IsSequence(<<>>) /\ DOMAIN <<>> = {}
    <3>1. <<>> \in Seq({})
      BY EmptySeq
    <3>2. IsSequence(<<>>)
      BY <3>1, AnySequence
    <3> QED
      BY <3>2
  <2>3. ASSUME NEW l \in Labels(f) PROVE l[3] = <<>> /\ IsLabel(l) /\ l[1] # "inline_exit"
    <3>1. l = <<l[1], l[2], <<>>>> /\ l[1] # "inline_exit"
      BY <2>1
    <3>2. l[3] = <<>>
      BY <3>1
    <3> QED
      BY <2>2, <3>1, <3>2 DEF IsLabel
  <2>4. Known(f)
    BY <2>3 DEF Known
  <2>5. \A name : ~Mentions(f, name)
    BY <2>2, <2>3 DEF Mentions
  <2> QED
    BY <1>5, <2>1, <2>4, <2>5 DEF Sound
<1> QED
  BY <1>1, <1>2, <1>3, <1>4, <1>6 DEF IInv, Whole

\* Taking a cheap function out leaves a program whose calls still lead somewhere.
LEMMA ExtractSound ==
  ASSUME IInv, Extract
  PROVE  IInv'
<1> DEFINE k == SelectInSeq(pack, IsCheap)
<1>1. /\ IsSequence(pack) /\ pc = "extract"
      /\ \A i, j \in DOMAIN pack : pack[i].name = pack[j].name => i = j
      /\ \A f \in Present : Sound(f) /\ CallsLead(f, Callable) /\ CallsFit(f, Present)
      /\ \A f \in Present : \A i \in DOMAIN pack : ~Mentions(f, pack[i].name)
  BY DEF IInv, Whole, Extract
<1>2. Len(pack) \in Nat /\ DOMAIN pack = 1..Len(pack)
  BY <1>1, SequenceFacts
<1>3. Present = ToSet(pack) /\ Callable = {pack[i].name : i \in DOMAIN pack}
  BY <1>1 DEF Present, Callable
<1>4. CASE k = 0
  <2>1. pc' = "done" /\ pack' = pack
    BY <1>4 DEF Extract
  <2>2. Present' = Present /\ Callable' = Callable
    BY <1>3, <2>1 DEF Present, Callable
  <2> QED
    BY <1>1, <2>1, <2>2 DEF IInv, Whole
<1>5. CASE k # 0
  <2>1. k \in 1..Len(pack) /\ IsCheap(pack[k])
    BY <1>1, <1>5, FirstCheap
  <2>2. cheap' = pack[k] /\ pack' = RemoveAt(pack, k) /\ cur' = 1 /\ bb' = 1 /\ hint' = -1 /\ pc' = "inline"
    BY <1>5 DEF Extract
  <2> HIDE DEF k
  <2>3. /\ IsSequence(pack') /\ Len(pack') = Len(pack) - 1 /\ DOMAIN pack' = 1..Len(pack) - 1
        /\ \A j \in 1..Len(pack) - 1 : pack'[j] = pack[IF j < k THEN j ELSE j + 1]
    BY <1>1, <2>1, <2>2, RemovedFacts
  <2> DEFINE At0(j) == IF j < k THEN j ELSE j + 1
  <2>4. \A j \in DOMAIN pack' : At0(j) \in DOMAIN pack /\ At0(j) # k /\ pack'[j] = pack[At0(j)]
    BY <1>2, <2>1, <2>3
  <2>5. \A i, j \in DOMAIN pack' : At0(i) = At0(j) => i = j
    BY <1>2, <2>1, <2>3
  <2>6. \A i \in DOMAIN pack : i = k \/ \E j \in DOMAIN pack' : pack'[j] = pack[i]
    <3>1. ASSUME NEW i \in DOMAIN pack, i # k PROVE \E j \in DOMAIN pack' : At0(j) = i
      <4>1. CASE i < k
        <5>1. i \in DOMAIN pack' /\ At0(i) = i
          BY <1>2, <2>1, <2>3, <4>1
        <5> QED
          BY <5>1
      <4>2. CASE i > k
        <5>1. i - 1 \in DOMAIN pack' /\ At0(i - 1) = i
          BY <1>2, <2>1, <2>3, <4>2
        <5> QED
          BY <5>1
      <4> QED
        BY <1>2, <2>1, <3>1, <4>1, <4>2
    <3> HIDE DEF At0
    <3> QED
      BY <2>4, <3>1
  <2> HIDE DEF At0
  <2>7. \A i, j \in DOMAIN pack' : pack'[i].name = pack'[j].name => i = j
    BY <1>1, <2>4, <2>5
  <2>8. k \in DOMAIN pack /\ \A j \in DOMAIN pack' : pack'[j].name # cheap'.name
    BY <1>1, <1>2, <2>1, <2>2, <2>4
  <2>9. Present' = ToSet(pack') \cup {pack[k]} /\ Callable' = {pack'[i].name : i \in DOMAIN pack'} \cup {pack[k].name}
    BY <2>2 DEF Present, Callable
  <2>10. \A f \in Present' : f \in Present
    BY <1>3, <2>4, <2>8, <2>9 DEF ToSet
  <2>11. Callable \subseteq Callable'
    BY <1>3, <2>6, <2>9
  <2>12. ASSUME NEW f \in Present' PROVE Sound(f) /\ CallsLead(f, Callable') /\ CallsFit(f, Present')
    <3>1. Sound(f) /\ CallsLead(f, Callable) /\ CallsFit(f, Present)
      BY <1>1, <2>10
    <3>2. CallsLead(f, Callable')
      BY <2>11, <3>1 DEF CallsLead
    <3>3. CallsFit(f, Present')
      BY <2>10, <3>1 DEF CallsFit
    <3> QED
      BY <3>1, <3>2, <3>3
  <2>13. \A f \in Present' : \A j \in DOMAIN pack' : ~Mentions(f, pack'[j].name)
    BY <1>1, <2>4, <2>10
  <2>14. Whole'
    BY <2>2, <2>3, <2>7, <2>12, <2>13 DEF Whole, Sound
  <2>15. \A f \in Present' : ~Mentions(f, cheap'.name)
    BY <1>1, <2>2, <2>8, <2>10
  <2>16. /\ cur' \in 1..Len(pack') + 1 /\ bb' \in Nat \ {0} /\ hint' \in Int /\ hint' >= -1
    BY <1>2, <2>1, <2>2, <2>3
  <2>17. ~CallsItself(cheap') /\ ~Mentions(cheap', cheap'.name)
    BY <2>1, <2>2, <2>9, <2>15 DEF IsCheap
  <2>18. ASSUME NEW j \in DOMAIN pack'
         PROVE  /\ ~Mentions(pack'[j], cheap'.name) /\ MentionsUpTo(pack'[j], cheap'.name, hint')
                /\ ~(j < cur')
                /\ \A b \in DOMAIN pack'[j].blocks : ~(b < bb')
    <3>1. pack'[j] \in Present'
      BY <2>9 DEF ToSet
    <3>2. ~Mentions(pack'[j], cheap'.name)
      BY <2>15, <3>1
    <3>3. MentionsUpTo(pack'[j], cheap'.name, hint')
      BY <3>2 DEF Mentions, MentionsUpTo
    <3>4. Formed(pack'[j])
      BY <2>12, <3>1 DEF Sound
    <3>5. DOMAIN pack'[j].blocks = 1..Len(pack'[j].blocks) /\ Len(pack'[j].blocks) \in Nat
      BY <3>4, FormedSizes
    <3>6. j \in Nat \ {0}
      BY <1>2, <2>3
    <3> QED
      BY <2>2, <3>2, <3>3, <3>5, <3>6
  <2>19. Searching'
    BY <2>8, <2>16, <2>17, <2>18 DEF Searching
  <2> QED
    BY <2>14, <2>19 DEF IInv
<1> QED
  BY <1>4, <1>5

\* The program with one function replaced by another that can stand for it.
LEMMA Replaced ==
  ASSUME IInv, pc = "inline", cur \in DOMAIN pack, NEW h, StandsFor(h, pack[cur], Present, Callable),
         \A name : Mentions(h, name) => \/ Mentions(pack[cur], name) \/ Mentions(cheap, name) \/ name = cheap.name,
         pack' = [pack EXCEPT ![cur] = h], UNCHANGED <<cheap, pc>>
  PROVE  /\ Whole'
         /\ DOMAIN pack' = DOMAIN pack /\ Len(pack') = Len(pack)
         /\ pack'[cur] = h /\ h.name = pack[cur].name
         /\ \A k \in DOMAIN pack : k # cur => pack'[k] = pack[k]
<1>1. /\ IsSequence(pack)
      /\ \A i, j \in DOMAIN pack : pack[i].name = pack[j].name => i = j
      /\ \A f \in Present : Sound(f) /\ CallsLead(f, Callable) /\ CallsFit(f, Present)
      /\ \A f \in Present : \A i \in DOMAIN pack : ~Mentions(f, pack[i].name)
      /\ \A i \in DOMAIN pack : pack[i].name # cheap.name
  BY DEF IInv, Whole, Searching
<1>2. DOMAIN pack' = DOMAIN pack /\ pack' = [k \in DOMAIN pack |-> pack'[k]]
  OBVIOUS
<1>3. pack'[cur] = h /\ \A k \in DOMAIN pack : k # cur => pack'[k] = pack[k]
  OBVIOUS
<1>4. IsSequence(pack') /\ Len(pack') = Len(pack)
  BY <1>1, <1>2, MappedSequence
<1>5. h.name = pack[cur].name
  BY DEF StandsFor
<1>6. \A k \in DOMAIN pack : pack'[k].name = pack[k].name
  BY <1>3, <1>5
<1>7. Callable' = Callable
  BY <1>2, <1>6 DEF Callable
<1>8. Present' = ToSet(pack') \cup {cheap} /\ Present = ToSet(pack) \cup {cheap}
  BY DEF Present
<1>9. Present' \subseteq Present \cup {h} /\ pack[cur] \in Present /\ cheap \in Present
  BY <1>2, <1>3, <1>8 DEF ToSet
<1>10. ASSUME NEW x \in Present' PROVE Sound(x) /\ CallsLead(x, Callable') /\ CallsFit(x, Present')
  <2>1. Sound(x) /\ CallsLead(x, Callable) /\ CallsFit(x, Present)
    BY <1>1, <1>9 DEF StandsFor, Sound
  <2>2. CallsFit(x, Present')
    <3> DEFINE F == Present
               E == Present'
               names == Callable
               f == pack[cur]
    <3>1. f \in F /\ StandsFor(h, f, F, names) /\ CallsFit(x, F) /\ E \subseteq F \cup {h}
      BY <1>9, <2>1
    <3> HIDE DEF F, E, names, f
    <3>2. CallsFit(x, E)
      BY <3>1, FitsStill
    <3> QED
      BY <3>2 DEF E
  <2> QED
    BY <1>7, <2>1, <2>2
<1>11. ASSUME NEW x \in Present', NEW k \in DOMAIN pack' PROVE ~Mentions(x, pack'[k].name)
  <2>1. k \in DOMAIN pack /\ pack'[k].name = pack[k].name
    BY <1>2, <1>6
  <2>2. CASE x \in Present
    BY <1>1, <2>1, <2>2
  <2>3. CASE x = h
    BY <1>1, <1>9, <2>1, <2>3
  <2> QED
    BY <1>9, <2>2, <2>3
<1>12. \A i, j \in DOMAIN pack' : pack'[i].name = pack'[j].name => i = j
  BY <1>1, <1>2, <1>6
<1>13. pc' \in {"extract", "inline", "done"}
  BY DEF IInv, Whole
<1>14. Whole'
  BY <1>4, <1>10, <1>11, <1>12, <1>13 DEF Whole
<1> QED
  BY <1>2, <1>3, <1>4, <1>5, <1>14

\* The search finds the first block from bb on that calls g, or says there is none.
LEMMA CallBlockFacts ==
  ASSUME NEW f, Formed(f), NEW b \in Nat \ {0}, NEW g
  PROVE  LET B == CallBlock(f, b, g)
         IN /\ B = 0 => \A k \in b..Len(f.blocks) : ~CallsOf(f, k, g.name)
            /\ B > 0 => /\ B \in b..Len(f.blocks) /\ B \in 1..Len(f.blocks)
                        /\ FirstCall(f.blocks[B].insns, g) \in DOMAIN f.blocks[B].insns
                        /\ \A k \in b..B - 1 : ~CallsOf(f, k, g.name)
            /\ B \in Nat
<1> DEFINE N == Len(f.blocks)
           First(k) == FirstCall(f.blocks[k].insns, g)
           with == {k \in b..N : First(k) > 0}
           B == CallBlock(f, b, g)
<1>1. N \in Nat /\ \A k \in 1..N : k \in DOMAIN f.blocks
  BY FormedSizes
<1>2. ASSUME NEW k \in 1..N
      PROVE  /\ First(k) = 0 => ~CallsOf(f, k, g.name)
             /\ First(k) # 0 => First(k) \in DOMAIN f.blocks[k].insns /\ First(k) > 0
  <2> DEFINE s == f.blocks[k].insns
  <2>1. IsSequence(s)
    BY <1>1 DEF Formed
  <2>2. DOMAIN s = 1..Len(s) /\ Len(s) \in Nat
    BY <2>1, SequenceFacts
  <2> HIDE DEF s
  <2>3. /\ FirstCall(s, g) = 0 => \A i \in DOMAIN s : ~(s[i].op = "call" /\ s[i].callee = g.name)
        /\ FirstCall(s, g) # 0 => FirstCall(s, g) \in DOMAIN s
    BY <2>1, FirstSelected
  <2>4. FirstCall(s, g) # 0 => FirstCall(s, g) \in DOMAIN s /\ FirstCall(s, g) > 0
    BY <2>2, <2>3
  <2> QED
    BY <2>3, <2>4 DEF CallsOf, s
<1>3. B = IF with = {} THEN 0 ELSE CHOOSE k \in with : \A j \in with : k <= j
  BY DEF CallBlock
<1>4. with \in SUBSET (0..N) /\ \A k \in with : k \in b..N /\ k \in 1..N
  BY <1>1
<1>5. \A k \in b..N : k \notin with => First(k) = 0
  <2>1. \A k \in b..N : k \in 1..N
    BY <1>1
  <2> HIDE DEF First
  <2>2. \A k \in b..N : First(k) = 0 \/ First(k) > 0
    BY <1>2, <2>1
  <2> QED
    BY <2>2
<1>6. \A k \in with : First(k) > 0
  OBVIOUS
<1> HIDE DEF with, B, N, First
<1>7. CASE with = {}
  <2>1. B = 0
    BY <1>3, <1>7
  <2>2. ASSUME NEW k \in b..N PROVE ~CallsOf(f, k, g.name)
    <3>1. k \in 1..N
      BY <1>1
    <3> QED
      BY <1>2, <1>5, <1>7, <3>1
  <2> QED
    BY <2>1, <2>2 DEF B, N
<1>8. CASE with # {}
  <2>1. \E k \in with : \A j \in with : k <= j
    BY <1>1, <1>4, <1>8, Least
  <2>2. B \in with /\ \A j \in with : B <= j
    BY <1>3, <1>8, <2>1
  <2>3. B \in b..N /\ B \in 1..N /\ First(B) > 0 /\ First(B) # 0
    BY <1>4, <1>6, <2>2
  <2>4. First(B) \in DOMAIN f.blocks[B].insns
    BY <1>2, <2>3
  <2>5. ASSUME NEW k \in b..B - 1 PROVE ~CallsOf(f, k, g.name)
    <3>1. k \in b..N /\ k \in 1..N /\ ~(B <= k)
      BY <1>1, <2>3
    <3>2. First(k) = 0
      BY <1>5, <2>2, <3>1
    <3> QED
      BY <1>2, <3>1, <3>2
  <2>6. B > 0 /\ B \in Nat
    BY <1>1, <2>3
  <2> QED
    BY <2>3, <2>4, <2>5, <2>6 DEF B, N, First
<1> QED
  BY <1>7, <1>8

\* After an inlined call.
LEMMA InlineCallSound ==
  ASSUME IInv, InlineCall
  PROVE  IInv'
<1> DEFINE f == pack[cur]
           g == cheap
           n == hint + 1
           b == CallBlock(f, bb, g)
           i == FirstCall(f.blocks[b].insns, g)
           h == InlineAt(f, b, i, g, n)
<1>1. /\ Whole /\ Searching /\ pc = "inline"
      /\ cur \in 1..Len(pack) + 1 /\ cur <= Len(pack) /\ bb \in Nat \ {0} /\ hint \in Int /\ hint >= -1
  BY DEF IInv, InlineCall, Searching
<1>2. IsSequence(pack) /\ Len(pack) \in Nat /\ DOMAIN pack = 1..Len(pack)
  BY <1>1, SequenceFacts DEF Whole
<1>3. cur \in DOMAIN pack /\ n \in Nat
  BY <1>1, <1>2
<1>4. Present = ToSet(pack) \cup {cheap} /\ f \in Present /\ g \in Present
  BY <1>1, <1>3 DEF Present, ToSet
<1>5. /\ Formed(f) /\ WellFormed(f) /\ Known(f) /\ CallsLead(f, Callable) /\ CallsFit(f, Present)
      /\ Formed(g) /\ WellFormed(g) /\ Known(g) /\ CallsLead(g, Callable) /\ CallsFit(g, Present)
  BY <1>1, <1>4 DEF Whole, Sound
<1>6. /\ b > 0 /\ hint' = n /\ pack' = [pack EXCEPT ![cur] = h] /\ bb' = NextBlock(b, g)
      /\ UNCHANGED <<before, cheap, cur, pc>>
  <2>1. LET B == CallBlock(pack[cur], bb, cheap)
        IN /\ B > 0
           /\ hint' = hint + 1
           /\ pack' = [pack EXCEPT ![cur] =
                         InlineAt(@, B, FirstCall(@.blocks[B].insns, cheap), cheap, hint + 1)]
           /\ bb' = NextBlock(B, cheap)
    BY DEF InlineCall
  <2>2. UNCHANGED <<before, cheap, cur, pc>>
    BY DEF InlineCall
  <2> QED
    BY <2>1, <2>2
<1> HIDE DEF h
<1>7. /\ b \in bb..Len(f.blocks) /\ b \in 1..Len(f.blocks) /\ i \in DOMAIN f.blocks[b].insns
      /\ \A k \in bb..b - 1 : ~CallsOf(f, k, g.name)
  <2> HIDE DEF f, g
  <2>1. LET B == CallBlock(f, bb, g)
        IN /\ B = 0 => \A k \in bb..Len(f.blocks) : ~CallsOf(f, k, g.name)
           /\ B > 0 => /\ B \in bb..Len(f.blocks) /\ B \in 1..Len(f.blocks)
                       /\ FirstCall(f.blocks[B].insns, g) \in DOMAIN f.blocks[B].insns
                       /\ \A k \in bb..B - 1 : ~CallsOf(f, k, g.name)
           /\ B \in Nat
    BY <1>1, <1>5, CallBlockFacts
  <2> QED
    BY <1>6, <2>1
<1> HIDE DEF b
<1>8. Len(f.blocks) \in Nat /\ DOMAIN f.blocks = 1..Len(f.blocks) /\ IsSequence(f.blocks[b].insns)
      /\ Len(f.blocks[b].insns) \in Nat /\ DOMAIN f.blocks[b].insns = 1..Len(f.blocks[b].insns)
  <2>1. Len(f.blocks) \in Nat /\ DOMAIN f.blocks = 1..Len(f.blocks)
    BY <1>5, FormedSizes
  <2>2. IsSequence(f.blocks[b].insns)
    BY <1>5, <1>7, <2>1 DEF Formed
  <2> QED
    BY <2>1, <2>2, SequenceFacts
<1>9. /\ f.blocks[b].insns[i].op = "call" /\ f.blocks[b].insns[i].callee = g.name
      /\ \A j \in 1..i - 1 : ~(f.blocks[b].insns[j].op = "call" /\ f.blocks[b].insns[j].callee = g.name)
  <2> DEFINE s == f.blocks[b].insns
  <2>1. IsSequence(s) /\ i = FirstCall(s, g) /\ i # 0
    BY <1>7, <1>8
  <2> HIDE DEF s, f, g
  <2>2. FirstCall(s, g) # 0 => /\ FirstCall(s, g) \in DOMAIN s
                               /\ s[FirstCall(s, g)].op = "call" /\ s[FirstCall(s, g)].callee = g.name
                               /\ \A j \in 1..FirstCall(s, g) - 1 : ~(s[j].op = "call" /\ s[j].callee = g.name)
    BY <2>1, FirstSelected
  <2>3. /\ s[i].op = "call" /\ s[i].callee = g.name
        /\ \A j \in 1..i - 1 : ~(s[j].op = "call" /\ s[j].callee = g.name)
    BY <2>1, <2>2
  <2> QED
    BY <2>3 DEF s
<1>10. \A k \in 1..b - 1 : ~CallsOf(f, k, g.name)
  <2>1. \A k \in DOMAIN f.blocks : k < bb => ~CallsOf(f, k, g.name)
    BY <1>1, <1>3 DEF Searching
  <2>2. \A k \in 1..b - 1 : k \in DOMAIN f.blocks /\ (k < bb \/ k \in bb..b - 1)
    BY <1>1, <1>7, <1>8
  <2> QED
    BY <1>7, <2>1, <2>2
<1>11. TheCall(f, b, i, g)
  <2>1. f.blocks[b].insns[i] \in Insns(f)
    BY <1>7, <1>8, PositionFacts
  <2>2. Len(f.blocks[b].insns[i].args) = g.nparams /\ (f.blocks[b].insns[i].dst # NoReg => ReturnsValue(g))
    BY <1>4, <1>5, <1>9, <2>1 DEF CallsFit
  <2> QED
    BY <1>7, <1>8, <1>9, <2>2 DEF TheCall
<1>12. /\ ~CallsItself(g) /\ ~Mentions(g, g.name) /\ MentionsUpTo(f, g.name, n - 1)
  <2>1. n - 1 = hint
    BY <1>1
  <2> QED
    BY <1>1, <1>3, <2>1 DEF Searching
<1> HIDE DEF i, f, g, n
<1>13. /\ StandsFor(h, f, Present, Callable)
       /\ \A name : name # g.name /\ Mentions(h, name) => Mentions(f, name) \/ Mentions(g, name)
       /\ MentionsUpTo(h, g.name, n)
       /\ \A K \in DOMAIN h.blocks : K < NextBlock(b, g) => ~CallsOf(h, K, g.name)
  <2> DEFINE F == Present
             names == Callable
  <2>1. CallsLead(f, names) /\ CallsFit(f, F) /\ CallsLead(g, names) /\ CallsFit(g, F)
    BY <1>5
  <2> HIDE DEF F, names
  <2>2. LET x == InlineAt(f, b, i, g, n)
        IN /\ StandsFor(x, f, F, names)
           /\ \A name : name # g.name /\ Mentions(x, name) => Mentions(f, name) \/ Mentions(g, name)
           /\ MentionsUpTo(x, g.name, n)
           /\ \A K \in DOMAIN x.blocks : K < NextBlock(b, g) => ~CallsOf(x, K, g.name)
    BY <1>3, <1>5, <1>9, <1>10, <1>11, <1>12, <2>1, InlinedStands
  <2> QED
    BY <2>2 DEF h, F, names
<1>14. /\ Whole'
       /\ DOMAIN pack' = DOMAIN pack /\ Len(pack') = Len(pack)
       /\ pack'[cur] = h /\ h.name = f.name
       /\ \A k \in DOMAIN pack : k # cur => pack'[k] = pack[k]
  <2>1. StandsFor(h, pack[cur], Present, Callable)
    BY <1>13 DEF f
  <2>2. \A name : Mentions(h, name) => \/ Mentions(pack[cur], name) \/ Mentions(cheap, name) \/ name = cheap.name
    BY <1>13 DEF f, g
  <2>3. /\ Whole'
        /\ DOMAIN pack' = DOMAIN pack /\ Len(pack') = Len(pack)
        /\ pack'[cur] = h /\ h.name = pack[cur].name
        /\ \A k \in DOMAIN pack : k # cur => pack'[k] = pack[k]
    BY <1>1, <1>3, <1>6, <2>1, <2>2, Replaced
  <2> QED
    BY <2>3 DEF f
<1>15. /\ cur' \in 1..Len(pack') + 1 /\ bb' \in Nat \ {0} /\ hint' \in Int /\ hint' >= -1
  <2> DEFINE m == Len(g.blocks)
             N == Len(f.blocks)
  <2>1. m \in Nat /\ N \in Nat /\ b \in 1..N
    BY <1>5, <1>7, <1>8, FormedSizes
  <2>2. bb' = b + m + 1
    BY <1>6 DEF NextBlock
  <2> HIDE DEF m, N
  <2>3. bb' \in Nat \ {0}
    BY <2>1, <2>2
  <2>4. hint' \in Int /\ hint' >= -1
    BY <1>3, <1>6
  <2>5. cur' = cur /\ Len(pack') = Len(pack)
    BY <1>6, <1>14
  <2>6. cur' \in 1..Len(pack') + 1
    BY <1>1, <2>5
  <2> QED
    BY <2>3, <2>4, <2>6
<1>16. \A k \in DOMAIN pack' : pack'[k].name # cheap'.name
  BY <1>1, <1>3, <1>6, <1>14 DEF Searching, f
<1>17. ASSUME NEW k \in DOMAIN pack'
       PROVE  /\ k > cur' => ~Mentions(pack'[k], cheap'.name)
              /\ k = cur' => MentionsUpTo(pack'[k], cheap'.name, hint')
              /\ \A c \in DOMAIN pack'[k].blocks : k < cur' \/ (k = cur' /\ c < bb') => ~CallsOf(pack'[k], c, cheap'.name)
  <2>1. CASE k = cur
    BY <1>1, <1>6, <1>13, <1>14, <2>1 DEF g
  <2>2. CASE k # cur
    <3>1. pack'[k] = pack[k] /\ k \in DOMAIN pack
      BY <1>14, <2>2
    <3> QED
      BY <1>1, <1>6, <2>2, <3>1 DEF Searching
  <2> QED
    BY <2>1, <2>2
<1>18. Searching'
  BY <1>1, <1>6, <1>15, <1>16, <1>17 DEF Searching
<1> QED
  BY <1>14, <1>18 DEF IInv

\* After the last call in a function.
LEMMA NextFunctionSound ==
  ASSUME IInv, NextFunction
  PROVE  IInv'
<1> DEFINE f == pack[cur]
           h == IF hint >= 0 THEN Reorder(f) ELSE f
<1>1. /\ Whole /\ Searching /\ pc = "inline"
      /\ cur \in 1..Len(pack) + 1 /\ cur <= Len(pack) /\ bb \in Nat \ {0}
  BY DEF IInv, NextFunction, Searching
<1>2. IsSequence(pack) /\ Len(pack) \in Nat /\ DOMAIN pack = 1..Len(pack)
  BY <1>1, SequenceFacts DEF Whole
<1>3. cur \in DOMAIN pack
  BY <1>1, <1>2
<1>4. f \in Present
  BY <1>1, <1>3 DEF Present, ToSet
<1>5. Formed(f) /\ WellFormed(f) /\ Known(f) /\ CallsLead(f, Callable) /\ CallsFit(f, Present)
  BY <1>1, <1>4 DEF Whole, Sound
<1>6. /\ CallBlock(f, bb, cheap) = 0 /\ cur' = cur + 1 /\ bb' = 1 /\ hint' = -1
      /\ pack' = [pack EXCEPT ![cur] = h] /\ UNCHANGED <<cheap, pc>>
  <2>1. /\ CallBlock(pack[cur], bb, cheap) = 0 /\ cur' = cur + 1 /\ bb' = 1 /\ hint' = -1
        /\ pack' = (IF hint >= 0 THEN [pack EXCEPT ![cur] = Reorder(@)] ELSE pack) /\ UNCHANGED <<cheap, pc>>
    BY DEF NextFunction
  <2>2. pack = [k \in DOMAIN pack |-> pack[k]]
    BY <1>2, SequenceFacts
  <2>3. [pack EXCEPT ![cur] = f] = pack
    BY <1>3, <2>2
  <2>4. pack' = [pack EXCEPT ![cur] = h]
    BY <2>1, <2>3
  <2> QED
    BY <2>1, <2>4
<1>7. \A b \in DOMAIN f.blocks : ~CallsOf(f, b, cheap.name)
  <2> DEFINE g == cheap
  <2>1. /\ CallBlock(f, bb, g) = 0 => \A k \in bb..Len(f.blocks) : ~CallsOf(f, k, g.name)
    <3> HIDE DEF f, g
    <3> QED
      BY <1>1, <1>5, CallBlockFacts
  <2>2. \A b \in DOMAIN f.blocks : b < bb => ~CallsOf(f, b, g.name)
    BY <1>1, <1>3 DEF Searching
  <2>3. \A b \in DOMAIN f.blocks : b < bb \/ b \in bb..Len(f.blocks)
    <3>1. DOMAIN f.blocks = 1..Len(f.blocks) /\ Len(f.blocks) \in Nat
      BY <1>5, FormedSizes
    <3> QED
      BY <1>1, <3>1
  <2> QED
    BY <1>6, <2>1, <2>2, <2>3
<1>8. /\ StandsFor(h, f, Present, Callable)
      /\ \A name : Mentions(h, name) => Mentions(f, name)
      /\ \A b \in DOMAIN h.blocks : ~CallsOf(h, b, cheap.name)
  <2> DEFINE F == Present
             names == Callable
  <2>1. CallsLead(f, names) /\ CallsFit(f, F)
    BY <1>5
  <2>2. CASE hint >= 0
    <3>1. h = Reorder(f)
      BY <2>2
    <3> HIDE DEF h, f, F, names
    <3>2. LET x == Reorder(f)
          IN /\ StandsFor(x, f, F, names)
             /\ \A name : Mentions(x, name) => Mentions(f, name)
             /\ DOMAIN x.blocks = DOMAIN f.blocks
             /\ \A b \in DOMAIN x.blocks : \A name : ~CallsOf(f, b, name) => ~CallsOf(x, b, name)
      BY <1>5, <2>1, RenumberedStands
    <3>3. /\ StandsFor(h, f, F, names)
          /\ \A name : Mentions(h, name) => Mentions(f, name)
          /\ DOMAIN h.blocks = DOMAIN f.blocks
          /\ \A b \in DOMAIN h.blocks : \A name : ~CallsOf(f, b, name) => ~CallsOf(h, b, name)
      BY <3>1, <3>2
    <3> QED
      BY <1>7, <3>3 DEF F, names
  <2>3. CASE ~(hint >= 0)
    <3>1. h = f
      BY <2>3
    <3> HIDE DEF h, f, F, names
    <3>2. StandsFor(h, f, F, names)
      BY <1>5, <2>1, <3>1 DEF StandsFor
    <3> QED
      BY <1>7, <3>1, <3>2 DEF F, names
  <2> QED
    BY <2>2, <2>3
<1> HIDE DEF h
<1>9. /\ Whole'
      /\ DOMAIN pack' = DOMAIN pack /\ Len(pack') = Len(pack)
      /\ pack'[cur] = h /\ h.name = f.name
      /\ \A k \in DOMAIN pack : k # cur => pack'[k] = pack[k]
  BY <1>1, <1>3, <1>6, <1>8, Replaced
<1>10. cur' \in 1..Len(pack') + 1 /\ bb' \in Nat \ {0} /\ hint' \in Int /\ hint' >= -1
  BY <1>2, <1>3, <1>6, <1>9
<1>11. \A k \in DOMAIN pack' : pack'[k].name # cheap'.name
  BY <1>1, <1>3, <1>6, <1>9 DEF Searching
<1>12. ASSUME NEW k \in DOMAIN pack'
       PROVE  /\ k > cur' => ~Mentions(pack'[k], cheap'.name)
              /\ k = cur' => MentionsUpTo(pack'[k], cheap'.name, hint')
              /\ \A c \in DOMAIN pack'[k].blocks : k < cur' \/ (k = cur' /\ c < bb') => ~CallsOf(pack'[k], c, cheap'.name)
  <2>1. k \in 1..Len(pack) /\ cur \in 1..Len(pack) /\ cur' = cur + 1 /\ cheap' = cheap /\ bb' = 1
    BY <1>2, <1>3, <1>6, <1>9
  <2>2. CASE k = cur
    BY <1>2, <1>8, <1>9, <2>1, <2>2
  <2>3. CASE k < cur
    <3>1. pack'[k] = pack[k] /\ k \in DOMAIN pack
      BY <1>9, <2>3
    <3>2. \A c \in DOMAIN pack[k].blocks : ~CallsOf(pack[k], c, cheap.name)
      BY <1>1, <2>3, <3>1 DEF Searching
    <3> QED
      BY <1>2, <2>1, <2>3, <3>1, <3>2
  <2>4. CASE k > cur
    <3>1. pack'[k] = pack[k] /\ k \in DOMAIN pack
      BY <1>9, <2>4
    <3>2. ~Mentions(pack[k], cheap.name)
      BY <1>1, <2>4, <3>1 DEF Searching
    <3>3. MentionsUpTo(pack[k], cheap.name, hint')
      BY <3>2 DEF Mentions, MentionsUpTo
    <3>4. \A c \in DOMAIN pack[k].blocks : ~(c < bb')
      <4>1. pack[k] \in Present
        BY <1>1, <3>1 DEF Present, ToSet
      <4>2. Formed(pack[k])
        BY <1>1, <4>1 DEF Whole, Sound
      <4>3. DOMAIN pack[k].blocks = 1..Len(pack[k].blocks) /\ Len(pack[k].blocks) \in Nat
        BY <4>2, FormedSizes
      <4> QED
        BY <2>1, <4>3
    <3> QED
      BY <1>2, <2>1, <2>4, <3>1, <3>2, <3>3, <3>4
  <2> QED
    BY <1>2, <2>1, <2>2, <2>3, <2>4
<1>13. Searching'
  BY <1>1, <1>6, <1>10, <1>11, <1>12 DEF Searching
<1> QED
  BY <1>9, <1>13 DEF IInv

\* Once no call is left of the cheap function, it is gone.
LEMMA NextCheapSound ==
  ASSUME IInv, NextCheap
  PROVE  IInv'
<1>1. /\ Whole /\ Searching /\ pc = "inline" /\ pc' = "extract" /\ pack' = pack
      /\ cur \in 1..Len(pack) + 1 /\ cur > Len(pack)
  BY DEF IInv, NextCheap, Searching
<1>2. IsSequence(pack) /\ Len(pack) \in Nat /\ DOMAIN pack = 1..Len(pack)
  BY <1>1, SequenceFacts DEF Whole
<1>3. Present' = ToSet(pack) /\ Present' \subseteq Present /\ Callable' = {pack[k].name : k \in DOMAIN pack}
  BY <1>1 DEF Present, Callable
<1>4. Callable = Callable' \cup {cheap.name}
  BY <1>1, <1>3 DEF Callable
<1>5. ASSUME NEW x \in Present' PROVE Sound(x) /\ CallsLead(x, Callable') /\ CallsFit(x, Present')
  <2>1. Sound(x) /\ CallsLead(x, Callable) /\ CallsFit(x, Present)
    BY <1>1, <1>3 DEF Whole
  <2>2. PICK k \in DOMAIN pack : x = pack[k]
    BY <1>3 DEF ToSet
  <2>3. k < cur
    BY <1>1, <1>2
  <2>4. \A b \in DOMAIN x.blocks : ~CallsOf(x, b, cheap.name)
    BY <1>1, <2>2, <2>3 DEF Searching
  <2>5. ASSUME NEW inst \in Insns(x), inst.op = "call" PROVE inst.callee \in Callable'
    <3>1. inst.callee # cheap.name
      BY <2>4, <2>5, PositionFacts DEF CallsOf
    <3> QED
      BY <1>4, <2>1, <2>5, <3>1 DEF CallsLead
  <2>6. CallsLead(x, Callable')
    BY <2>5 DEF CallsLead
  <2>7. CallsFit(x, Present')
    BY <1>3, <2>1 DEF CallsFit
  <2> QED
    BY <2>1, <2>6, <2>7
<1>6. Whole'
  BY <1>1, <1>3, <1>5 DEF Whole
<1> QED
  BY <1>1, <1>6 DEF IInv

-----------------------------------------------------------------------------
(* The theorems *)

\* The invariant says more of the blocks than is asked of them.
LEMMA BlocksFollow == IInv => WellFormedBlocks
<1> SUFFICES ASSUME IInv, NEW k \in DOMAIN pack PROVE WellFormed(pack[k]) /\ CallsLead(pack[k], Callable)
  BY DEF WellFormedBlocks
<1>1. pack[k] \in Present
  BY DEF Present, ToSet
<1> QED
  BY <1>1 DEF IInv, Whole, Sound

\* The state of the pass for every program it can be given and every threshold:
\* the functions are formed as they must be, a call fits what it calls, and while
\* a function is inlined (inline_func) no call of it is left where the search has
\* been, the labels made so far name it with the numbers used so far, and those of
\* the functions still to be searched do not name it.
THEOREM InlineStateInvariant == Spec => []IInv
<1>1. Init => IInv
  BY InitSound
<1>2. IInv /\ [Next]_vars => IInv'
  <2> SUFFICES ASSUME IInv, [Next]_vars PROVE IInv'
    OBVIOUS
  <2>1. CASE Extract
    BY <2>1, ExtractSound
  <2>2. CASE InlineCall
    BY <2>2, InlineCallSound
  <2>3. CASE NextFunction
    BY <2>3, NextFunctionSound
  <2>4. CASE NextCheap
    BY <2>4, NextCheapSound
  <2>5. CASE UNCHANGED vars
    BY <2>5 DEF vars, IInv, Whole, Searching, Present, Callable
  <2> QED
    BY <2>1, <2>2, <2>3, <2>4, <2>5 DEF Next
<1> QED
  BY <1>1, <1>2, PTL DEF Spec

\* Whatever program the pass is given and whatever the threshold: after every
\* inlined call the labels of a function are unique, its branches and calls lead
\* somewhere, each phi has one income per predecessor, no edge is critical, and a
\* register is written, in the order of the blocks, before it is read.
THEOREM InlinedBlocksWellFormed == Spec => []WellFormedBlocks
<1>1. IInv => WellFormedBlocks
  BY BlocksFollow
<1> QED
  BY <1>1, InlineStateInvariant, PTL
=============================================================================
