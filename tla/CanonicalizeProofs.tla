------------------------- MODULE CanonicalizeProofs -------------------------
(***************************************************************************)
(* The rewriting passes, for functions of every length over every set of   *)
(* immediates: nothing is left undefined, the value the sink sees does not *)
(* change, and what is left by eliminate_deadcode is needed.               *)
(*                                                                         *)
(* The registers of the function before the passes have values, one        *)
(* valuation for each way to enter the blocks.  Every step rewrites an     *)
(* instruction to one that this same valuation satisfies.                  *)
(***************************************************************************)
EXTENDS Canonicalize, ProofLibrary, SequenceTheorems

\* Operands that may occur before register r is defined, immediates as large as
\* constant_fold makes them.
Below(r) == {Imm(n) : n \in Int} \cup {Reg(q) : q \in 1..r - 1}
Args(r) == [1..1 -> Below(r)] \cup [1..2 -> Below(r)]
Inst(r) ==
  {inst \in [op : Ops \cup {"phi"}, args : Args(r)] :
     inst.op # "phi" => inst.args \in [1..2 -> Below(r)]}

CodeType(c) == DOMAIN c \subseteq Regs /\ \A r \in DOMAIN c : c[r] \in Inst(r)
Removed == {p \in Regs : IsSingle(orig.code[p])}

Type ==
  /\ orig.code \in [Regs -> UNION {Inst(r) : r \in Regs}] /\ CodeType(orig.code)
  /\ orig.sink \in Below(NumRegs + 1)
  /\ code = [r \in DOMAIN code |-> code[r]] /\ CodeType(code)
  /\ sink \in Below(NumRegs + 1)
  /\ useMap \in Seq(Regs \X Below(NumRegs + 1))
  /\ \A k \in 1..Len(useMap) :
       useMap[k][1] \in Removed /\ useMap[k][2] \in Below(useMap[k][1])
  /\ cursor \in 1..NumRegs + 1
  /\ pc \in {"phi", "mark", "fold", "done"}

\* While eliminate_single_phi collects, the phis before the cursor have gone
\* into use_map; once it has rewritten the uses, none is undefined.
Collected ==
  /\ pc = "phi" =>
       /\ DOMAIN code = {r \in Regs : r < cursor => r \notin Removed}
       /\ \A r \in DOMAIN code : code[r] = orig.code[r]
       /\ sink = orig.sink
       /\ \A p \in Removed : p < cursor => \E k \in 1..Len(useMap) : useMap[k][1] = p
       /\ \A k \in 1..Len(useMap), p \in Removed : useMap[k][2] # Reg(p)
  /\ pc # "phi" => AllUses \subseteq DOMAIN code

\* What the marking of useful instructions has reached.
Marked ==
  pc = "mark" =>
    /\ useful \subseteq DOMAIN code /\ worklist \subseteq DOMAIN code
    /\ RegsIn(<<sink>>) \subseteq useful \cup worklist
    /\ \A r \in useful : RegsIn(code[r].args) \subseteq useful \cup worklist
    /\ \A r \in useful \cup worklist : Needs(code, sink, r)

\* A valuation of the registers satisfies the instructions of c.
Satisfies(v, c, arm) == \A r \in DOMAIN c : v[r] = Result(c[r], v, arm)
Agrees(v, arm) ==
  /\ Satisfies(v, code, arm)
  /\ OfOperand(v, sink) = OfOperand(v, orig.sink)
  /\ \A k \in 1..Len(useMap) : v[useMap[k][1]] = OfOperand(v, useMap[k][2])
Meant ==
  \A arm \in {1, 2}, v \in [Regs -> Int] : Satisfies(v, orig.code, arm) => Agrees(v, arm)

NoChainedPhis == \A p, q \in Removed : orig.code[p].args[1] # Reg(q)

IInv == Type /\ NoChainedPhis /\ Collected /\ Marked /\ Meant

-----------------------------------------------------------------------------
(* Operands *)

LEMMA OperandKinds ==
  /\ \A n : IsImm(Imm(n)) /\ ~IsReg(Imm(n)) /\ Imm(n)[2] = n
  /\ \A r : IsReg(Reg(r)) /\ ~IsImm(Reg(r)) /\ Reg(r)[2] = r
  /\ \A n, r : Imm(n) # Reg(r)
  /\ \A q, r : Reg(q) = Reg(r) => q = r
BY DEF IsImm, IsReg, Imm, Reg

LEMMA BelowMore ==
  ASSUME NEW q \in Int, NEW r \in Int, q <= r
  PROVE  Below(q) \subseteq Below(r)
BY DEF Below

LEMMA OperandValue ==
  ASSUME NEW r \in Regs \cup {NumRegs + 1}, NEW o \in Below(r), NEW v \in [Regs -> Int]
  PROVE  OfOperand(v, o) \in Int
<1>1. CASE o \in {Imm(n) : n \in Int}
  BY <1>1, OperandKinds DEF OfOperand
<1>2. CASE o \in {Reg(q) : q \in 1..r - 1}
  <2>1. PICK q \in 1..r - 1 : o = Reg(q)
    BY <1>2
  <2>2. q \in Regs
    BY CanonicalizeAssumption DEF Regs
  <2> QED
    BY <2>1, <2>2, OperandKinds DEF OfOperand
<1> QED
  BY <1>1, <1>2 DEF Below

\* The shape of an instruction.
LEMMA InstFacts ==
  ASSUME NEW r, NEW inst \in Inst(r)
  PROVE  /\ inst.op \in {"phi", "add", "sub", "mul"}
         /\ inst.args \in Args(r)
         /\ Len(inst.args) \in {1, 2} /\ DOMAIN inst.args = 1..Len(inst.args)
         /\ inst.op # "phi" => Len(inst.args) = 2
         /\ \A j \in DOMAIN inst.args : inst.args[j] \in Below(r)
         /\ inst = [op |-> inst.op, args |-> inst.args]
<1>1. inst \in [op : Ops \cup {"phi"}, args : Args(r)]
  BY DEF Inst
<1>2. inst.op \in {"phi", "add", "sub", "mul"}
  BY <1>1, CanonicalizeAssumption
<1>3. inst.args \in Args(r)
  BY <1>1
<1>4. ASSUME NEW n \in {1, 2}, NEW a \in [1..n -> Below(r)]
      PROVE  Len(a) = n /\ DOMAIN a = 1..n
  BY <1>4
<1>5. Len(inst.args) \in {1, 2} /\ DOMAIN inst.args = 1..Len(inst.args)
  BY <1>3, <1>4 DEF Args
<1>6. inst.op # "phi" => Len(inst.args) = 2
  BY <1>4 DEF Inst
<1>7. \A j \in DOMAIN inst.args : inst.args[j] \in Below(r)
  BY <1>3 DEF Args
<1>8. inst = [op |-> inst.op, args |-> inst.args]
  BY <1>1
<1> QED
  BY <1>2, <1>3, <1>5, <1>6, <1>7, <1>8

\* The operand an instruction reads.
LEMMA ReadsArgs ==
  ASSUME NEW r, NEW inst \in Inst(r), NEW arm \in {1, 2}
  PROVE  /\ inst.op = "phi" => (IF Len(inst.args) = 1 THEN 1 ELSE arm) \in DOMAIN inst.args
         /\ inst.op # "phi" => 1 \in DOMAIN inst.args /\ 2 \in DOMAIN inst.args
BY InstFacts

LEMMA ResultValue ==
  ASSUME NEW r \in Regs, NEW inst \in Inst(r), NEW arm \in {1, 2}, NEW v \in [Regs -> Int]
  PROVE  Result(inst, v, arm) \in Int
<1>1. \A j \in DOMAIN inst.args : OfOperand(v, inst.args[j]) \in Int
  BY InstFacts, OperandValue
<1>2. CASE inst.op = "phi"
  BY <1>1, <1>2, ReadsArgs DEF Result
<1>3. CASE inst.op # "phi"
  <2>1. PICK x \in Int, y \in Int : x = OfOperand(v, inst.args[1]) /\ y = OfOperand(v, inst.args[2])
    BY <1>1, <1>3, ReadsArgs
  <2>2. Apply(inst.op, x, y) \in Int
    BY <1>3, InstFacts DEF Apply
  <2> QED
    BY <1>3, <2>1, <2>2 DEF Result
<1> QED
  BY <1>2, <1>3

\* Two instructions of the same kind whose operands have the same values have
\* the same result.
LEMMA SameResult ==
  ASSUME NEW r, NEW s, NEW a \in Inst(r), NEW b \in Inst(s), NEW arm \in {1, 2}, NEW v, NEW w,
         a.op = b.op, DOMAIN a.args = DOMAIN b.args,
         \A j \in DOMAIN a.args : OfOperand(v, a.args[j]) = OfOperand(w, b.args[j])
  PROVE  Result(a, v, arm) = Result(b, w, arm)
<1>1. Len(a.args) = Len(b.args)
  BY InstFacts
<1>2. CASE a.op = "phi"
  BY <1>1, <1>2, ReadsArgs DEF Result
<1>3. CASE a.op # "phi"
  BY <1>3, ReadsArgs DEF Result
<1> QED
  BY <1>2, <1>3

-----------------------------------------------------------------------------
(* Valuations *)

\* Without cycles every function has a valuation: each register is defined by
\* smaller ones.
LEMMA ValuationExists ==
  ASSUME NEW c, DOMAIN c = Regs, CodeType(c), NEW arm \in {1, 2}
  PROVE  \E v \in [Regs -> Int] : Satisfies(v, c, arm)
<1> DEFINE D == {n \in 0..NumRegs : \E v \in [Regs -> Int] : \A r \in 1..n : v[r] = Result(c[r], v, arm)}
<1>0. NumRegs \in Nat /\ Regs = 1..NumRegs
  BY CanonicalizeAssumption DEF Regs
<1>1. 0 \in D
  <2> DEFINE v == [r \in Regs |-> 0]
  <2>1. v \in [Regs -> Int] /\ \A r \in 1..0 : v[r] = Result(c[r], v, arm)
    OBVIOUS
  <2> HIDE DEF v
  <2> QED
    BY <1>0, <2>1
<1>2. ASSUME NEW n \in 0..NumRegs - 1, n \in D PROVE n + 1 \in D
  <2>1. PICK v \in [Regs -> Int] : \A r \in 1..n : v[r] = Result(c[r], v, arm)
    BY <1>2
  <2> DEFINE w == [v EXCEPT ![n + 1] = Result(c[n + 1], v, arm)]
  <2>2. n + 1 \in Regs /\ c[n + 1] \in Inst(n + 1)
    BY <1>0 DEF CodeType
  <2>3. w \in [Regs -> Int] /\ w[n + 1] = Result(c[n + 1], v, arm) /\ \A r \in 1..n : w[r] = v[r]
    BY <1>0, <2>2, ResultValue
  <2> HIDE DEF w
  <2>4. ASSUME NEW r \in 1..n + 1 PROVE Result(c[r], w, arm) = Result(c[r], v, arm)
    <3>1. r \in Regs /\ c[r] \in Inst(r)
      BY <1>0 DEF CodeType
    <3>2. ASSUME NEW o \in Below(r) PROVE OfOperand(w, o) = OfOperand(v, o)
      <4>1. CASE o \in {Imm(k) : k \in Int}
        BY <4>1, OperandKinds DEF OfOperand
      <4>2. CASE o \in {Reg(q) : q \in 1..r - 1}
        BY <2>3, <4>2, OperandKinds DEF OfOperand
      <4> QED
        BY <4>1, <4>2 DEF Below
    <3> QED
      BY <3>1, <3>2, InstFacts, SameResult
  <2>5. \A r \in 1..n + 1 : w[r] = Result(c[r], w, arm)
    BY <2>1, <2>3, <2>4
  <2>6. n + 1 \in 0..NumRegs
    BY <1>0
  <2> QED
    BY <2>3, <2>5, <2>6
<1>3. \A n \in 0..NumRegs : n \in D
  <2> HIDE DEF D
  <2> QED
    BY <1>0, <1>1, <1>2, AllUpTo
<1>4. PICK v \in [Regs -> Int] : \A r \in 1..NumRegs : v[r] = Result(c[r], v, arm)
  BY <1>0, <1>3
<1> QED
  BY <1>0, <1>4 DEF Satisfies

\* In a function that uses nothing undefined, Value is what any valuation says.
LEMMA ValueIs ==
  ASSUME NEW c, CodeType(c), \A r \in DOMAIN c : RegsIn(c[r].args) \subseteq DOMAIN c,
         NEW arm \in {1, 2}, NEW v \in [Regs -> Int], Satisfies(v, c, arm),
         NEW o \in Below(NumRegs + 1), RegsIn(<<o>>) \subseteq DOMAIN c
  PROVE  Value(c, o, arm) = OfOperand(v, o)
<1> DEFINE val[r \in DOMAIN c] == Result(c[r], val, arm)
           u == [r \in DOMAIN c |-> v[r]]
<1>0. NumRegs \in Nat /\ Regs = 1..NumRegs /\ DOMAIN c \subseteq Regs
  BY CanonicalizeAssumption DEF Regs, CodeType
<1>1. Value(c, o, arm) = OfOperand(val, o)
  BY DEF Value
<1>2. ASSUME NEW r \in DOMAIN c, NEW a \in Below(r), NEW j \in DOMAIN c[r].args, a = c[r].args[j], NEW q, a = Reg(q)
      PROVE  q \in DOMAIN c /\ q < r
  <2>1. q \in 1..r - 1
    BY <1>2, OperandKinds DEF Below
  <2>2. q \in Regs
    BY <1>0, <2>1
  <2>3. q \in RegsIn(c[r].args)
    BY <1>2, <2>2 DEF RegsIn
  <2> QED
    BY <1>0, <2>1, <2>3
<1>3. ASSUME NEW w, NEW x, NEW r \in DOMAIN c, \A q \in DOMAIN c : q < r => w[q] = x[q]
      PROVE  Result(c[r], w, arm) = Result(c[r], x, arm)
  <2>1. r \in Regs /\ c[r] \in Inst(r)
    BY <1>0 DEF CodeType
  <2>2. ASSUME NEW j \in DOMAIN c[r].args PROVE OfOperand(w, c[r].args[j]) = OfOperand(x, c[r].args[j])
    <3>1. c[r].args[j] \in Below(r)
      BY <2>1, InstFacts
    <3>2. CASE c[r].args[j] \in {Imm(k) : k \in Int}
      BY <3>2, OperandKinds DEF OfOperand
    <3>3. CASE c[r].args[j] \in {Reg(q) : q \in 1..r - 1}
      BY <1>2, <1>3, <3>1, <3>3, OperandKinds DEF OfOperand
    <3> QED
      BY <3>1, <3>2, <3>3 DEF Below
  <2> QED
    BY <2>1, <2>2, SameResult
<1>4. u = [r \in DOMAIN c |-> Result(c[r], u, arm)]
  <2>1. ASSUME NEW r \in DOMAIN c PROVE u[r] = Result(c[r], u, arm)
    BY <1>3 DEF Satisfies
  <2> QED
    BY <2>1
<1>5. val = [r \in DOMAIN c |-> Result(c[r], val, arm)]
  <2> HIDE DEF u
  <2>1. \E f : f = [r \in DOMAIN c |-> Result(c[r], f, arm)]
    BY <1>4
  <2> QED
    BY <2>1
<1> HIDE DEF val
<1>6. \A r \in 1..NumRegs : r \in {q \in 1..NumRegs : q \in DOMAIN c => val[q] = v[q]}
  <2> DEFINE D == {q \in 1..NumRegs : q \in DOMAIN c => val[q] = v[q]}
  <2>1. ASSUME NEW r \in 1..NumRegs, \A q \in 1..r - 1 : q \in D PROVE r \in D
    <3> SUFFICES ASSUME r \in DOMAIN c PROVE val[r] = v[r]
      OBVIOUS
    <3>1. \A q \in DOMAIN c : q < r => val[q] = v[q]
      BY <1>0, <2>1
    <3>2. Result(c[r], val, arm) = Result(c[r], v, arm)
      BY <1>3, <3>1
    <3> QED
      BY <1>5, <3>2 DEF Satisfies
  <2> HIDE DEF D
  <2>2. \A r \in 1..NumRegs : r \in D
    BY <1>0, <2>1, AllBelow
  <2> QED
    BY <2>2 DEF D
<1>7. CASE o \in {Imm(k) : k \in Int}
  BY <1>1, <1>7, OperandKinds DEF OfOperand
<1>8. CASE o \in {Reg(q) : q \in 1..(NumRegs + 1) - 1}
  <2>1. PICK q \in 1..NumRegs : o = Reg(q)
    BY <1>0, <1>8
  <2>2. q \in DOMAIN c
    BY <1>0, <2>1 DEF RegsIn
  <2>3. val[q] = v[q]
    BY <1>6, <2>2
  <2> QED
    BY <1>1, <2>1, <2>3, OperandKinds DEF OfOperand
<1> QED
  BY <1>7, <1>8 DEF Below

-----------------------------------------------------------------------------
(* use_map applied to an operand: of the same value, not after what it is    *)
(* used in, and none of the removed phis.                                    *)

LEMMA Replaced ==
  ASSUME Type, NEW r \in 1..NumRegs + 1, NEW o \in Below(r)
  PROVE  /\ ReplaceAll(o) \in Below(r)
         /\ \A v \in [Regs -> Int] :
              (\A k \in 1..Len(useMap) : v[useMap[k][1]] = OfOperand(v, useMap[k][2]))
                => OfOperand(v, ReplaceAll(o)) = OfOperand(v, o)
         /\ (\A k \in 1..Len(useMap), p \in Removed : useMap[k][2] # Reg(p))
              => \A k \in 1..Len(useMap) : ReplaceAll(o) # Reg(useMap[k][1])
<1> DEFINE n == Len(useMap)
           S == Below(NumRegs + 1)
           after[k \in 0..n] ==
             IF k = 0 THEN o ELSE ReplaceReg(after[k - 1], useMap[k][1], useMap[k][2])
           step == [k \in 1..n |-> [x \in S |-> ReplaceReg(x, useMap[k][1], useMap[k][2])]]
<1>0. NumRegs \in Nat /\ Regs = 1..NumRegs
  BY CanonicalizeAssumption DEF Regs
<1>1. n \in Nat /\ \A k \in 1..n : useMap[k] \in Regs \X S
  BY DEF Type
<1>2. o \in S /\ Below(r) \subseteq S
  BY <1>0, BelowMore
<1>3. step \in Steps(n, S)
  BY <1>1 DEF ReplaceReg, Steps
<1>4. ReplaceAll(o) = after[n]
  BY DEF ReplaceAll
<1>5. \E f : f = [k \in 0..n |-> IF k = 0 THEN o ELSE ReplaceReg(f[k - 1], useMap[k][1], useMap[k][2])]
  <2>0. n \in Nat /\ o \in S
    BY <1>1, <1>2
  <2> HIDE DEF step, S, n, after
  <2>1. PICK f \in [0..n -> S] : f[0] = o /\ \A k \in 1..n : f[k] = step[k][f[k - 1]]
    <3>1. \E f : IsRecursion(f, n, S, o, step)
      BY <2>0, <1>3, Recursion
    <3> QED BY <3>1 DEF IsRecursion
  <2>2. ASSUME NEW k \in 1..n PROVE step[k][f[k - 1]] = ReplaceReg(f[k - 1], useMap[k][1], useMap[k][2])
    BY <1>1 DEF step
  <2>3. f = [k \in 0..n |-> IF k = 0 THEN o ELSE ReplaceReg(f[k - 1], useMap[k][1], useMap[k][2])]
    <3>1. \A k \in 0..n : f[k] = IF k = 0 THEN o ELSE ReplaceReg(f[k - 1], useMap[k][1], useMap[k][2])
      BY <1>1, <2>1, <2>2
    <3> QED
      BY <3>1
  <2> QED
    BY <2>3
<1>6. after = [k \in 0..n |-> IF k = 0 THEN o ELSE ReplaceReg(after[k - 1], useMap[k][1], useMap[k][2])]
  BY <1>5
<1> HIDE DEF after, n, S, step
<1>7. /\ after[0] = o
      /\ \A k \in 0..n - 1 : after[k + 1] = ReplaceReg(after[k], useMap[k + 1][1], useMap[k + 1][2])
  <2>1. 0 \in 0..n /\ \A k \in 0..n - 1 : k + 1 \in 0..n /\ k + 1 # 0 /\ (k + 1) - 1 = k
    BY <1>1
  <2> QED
    BY <1>6, <2>1
<1>8. \A k \in 0..n - 1 : useMap[k + 1][1] \in Regs /\ useMap[k + 1][2] \in Below(useMap[k + 1][1])
  BY <1>1 DEF Type, n, Removed
<1>9. after[n] \in Below(r)
  <2> DEFINE D == {k \in 0..n : after[k] \in Below(r)}
  <2>1. 0 \in D
    BY <1>1, <1>7
  <2>2. ASSUME NEW k \in 0..n - 1, k \in D PROVE k + 1 \in D
    <3>1. CASE after[k] = Reg(useMap[k + 1][1])
      <4>1. useMap[k + 1][1] \in 1..r - 1
        BY <2>2, <3>1, OperandKinds DEF Below
      <4>2. Below(useMap[k + 1][1]) \subseteq Below(r)
        BY <1>0, <4>1, BelowMore
      <4> QED
        BY <1>1, <1>7, <1>8, <2>2, <3>1, <4>2 DEF ReplaceReg
    <3>2. CASE after[k] # Reg(useMap[k + 1][1])
      BY <1>1, <1>7, <2>2, <3>2 DEF ReplaceReg
    <3> QED
      BY <3>1, <3>2
  <2> HIDE DEF D
  <2>3. n \in D
    <3>1. \A k \in 0..n : k \in D
      BY <1>1, <2>1, <2>2, AllUpTo
    <3> QED
      BY <1>1, <3>1
  <2> QED
    BY <2>3 DEF D
<1>10. ASSUME NEW v \in [Regs -> Int], \A k \in 1..n : v[useMap[k][1]] = OfOperand(v, useMap[k][2])
       PROVE  OfOperand(v, after[n]) = OfOperand(v, o)
  <2> DEFINE D == {k \in 0..n : OfOperand(v, after[k]) = OfOperand(v, o)}
  <2>1. 0 \in D
    BY <1>1, <1>7
  <2>2. ASSUME NEW k \in 0..n - 1, k \in D PROVE k + 1 \in D
    <3>1. k + 1 \in 1..n /\ OfOperand(v, Reg(useMap[k + 1][1])) = OfOperand(v, useMap[k + 1][2])
      BY <1>1, <1>10, OperandKinds DEF OfOperand
    <3> QED
      BY <1>1, <1>7, <2>2, <3>1 DEF ReplaceReg
  <2> HIDE DEF D
  <2>3. n \in D
    <3>1. \A k \in 0..n : k \in D
      BY <1>1, <2>1, <2>2, AllUpTo
    <3> QED
      BY <1>1, <3>1
  <2> QED
    BY <2>3 DEF D
<1>11. ASSUME \A k \in 1..n, p \in Removed : useMap[k][2] # Reg(p)
       PROVE  \A k \in 1..n : after[n] # Reg(useMap[k][1])
  <2> DEFINE D == {k \in 0..n : \A m \in 1..k : after[k] # Reg(useMap[m][1])}
  <2>1. 0 \in D
    BY <1>1
  <2>2. ASSUME NEW k \in 0..n - 1, k \in D PROVE k + 1 \in D
    <3>1. k + 1 \in 1..n /\ \A m \in 1..n : useMap[m][1] \in Removed
      BY <1>1 DEF Type, n
    <3>2. ASSUME NEW m \in 1..k + 1 PROVE after[k + 1] # Reg(useMap[m][1])
      <4>1. m \in 1..n
        BY <1>1
      <4>2. CASE after[k] = Reg(useMap[k + 1][1])
        BY <1>7, <1>11, <3>1, <4>1, <4>2 DEF ReplaceReg
      <4>3. CASE after[k] # Reg(useMap[k + 1][1])
        <5>1. m \in 1..k \/ m = k + 1
          BY <1>1
        <5> QED
          BY <1>7, <2>2, <4>3, <5>1 DEF ReplaceReg
      <4> QED
        BY <4>2, <4>3
    <3> QED
      BY <3>1, <3>2
  <2> HIDE DEF D
  <2>3. n \in D
    <3>1. \A k \in 0..n : k \in D
      BY <1>1, <2>1, <2>2, AllUpTo
    <3> QED
      BY <1>1, <3>1
  <2> QED
    BY <2>3 DEF D
<1> QED
  BY <1>4, <1>9, <1>10, <1>11 DEF n

-----------------------------------------------------------------------------
(* Instructions *)

LEMMA Rewritten ==
  ASSUME NEW r, NEW inst \in Inst(r), NEW a, a = [j \in DOMAIN inst.args |-> a[j]],
         \A j \in DOMAIN inst.args : a[j] \in Below(r)
  PROVE  /\ [inst EXCEPT !.args = a] \in Inst(r)
         /\ [inst EXCEPT !.args = a].op = inst.op
         /\ [inst EXCEPT !.args = a].args = a
<1> DEFINE new == [inst EXCEPT !.args = a]
<1>1. inst.op \in Ops \cup {"phi"} /\ inst = [op |-> inst.op, args |-> inst.args]
  BY InstFacts DEF Inst
<1>2. new = [op |-> inst.op, args |-> a]
  BY <1>1
<1>3. DOMAIN inst.args = 1..1 \/ DOMAIN inst.args = 1..2
  BY InstFacts
<1>4. inst.op # "phi" => DOMAIN inst.args = 1..2
  BY InstFacts
<1>5. a \in Args(r) /\ (inst.op # "phi" => a \in [1..2 -> Below(r)])
  BY <1>3, <1>4 DEF Args
<1> QED
  BY <1>1, <1>2, <1>5 DEF Inst

LEMMA InstrIsInst ==
  ASSUME NEW r \in Regs, NEW inst \in Instr(r)
  PROVE  inst \in Inst(r)
<1>1. Operands(r) \subseteq Below(r)
  BY CanonicalizeAssumption DEF Operands, Below
<1>2. CASE inst \in [op : {"phi"}, args : {<<a>> : a \in Operands(r)}]
  <2>1. PICK a \in Below(r) : inst = [op |-> "phi", args |-> <<a>>]
    BY <1>1, <1>2
  <2>2. <<a>> \in [1..1 -> Below(r)]
    OBVIOUS
  <2> QED
    BY <2>1, <2>2 DEF Inst, Args
<1>3. ASSUME NEW op \in Ops \cup {"phi"}, inst \in [op : {op}, args : {<<a, b>> : a, b \in Operands(r)}]
      PROVE  inst \in Inst(r)
  <2>1. PICK a \in Below(r), b \in Below(r) : inst = [op |-> op, args |-> <<a, b>>]
    BY <1>1, <1>3
  <2>2. <<a, b>> \in [1..2 -> Below(r)]
    OBVIOUS
  <2> QED
    BY <2>1, <2>2 DEF Inst, Args
<1> QED
  BY <1>2, <1>3 DEF Instr

-----------------------------------------------------------------------------
LEMMA InitEstablishes ==
  ASSUME ChainedPhis = FALSE, Init
  PROVE  IInv
<1>0. NumRegs \in Nat /\ Regs = 1..NumRegs
  BY CanonicalizeAssumption DEF Regs
<1>1. /\ DOMAIN code = Regs /\ code = [r \in DOMAIN code |-> code[r]]
      /\ \A r \in Regs : code[r] \in Inst(r)
  BY InstrIsInst DEF Init
<1>2. orig.code = code /\ orig.sink = sink /\ sink \in Below(NumRegs + 1)
  BY <1>0 DEF Init, Below
<1>3. Type
  <2>1. CodeType(code)
    BY <1>1 DEF CodeType
  <2>2. code \in [Regs -> UNION {Inst(r) : r \in Regs}]
    BY <1>1
  <2>3. useMap \in Seq(Regs \X Below(NumRegs + 1)) /\ Len(useMap) = 0
    BY DEF Init
  <2>4. cursor \in 1..NumRegs + 1 /\ pc = "phi"
    BY <1>0 DEF Init
  <2>5. \A k \in 1..Len(useMap) : FALSE
    BY <2>3
  <2> QED
    BY <1>1, <1>2, <2>1, <2>2, <2>3, <2>4, <2>5 DEF Type
<1>4. NoChainedPhis
  BY <1>2 DEF Init, NoChains, NoChainedPhis, Removed
<1>5. Collected
  <2>1. cursor = 1 /\ pc = "phi" /\ Len(useMap) = 0
    BY DEF Init
  <2>2. \A r \in Regs : ~(r < cursor)
    BY <1>0, <2>1
  <2>3. DOMAIN code = {r \in Regs : r < cursor => r \notin Removed}
    BY <1>1, <2>2
  <2>4. Removed \subseteq Regs /\ \A k \in 1..Len(useMap) : FALSE
    BY <2>1 DEF Removed
  <2> QED
    BY <1>2, <2>1, <2>2, <2>3, <2>4 DEF Collected
<1>6. Marked
  BY DEF Init, Marked
<1>7. Meant
  BY <1>2 DEF Init, Meant, Agrees
<1> QED
  BY <1>3, <1>4, <1>5, <1>6, <1>7 DEF IInv

\* Dropping instructions leaves what the others satisfy.
LEMMA FewerInstructions ==
  ASSUME CodeType(code), NEW S, code' = [r \in DOMAIN code \cap S |-> code[r]]
  PROVE  /\ CodeType(code') /\ code' = [r \in DOMAIN code' |-> code'[r]]
         /\ \A arm, v : Satisfies(v, code, arm) => Satisfies(v, code', arm)
BY DEF CodeType, Satisfies

LEMMA VisitPhiKeeps ==
  ASSUME IInv, VisitPhi
  PROVE  IInv'
<1>0. NumRegs \in Nat /\ Regs = 1..NumRegs
  BY CanonicalizeAssumption DEF Regs
<1>1. /\ pc = "phi" /\ pc' = "phi" /\ cursor \in Regs /\ cursor' = cursor + 1
      /\ UNCHANGED <<orig, sink>>
  BY <1>0 DEF IInv, Type, VisitPhi
<1>2. cursor \in DOMAIN code /\ code[cursor] = orig.code[cursor] /\ code[cursor] \in Inst(cursor)
  BY <1>0, <1>1 DEF IInv, Collected, Type, CodeType
<1>3. Removed' = Removed
  BY <1>1 DEF Removed
<1>4. NoChainedPhis' /\ Marked'
  BY <1>1, <1>3 DEF IInv, NoChainedPhis, Marked
<1>5. CASE IsSingle(code[cursor])
  <2> DEFINE a == code[cursor].args[1]
  <2>1. useMap' = Append(useMap, <<cursor, a>>) /\ code' = [r \in DOMAIN code \ {cursor} |-> code[r]]
    BY <1>5 DEF VisitPhi, Without
  <2>2. code[cursor].op = "phi" /\ Len(code[cursor].args) = 1 /\ cursor \in Removed
    BY <1>1, <1>2, <1>5 DEF IsSingle, Removed
  <2>3. a \in Below(cursor) /\ Below(cursor) \subseteq Below(NumRegs + 1)
    BY <1>0, <1>1, <1>2, <2>2, InstFacts, BelowMore
  <2> HIDE DEF a
  <2>4. /\ useMap \in Seq(Regs \X Below(NumRegs + 1)) /\ Len(useMap) \in Nat
        /\ useMap' \in Seq(Regs \X Below(NumRegs + 1)) /\ Len(useMap') = Len(useMap) + 1
        /\ useMap'[Len(useMap) + 1] = <<cursor, a>>
        /\ \A k \in 1..Len(useMap) : useMap'[k] = useMap[k]
    BY <1>1, <2>1, <2>3 DEF IInv, Type
  <2>5. ASSUME NEW k \in 1..Len(useMap')
        PROVE  (k \in 1..Len(useMap) /\ useMap'[k] = useMap[k]) \/ useMap'[k] = <<cursor, a>>
    BY <2>4
  <2>6. /\ CodeType(code') /\ code' = [r \in DOMAIN code' |-> code'[r]]
        /\ \A arm, v : Satisfies(v, code, arm) => Satisfies(v, code', arm)
    <3>1. code' = [r \in DOMAIN code \cap (Regs \ {cursor}) |-> code[r]]
      BY <2>1 DEF IInv, Type, CodeType
    <3> QED
      BY <3>1, FewerInstructions DEF IInv, Type
  <2>7. Type'
    <3>1. \A k \in 1..Len(useMap') : useMap'[k][1] \in Removed /\ useMap'[k][2] \in Below(useMap'[k][1])
      BY <2>2, <2>3, <2>5 DEF IInv, Type
    <3>2. cursor' \in 1..NumRegs + 1
      BY <1>0, <1>1
    <3> QED
      BY <1>1, <1>3, <2>4, <2>6, <3>1, <3>2 DEF IInv, Type
  <2>8. Collected'
    <3>1. DOMAIN code' = {r \in Regs : r < cursor' => r \notin Removed}
      BY <1>0, <1>1, <2>1, <2>2 DEF IInv, Collected
    <3>2. \A p \in Removed : p < cursor' => \E k \in 1..Len(useMap') : useMap'[k][1] = p
      <4> SUFFICES ASSUME NEW p \in Removed, p < cursor'
                   PROVE  \E k \in 1..Len(useMap') : useMap'[k][1] = p
        OBVIOUS
      <4>1. CASE p = cursor
        BY <2>4, <4>1
      <4>2. CASE p # cursor
        <5>1. p < cursor
          BY <1>0, <1>1, <4>2 DEF Removed
        <5>2. PICK k \in 1..Len(useMap) : useMap[k][1] = p
          BY <1>1, <5>1 DEF IInv, Collected
        <5> QED
          BY <2>4, <5>2
      <4> QED
        BY <4>1, <4>2
    <3>3. \A k \in 1..Len(useMap'), p \in Removed : useMap'[k][2] # Reg(p)
      <4>1. \A p \in Removed : a # Reg(p)
        BY <1>2, <2>2 DEF IInv, NoChainedPhis, a
      <4> QED
        BY <1>1, <2>5, <4>1 DEF IInv, Collected
    <3>4. \A r \in DOMAIN code' : code'[r] = orig'.code[r]
      BY <1>1, <2>1 DEF IInv, Collected
    <3> QED
      BY <1>1, <1>3, <3>1, <3>2, <3>3, <3>4 DEF IInv, Collected
  <2>9. Meant'
    <3> SUFFICES ASSUME NEW arm \in {1, 2}, NEW v \in [Regs -> Int], Satisfies(v, orig.code, arm)
                 PROVE  Agrees(v, arm)'
      BY <1>1 DEF Meant
    <3>1. Agrees(v, arm)
      BY DEF IInv, Meant
    <3>2. v[cursor] = OfOperand(v, a)
      BY <1>2, <2>2, <3>1 DEF Agrees, Satisfies, Result, a
    <3>3. \A k \in 1..Len(useMap') : v[useMap'[k][1]] = OfOperand(v, useMap'[k][2])
      BY <2>5, <3>1, <3>2 DEF Agrees
    <3> QED
      BY <1>1, <2>6, <3>1, <3>3 DEF Agrees
  <2> QED
    BY <1>4, <2>7, <2>8, <2>9 DEF IInv
<1>6. CASE ~IsSingle(code[cursor])
  <2>1. UNCHANGED <<useMap, code>>
    BY <1>6 DEF VisitPhi
  <2>2. cursor \notin Removed
    BY <1>2, <1>6 DEF Removed
  <2>3. Type'
    <3>1. cursor' \in 1..NumRegs + 1
      BY <1>0, <1>1
    <3> QED
      BY <1>1, <1>3, <2>1, <3>1 DEF IInv, Type
  <2>4. Collected'
    <3>1. \A r \in Regs : r < cursor' => (r < cursor \/ r = cursor)
      BY <1>0, <1>1
    <3>2. {r \in Regs : r < cursor' => r \notin Removed} = {r \in Regs : r < cursor => r \notin Removed}
      BY <1>0, <1>1, <2>2, <3>1
    <3>3. \A p \in Removed : p < cursor' => p < cursor
      BY <2>2, <3>1 DEF Removed
    <3> QED
      BY <1>1, <1>3, <2>1, <3>2, <3>3 DEF IInv, Collected
  <2>5. Meant'
    BY <1>1, <2>1 DEF IInv, Meant, Agrees
  <2> QED
    BY <1>4, <2>3, <2>4, <2>5 DEF IInv
<1> QED
  BY <1>5, <1>6

\* An operand and the registers in a list of operands.
LEMMA OperandReg ==
  ASSUME NEW r \in 1..NumRegs + 1, NEW o \in Below(r)
  PROVE  IsImm(o) \/ \E q \in Regs : o = Reg(q) /\ q \in 1..r - 1 /\ q \in RegsIn(<<o>>)
<1>1. NumRegs \in Nat /\ Regs = 1..NumRegs
  BY CanonicalizeAssumption DEF Regs
<1>2. CASE o \in {Imm(n) : n \in Int}
  BY <1>2, OperandKinds
<1>3. CASE o \in {Reg(q) : q \in 1..r - 1}
  <2>1. PICK q \in 1..r - 1 : o = Reg(q)
    BY <1>3
  <2>2. q \in Regs
    BY <1>1
  <2> QED
    BY <2>1, <2>2 DEF RegsIn
<1> QED
  BY <1>2, <1>3 DEF Below

LEMMA RegsOne == \A o : RegsIn(<<o>>) = {q \in Regs : o = Reg(q)}
BY DEF RegsIn

\* What a needed instruction of the function uses is needed.
LEMMA NeedsUsed ==
  ASSUME NEW r \in DOMAIN code, Needs(code, sink, r), NEW q \in RegsIn(code[r].args)
  PROVE  Needs(code, sink, q)
BY DEF Needs

LEMMA SinkNeeds == \A q \in RegsIn(<<sink>>) : Needs(code, sink, q)
BY DEF Needs

\* The pass over a function of which nothing is undefined starts with what the
\* sink uses.
LEMMA MarkingStarts ==
  ASSUME useful = {}, worklist = RegsIn(<<sink>>) \cap DOMAIN code, AllUses \subseteq DOMAIN code
  PROVE  Marked
<1>1. RegsIn(<<sink>>) \subseteq DOMAIN code
  BY DEF AllUses
<1> QED
  BY <1>1, SinkNeeds DEF Marked

LEMMA ReplacePhisKeeps ==
  ASSUME IInv, ReplacePhis
  PROVE  IInv'
<1> DEFINE new(r) == [j \in DOMAIN code[r].args |-> ReplaceAll(code[r].args[j])]
<1>0. NumRegs \in Nat /\ Regs = 1..NumRegs
  BY CanonicalizeAssumption DEF Regs
<1>1. /\ pc = "phi" /\ pc' = "mark" /\ cursor > NumRegs /\ UNCHANGED <<orig, useMap, cursor>>
      /\ sink' = ReplaceAll(sink) /\ useful' = {} /\ worklist' = RegsIn(<<sink'>>) \cap DOMAIN code
      /\ code' = [r \in DOMAIN code |-> [code[r] EXCEPT !.args = new(r)]]
  BY DEF ReplacePhis
<1>2. Removed' = Removed /\ DOMAIN code' = DOMAIN code /\ DOMAIN code = Regs \ Removed
  BY <1>0, <1>1 DEF IInv, Collected, Type, Removed
<1>3. \A k \in 1..Len(useMap), p \in Removed : useMap[k][2] # Reg(p)
  BY <1>1 DEF IInv, Collected
\* What an operand becomes.
<1>4. ASSUME NEW r \in 1..NumRegs + 1, NEW o \in Below(r)
      PROVE  /\ ReplaceAll(o) \in Below(r)
             /\ \A q \in Regs : ReplaceAll(o) = Reg(q) => q \in DOMAIN code
             /\ \A v \in [Regs -> Int] :
                  (\A k \in 1..Len(useMap) : v[useMap[k][1]] = OfOperand(v, useMap[k][2]))
                    => OfOperand(v, ReplaceAll(o)) = OfOperand(v, o)
  <2>1. \A k \in 1..Len(useMap) : ReplaceAll(o) # Reg(useMap[k][1])
    BY <1>3, Replaced DEF IInv
  <2>2. \A p \in Removed : \E k \in 1..Len(useMap) : useMap[k][1] = p
    <3>1. \A p \in Removed : p \in 1..NumRegs
      BY <1>0 DEF Removed
    <3>2. \A p \in Removed : p < cursor
      BY <1>0, <1>1, <3>1 DEF IInv, Type
    <3> QED
      BY <1>1, <3>2 DEF IInv, Collected
  <2> QED
    BY <1>2, <2>1, <2>2, Replaced DEF IInv
<1>5. ASSUME NEW r \in DOMAIN code
      PROVE  /\ code[r] \in Inst(r) /\ r \in 1..NumRegs + 1
             /\ code'[r] \in Inst(r)
             /\ code'[r].op = code[r].op /\ code'[r].args = new(r)
  <2>1. code[r] \in Inst(r) /\ r \in Regs
    BY DEF IInv, Type, CodeType
  <2>2. r \in 1..NumRegs + 1
    BY <1>0, <2>1
  <2>3. \A j \in DOMAIN code[r].args : new(r)[j] \in Below(r)
    BY <1>4, <2>1, <2>2, InstFacts
  <2>4. code'[r] = [code[r] EXCEPT !.args = new(r)]
    BY <1>1
  <2>5. new(r) = [j \in DOMAIN code[r].args |-> new(r)[j]]
    OBVIOUS
  <2> HIDE DEF new
  <2> QED
    BY <2>1, <2>2, <2>3, <2>4, <2>5, Rewritten
<1> HIDE DEF new
<1>6. Type'
  <2>1. CodeType(code') /\ code' = [r \in DOMAIN code' |-> code'[r]]
    BY <1>1, <1>2, <1>5 DEF IInv, Type, CodeType
  <2>2. sink' \in Below(NumRegs + 1)
    BY <1>0, <1>1, <1>4 DEF IInv, Type
  <2> QED
    BY <1>1, <1>2, <2>1, <2>2 DEF IInv, Type
<1>7. NoChainedPhis'
  BY <1>1, <1>2 DEF IInv, NoChainedPhis
<1>8. AllUses' \subseteq DOMAIN code'
  <2>1. RegsIn(<<sink>>)' \subseteq DOMAIN code
    <3>1. sink \in Below(NumRegs + 1) /\ NumRegs + 1 \in 1..NumRegs + 1
      BY <1>0 DEF IInv, Type
    <3> QED
      BY <1>1, <1>4, <3>1, RegsOne
  <2>2. ASSUME NEW r \in DOMAIN code PROVE RegsIn(code'[r].args) \subseteq DOMAIN code
    <3>1. ASSUME NEW q \in Regs, NEW j \in DOMAIN code'[r].args, code'[r].args[j] = Reg(q)
          PROVE  q \in DOMAIN code
      <4>1. j \in DOMAIN code[r].args /\ ReplaceAll(code[r].args[j]) = Reg(q)
        BY <1>5, <3>1 DEF new
      <4> QED
        BY <1>4, <1>5, <4>1, InstFacts
    <3> QED
      BY <3>1 DEF RegsIn
  <2> QED
    BY <1>2, <2>1, <2>2 DEF AllUses
<1>9. Collected'
  BY <1>1, <1>8 DEF Collected
<1>10. Marked'
  BY <1>1, <1>2, <1>8, MarkingStarts DEF Marked, Needs, AllUses, RegsIn
<1>11. Meant'
  <2> SUFFICES ASSUME NEW arm \in {1, 2}, NEW v \in [Regs -> Int], Satisfies(v, orig.code, arm)
               PROVE  Agrees(v, arm)'
    BY <1>1 DEF Meant
  <2>1. Agrees(v, arm)
    BY DEF IInv, Meant
  <2>2. \A r \in 1..NumRegs + 1 : \A o \in Below(r) : OfOperand(v, ReplaceAll(o)) = OfOperand(v, o)
    BY <1>4, <2>1 DEF Agrees
  <2>3. ASSUME NEW r \in DOMAIN code PROVE Result(code'[r], v, arm) = Result(code[r], v, arm)
    <3>1. DOMAIN code'[r].args = DOMAIN code[r].args
      BY <1>5 DEF new
    <3>2. \A j \in DOMAIN code[r].args : OfOperand(v, code'[r].args[j]) = OfOperand(v, code[r].args[j])
      BY <1>5, <2>2, InstFacts DEF new
    <3> QED
      BY <1>5, <3>1, <3>2, SameResult
  <2>4. Satisfies(v, code', arm)
    BY <1>2, <2>1, <2>3 DEF Agrees, Satisfies
  <2>5. OfOperand(v, sink') = OfOperand(v, sink)
    <3>1. sink \in Below(NumRegs + 1) /\ NumRegs + 1 \in 1..NumRegs + 1
      BY <1>0 DEF IInv, Type
    <3> QED
      BY <1>1, <2>2, <3>1
  <2> QED
    BY <1>1, <2>1, <2>4, <2>5 DEF Agrees
<1> QED
  BY <1>6, <1>7, <1>9, <1>10, <1>11 DEF IInv

LEMMA MarkKeeps ==
  ASSUME IInv, NEW r \in Regs, Mark(r)
  PROVE  IInv'
<1>1. /\ pc = "mark" /\ r \in worklist /\ useful' = useful \cup {r}
      /\ worklist' = (worklist \cup (RegsIn(code[r].args) \cap DOMAIN code)) \ useful'
      /\ UNCHANGED <<orig, code, sink, useMap, cursor, pc>>
  BY DEF Mark
<1>2. Type' /\ NoChainedPhis' /\ Collected' /\ Meant'
  <2>1. Removed' = Removed /\ AllUses' = AllUses
    BY <1>1 DEF Removed, AllUses
  <2>2. Type' /\ NoChainedPhis'
    BY <1>1, <2>1 DEF IInv, Type, NoChainedPhis
  <2>3. Collected'
    BY <1>1, <2>1 DEF IInv, Collected
  <2>4. Meant'
    BY <1>1 DEF IInv, Meant, Agrees
  <2> QED
    BY <2>2, <2>3, <2>4
<1>3. r \in DOMAIN code /\ RegsIn(code[r].args) \subseteq DOMAIN code
  BY <1>1 DEF IInv, Marked, Collected, AllUses
<1>4. \A q \in useful' \cup worklist' : Needs(code, sink, q)
  BY <1>1, <1>3, NeedsUsed DEF IInv, Marked
<1>5. Marked'
  <2>1. useful' \subseteq DOMAIN code /\ worklist' \subseteq DOMAIN code
    BY <1>1, <1>3 DEF IInv, Marked
  <2>2. useful \cup worklist \subseteq useful' \cup worklist'
    BY <1>1
  <2>3. RegsIn(<<sink>>) \subseteq useful' \cup worklist'
    BY <1>1, <2>2 DEF IInv, Marked
  <2>4. \A q \in useful' : RegsIn(code[q].args) \subseteq useful' \cup worklist'
    BY <1>1, <1>3, <2>2 DEF IInv, Marked
  <2> QED
    BY <1>1, <1>4, <2>1, <2>3, <2>4 DEF Marked
<1> QED
  BY <1>2, <1>5 DEF IInv

LEMMA SweepDeadKeeps ==
  ASSUME IInv, SweepDead
  PROVE  IInv'
<1>0. NumRegs \in Nat
  BY CanonicalizeAssumption
<1>1. /\ pc = "mark" /\ worklist = {} /\ useful' = {} /\ UNCHANGED <<orig, sink, useMap>>
      /\ code' = [r \in DOMAIN code \cap useful |-> code[r]]
      /\ \/ worklist' = RegsIn(<<sink>>) \cap DOMAIN code' /\ cursor' = cursor /\ pc' = "mark"
         \/ cursor' = 1 /\ pc' = "fold"
  BY DEF SweepDead, OnlyOn
<1>2. DOMAIN code' = useful /\ useful \subseteq DOMAIN code /\ Removed' = Removed
  BY <1>1 DEF IInv, Marked, Removed
<1>3. /\ CodeType(code') /\ code' = [r \in DOMAIN code' |-> code'[r]]
      /\ \A arm, v : Satisfies(v, code, arm) => Satisfies(v, code', arm)
  BY <1>1, FewerInstructions DEF IInv, Type
<1>4. Type'
  <2>1. cursor' \in 1..NumRegs + 1 /\ pc' \in {"mark", "fold"}
    BY <1>0, <1>1 DEF IInv, Type
  <2> QED
    BY <1>1, <1>2, <1>3, <2>1 DEF IInv, Type
<1>5. AllUses' \subseteq DOMAIN code'
  BY <1>1, <1>2 DEF IInv, Marked, AllUses
<1>6. Collected' /\ NoChainedPhis'
  BY <1>1, <1>2, <1>5 DEF IInv, Collected, NoChainedPhis
<1>7. Marked'
  <2>1. CASE pc' = "mark"
    <3>1. useful' = {} /\ worklist' = RegsIn(<<sink>>)' \cap DOMAIN code'
      BY <1>1, <2>1 DEF RegsIn
    <3>2. RegsIn(<<sink>>)' \subseteq DOMAIN code'
      BY <1>5 DEF AllUses
    <3>3. \A q \in RegsIn(<<sink>>)' : Needs(code, sink, q)'
      BY DEF Needs
    <3> QED
      BY <3>1, <3>2, <3>3 DEF Marked
  <2>2. CASE pc' # "mark"
    BY <2>2 DEF Marked
  <2> QED
    BY <2>1, <2>2
<1>8. Meant'
  BY <1>1, <1>3 DEF IInv, Meant, Agrees
<1> QED
  BY <1>4, <1>6, <1>7, <1>8 DEF IInv

-----------------------------------------------------------------------------
\* The identities of constant_fold.
LEMMA Identities ==
  ASSUME NEW r \in Regs, NEW a \in Below(r), NEW b \in Below(r), NEW v \in [Regs -> Int],
         NEW op \in {"add", "sub", "mul"}, NEW by,
         \/ op = "add" /\ by \in FoldAdd(a, b)
         \/ op = "sub" /\ by \in FoldSub(a, b)
         \/ op = "mul" /\ by \in FoldMul(a, b)
  PROVE  /\ by = a \/ by = b \/ \E n \in Int : by = Imm(n)
         /\ OfOperand(v, by) = Apply(op, OfOperand(v, a), OfOperand(v, b))
<1>1. /\ OfOperand(v, a) \in Int /\ OfOperand(v, b) \in Int
      /\ IsImm(a) => OfOperand(v, a) = a[2]
      /\ IsImm(b) => OfOperand(v, b) = b[2]
  BY OperandValue DEF OfOperand
<1>2. \A n : OfOperand(v, Imm(n)) = n
  BY OperandKinds DEF OfOperand
<1>3. CASE op = "add"
  <2>1. by \in FoldAdd(a, b)
          /\ Apply(op, OfOperand(v, a), OfOperand(v, b)) = OfOperand(v, a) + OfOperand(v, b)
    BY <1>3 DEF Apply
  <2>2. CASE IsImm(a) /\ IsImm(b)
    BY <1>1, <1>2, <2>1, <2>2 DEF FoldAdd
  <2>3. CASE ~(IsImm(a) /\ IsImm(b))
    BY <1>1, <1>2, <2>1, <2>3 DEF FoldAdd
  <2> QED
    BY <2>2, <2>3
<1>4. CASE op = "sub"
  <2>1. by \in FoldSub(a, b)
          /\ Apply(op, OfOperand(v, a), OfOperand(v, b)) = OfOperand(v, a) - OfOperand(v, b)
    BY <1>4 DEF Apply
  <2>2. CASE IsImm(a) /\ IsImm(b)
    BY <1>1, <1>2, <2>1, <2>2 DEF FoldSub
  <2>3. CASE ~(IsImm(a) /\ IsImm(b))
    BY <1>1, <1>2, <2>1, <2>3 DEF FoldSub
  <2> QED
    BY <2>2, <2>3
<1>5. CASE op = "mul"
  <2>1. by \in FoldMul(a, b)
          /\ Apply(op, OfOperand(v, a), OfOperand(v, b)) = OfOperand(v, a) * OfOperand(v, b)
    BY <1>5 DEF Apply
  <2>2. CASE IsImm(a) /\ IsImm(b)
    <3>1. by = Imm(a[2] * b[2]) /\ a[2] * b[2] \in Int
      BY <1>1, <2>1, <2>2 DEF FoldMul
    <3> QED
      BY <1>1, <1>2, <2>1, <2>2, <3>1
  <2>3. CASE ~(IsImm(a) /\ IsImm(b))
    <3>1. PICK x \in Int, y \in Int : x = OfOperand(v, a) /\ y = OfOperand(v, b)
      BY <1>1
    <3>2. x * 1 = x /\ 1 * y = y /\ x * 0 = 0 /\ 0 * y = 0
      OBVIOUS
    <3>3. \/ b = Imm(1) /\ by = a
          \/ a = Imm(1) /\ by = b
          \/ (a = Imm(0) \/ b = Imm(0)) /\ by = Imm(0)
      BY <2>1, <2>3 DEF FoldMul
    <3> QED
      BY <1>2, <2>1, <3>1, <3>2, <3>3
  <2> QED
    BY <2>2, <2>3
<1> QED
  BY <1>3, <1>4, <1>5

LEMMA FoldMeans ==
  ASSUME NEW r \in Regs, NEW inst \in Inst(r), NEW by \in FoldResult(inst)
  PROVE  /\ by \in Below(r)
         /\ \A q \in Regs : by = Reg(q) => q \in RegsIn(inst.args)
         /\ \A arm \in {1, 2}, v \in [Regs -> Int] : Result(inst, v, arm) = OfOperand(v, by)
<1>1. inst.op \in {"add", "sub", "mul"}
  BY InstFacts DEF FoldResult
<1>2. 1 \in DOMAIN inst.args /\ 2 \in DOMAIN inst.args
  BY <1>1, InstFacts
<1>3. inst.args[1] \in Below(r) /\ inst.args[2] \in Below(r)
  BY <1>2, InstFacts
<1>4. \/ inst.op = "add" /\ by \in FoldAdd(inst.args[1], inst.args[2])
      \/ inst.op = "sub" /\ by \in FoldSub(inst.args[1], inst.args[2])
      \/ inst.op = "mul" /\ by \in FoldMul(inst.args[1], inst.args[2])
  BY <1>1 DEF FoldResult
<1>5. by = inst.args[1] \/ by = inst.args[2] \/ \E n \in Int : by = Imm(n)
  <2>1. \E v : v \in [Regs -> Int]
    <3>1. [q \in Regs |-> 0] \in [Regs -> Int]
      OBVIOUS
    <3> QED
      BY <3>1
  <2> QED
    BY <1>1, <1>3, <1>4, <2>1, Identities
<1>6. by \in Below(r)
  BY <1>3, <1>5 DEF Below
<1>7. \A q \in Regs : by = Reg(q) => q \in RegsIn(inst.args)
  BY <1>2, <1>5, OperandKinds DEF RegsIn
<1>8. \A arm \in {1, 2}, v \in [Regs -> Int] : Result(inst, v, arm) = OfOperand(v, by)
  BY <1>1, <1>3, <1>4, Identities DEF Result
<1> QED
  BY <1>6, <1>7, <1>8

LEMMA FoldKeeps ==
  ASSUME IInv, NEW r \in Regs, Fold(r)
  PROVE  IInv'
<1>0. NumRegs \in Nat /\ Regs = 1..NumRegs
  BY CanonicalizeAssumption DEF Regs
<1>1. /\ pc = "fold" /\ pc' = "fold" /\ cursor' = r + 1 /\ UNCHANGED <<orig, useMap>>
      /\ cursor' \in 1..NumRegs + 1
  BY <1>0 DEF Fold
<1>2. Removed' = Removed /\ NoChainedPhis'
  BY <1>1 DEF IInv, Removed, NoChainedPhis
<1>3. Marked'
  BY <1>1 DEF Marked
<1>4. CASE UNCHANGED <<code, sink>>
  <2>1. Type'
    BY <1>1, <1>2, <1>4 DEF IInv, Type
  <2>2. Collected' /\ Meant'
    BY <1>1, <1>4 DEF IInv, Collected, AllUses, Meant, Agrees
  <2> QED
    BY <1>2, <1>3, <2>1, <2>2 DEF IInv
<1>5. CASE ~UNCHANGED <<code, sink>>
  <2>1. r \in DOMAIN code
    BY <1>5 DEF Fold
  <2>2. PICK by \in FoldResult(code[r]) :
          /\ code' = [q \in DOMAIN code \ {r} |-> ReplaceUse(code[q], r, by)]
          /\ sink' = ReplaceReg(sink, r, by)
    BY <1>5 DEF Fold
  <2> DEFINE new(q) == [j \in DOMAIN code[q].args |-> ReplaceReg(code[q].args[j], r, by)]
  <2>3. code[r] \in Inst(r)
    BY <2>1 DEF IInv, Type, CodeType
  <2>4. by \in Below(r) /\ \A q \in Regs : by = Reg(q) => q \in DOMAIN code /\ q # r
    <3>1. RegsIn(code[r].args) \subseteq DOMAIN code
      BY <1>1, <2>1 DEF IInv, Collected, AllUses
    <3>2. by \in Below(r) /\ \A q \in Regs : by = Reg(q) => q \in RegsIn(code[r].args)
      BY <2>3, FoldMeans
    <3>3. by # Reg(r)
      BY <1>0, <3>2, OperandKinds DEF Below
    <3> QED
      BY <3>1, <3>2, <3>3
  \* What an operand becomes.
  <2>5. ASSUME NEW q \in 1..NumRegs + 1, NEW o \in Below(q)
        PROVE  /\ ReplaceReg(o, r, by) \in Below(q)
               /\ ReplaceReg(o, r, by) # Reg(r)
    <3>1. CASE o = Reg(r)
      <4>1. r \in 1..q - 1
        BY <2>5, <3>1, OperandKinds DEF Below
      <4>2. Below(r) \subseteq Below(q)
        BY <4>1, BelowMore
      <4> QED
        BY <2>4, <3>1, <4>2 DEF ReplaceReg
    <3>2. CASE o # Reg(r)
      BY <3>2 DEF ReplaceReg
    <3> QED
      BY <3>1, <3>2
  <2>6. DOMAIN code' = DOMAIN code \ {r}
    BY <2>2
  <2>7. ASSUME NEW q \in DOMAIN code'
        PROVE  /\ code[q] \in Inst(q) /\ q \in 1..NumRegs + 1
               /\ code'[q] \in Inst(q)
               /\ code'[q].op = code[q].op /\ code'[q].args = new(q)
    <3>1. code[q] \in Inst(q) /\ q \in 1..NumRegs + 1
      BY <1>0, <2>6 DEF IInv, Type, CodeType
    <3>2. \A j \in DOMAIN code[q].args : new(q)[j] \in Below(q)
      BY <2>5, <3>1, InstFacts
    <3>3. code'[q] = [code[q] EXCEPT !.args = new(q)]
      BY <2>2, <2>6 DEF ReplaceUse
    <3>4. new(q) = [j \in DOMAIN code[q].args |-> new(q)[j]]
      OBVIOUS
    <3> HIDE DEF new
    <3> QED
      BY <3>1, <3>2, <3>3, <3>4, Rewritten
  <2> HIDE DEF new
  <2>8. Type'
    <3>1. CodeType(code') /\ code' = [q \in DOMAIN code' |-> code'[q]]
      BY <2>2, <2>6, <2>7 DEF IInv, Type, CodeType
    <3>2. sink' \in Below(NumRegs + 1)
      <4>1. sink \in Below(NumRegs + 1) /\ NumRegs + 1 \in 1..NumRegs + 1
        BY <1>0 DEF IInv, Type
      <4> QED
        BY <2>2, <2>5, <4>1
    <3> QED
      BY <1>1, <1>2, <3>1, <3>2 DEF IInv, Type
  <2>9. AllUses' \subseteq DOMAIN code'
    <3>1. ASSUME NEW o, NEW q \in Regs, ReplaceReg(o, r, by) = Reg(q), ReplaceReg(o, r, by) # Reg(r),
                 \A p \in Regs : o = Reg(p) => p \in DOMAIN code
          PROVE  q \in DOMAIN code'
      BY <2>4, <2>6, <3>1 DEF ReplaceReg
    <3>2. RegsIn(<<sink>>)' \subseteq DOMAIN code'
      <4>1. sink \in Below(NumRegs + 1) /\ NumRegs + 1 \in 1..NumRegs + 1
        BY <1>0 DEF IInv, Type
      <4>2. \A p \in Regs : sink = Reg(p) => p \in DOMAIN code
        BY <1>1, RegsOne DEF IInv, Collected, AllUses
      <4> QED
        BY <2>2, <2>5, <3>1, <4>1, <4>2, RegsOne
    <3>3. ASSUME NEW s \in DOMAIN code', NEW q \in Regs, NEW j \in DOMAIN code'[s].args,
                 code'[s].args[j] = Reg(q)
          PROVE  q \in DOMAIN code'
      <4>1. j \in DOMAIN code[s].args /\ ReplaceReg(code[s].args[j], r, by) = Reg(q)
        BY <2>7, <3>3 DEF new
      <4>2. \A p \in Regs : code[s].args[j] = Reg(p) => p \in RegsIn(code[s].args)
        BY <4>1 DEF RegsIn
      <4>3. RegsIn(code[s].args) \subseteq DOMAIN code
        BY <1>1, <2>6 DEF IInv, Collected, AllUses
      <4>4. ReplaceReg(code[s].args[j], r, by) # Reg(r)
        BY <2>5, <2>7, <4>1, InstFacts
      <4> QED
        BY <3>1, <4>1, <4>2, <4>3, <4>4
    <3>4. \A s \in DOMAIN code' : RegsIn(code'[s].args) \subseteq DOMAIN code'
      BY <3>3 DEF RegsIn
    <3> QED
      BY <3>2, <3>4 DEF AllUses
  <2>10. Collected'
    BY <1>1, <2>9 DEF Collected
  <2>11. Meant'
    <3> SUFFICES ASSUME NEW arm \in {1, 2}, NEW v \in [Regs -> Int], Satisfies(v, orig.code, arm)
                 PROVE  Agrees(v, arm)'
      BY <1>1 DEF Meant
    <3>1. Agrees(v, arm)
      BY DEF IInv, Meant
    <3>2. OfOperand(v, Reg(r)) = OfOperand(v, by)
      <4>1. v[r] = Result(code[r], v, arm)
        BY <2>1, <3>1 DEF Agrees, Satisfies
      <4>2. Result(code[r], v, arm) = OfOperand(v, by)
        BY <2>3, FoldMeans
      <4> QED
        BY <4>1, <4>2, OperandKinds DEF OfOperand
    <3>3. \A o : OfOperand(v, ReplaceReg(o, r, by)) = OfOperand(v, o)
      BY <3>2 DEF ReplaceReg
    <3>4. ASSUME NEW q \in DOMAIN code' PROVE Result(code'[q], v, arm) = Result(code[q], v, arm)
      <4>1. DOMAIN code'[q].args = DOMAIN code[q].args
        BY <2>7 DEF new
      <4>2. \A j \in DOMAIN code[q].args : OfOperand(v, code'[q].args[j]) = OfOperand(v, code[q].args[j])
        BY <2>7, <3>3 DEF new
      <4> QED
        BY <2>7, <4>1, <4>2, SameResult
    <3>5. Satisfies(v, code', arm)
      BY <2>6, <3>1, <3>4 DEF Agrees, Satisfies
    <3> QED
      BY <1>1, <2>2, <3>1, <3>3, <3>5 DEF Agrees
  <2> QED
    BY <1>2, <1>3, <2>8, <2>10, <2>11 DEF IInv
<1> QED
  BY <1>4, <1>5

\* The other steps change neither code nor sink.
LEMMA RestKeeps ==
  ASSUME IInv, EndFold \/ UNCHANGED vars
  PROVE  IInv'
<1>1. UNCHANGED <<orig, code, sink, useMap, useful, worklist>>
  BY DEF EndFold, vars
<1>2. (pc = "fold" /\ pc' \in {"fold", "done"}) \/ pc' = pc
  BY DEF EndFold, vars
<1>3. cursor' \in 1..NumRegs + 1 /\ (pc = "phi" \/ pc' = "phi" => cursor' = cursor)
  BY CanonicalizeAssumption DEF EndFold, vars, IInv, Type
<1>4. Removed' = Removed /\ AllUses' = AllUses
  BY <1>1 DEF Removed, AllUses
<1>5. Type' /\ NoChainedPhis'
  BY <1>1, <1>2, <1>3, <1>4 DEF IInv, Type, NoChainedPhis
<1>6. Collected'
  BY <1>1, <1>2, <1>3, <1>4 DEF IInv, Collected
<1>7. Marked' /\ Meant'
  BY <1>1, <1>2 DEF IInv, Marked, Needs, Meant, Agrees
<1> QED
  BY <1>5, <1>6, <1>7 DEF IInv

LEMMA StepKeeps == IInv /\ [Next]_vars => IInv'
BY VisitPhiKeeps, ReplacePhisKeeps, SweepDeadKeeps, MarkKeeps, FoldKeeps, RestKeeps
   DEF Next, Returned

LEMMA Invariance == ASSUME ChainedPhis = FALSE PROVE Spec => []IInv
<1>1. Init => IInv
  BY InitEstablishes
<1> QED
  BY <1>1, StepKeeps, PTL DEF Spec

-----------------------------------------------------------------------------
\* However long the function, no pass leaves an instruction whose operand
\* nothing defines: eliminate_single_phi rewrites every use of what it removes,
\* eliminate_deadcode removes nothing that is used, and constant_fold puts
\* nothing removed in place of what it removes.  (No phi of one operand has
\* another as its operand.)
THEOREM NothingDangles ==
  ASSUME ChainedPhis = FALSE
  PROVE  Spec => []NoDanglingUse
<1>1. IInv => NoDanglingUse
  BY DEF IInv, Collected, NoDanglingUse
<1> QED
  BY <1>1, Invariance, PTL

\* However long the function and whatever its immediates, the value the sink
\* receives is the same after every pass, whichever way the blocks are entered.
THEOREM MeaningKept ==
  ASSUME ChainedPhis = FALSE
  PROVE  Spec => []SameMeaning
<1>1. ASSUME IInv PROVE SameMeaning
  <2> SUFFICES ASSUME pc # "phi", NEW arm \in {1, 2}
               PROVE  Value(code, sink, arm) = Value(orig.code, orig.sink, arm)
    BY DEF SameMeaning
  <2>1. /\ DOMAIN orig.code = Regs /\ CodeType(orig.code) /\ CodeType(code)
        /\ sink \in Below(NumRegs + 1) /\ orig.sink \in Below(NumRegs + 1)
    BY <1>1 DEF IInv, Type
  <2>2. PICK v \in [Regs -> Int] : Satisfies(v, orig.code, arm)
    BY <2>1, ValuationExists
  <2>3. Satisfies(v, code, arm) /\ OfOperand(v, sink) = OfOperand(v, orig.sink)
    BY <1>1, <2>2 DEF IInv, Meant, Agrees
  <2>4. Value(orig.code, orig.sink, arm) = OfOperand(v, orig.sink)
    <3>1. \A args : RegsIn(args) \subseteq DOMAIN orig.code
      BY <2>1 DEF RegsIn
    <3> QED
      BY <2>1, <2>2, <3>1, ValueIs
  <2>5. Value(code, sink, arm) = OfOperand(v, sink)
    <3>1. AllUses \subseteq DOMAIN code
      BY <1>1 DEF IInv, Collected
    <3>2. RegsIn(<<sink>>) \subseteq DOMAIN code
            /\ \A r \in DOMAIN code : RegsIn(code[r].args) \subseteq DOMAIN code
      BY <3>1 DEF AllUses
    <3> QED
      BY <2>1, <2>3, <3>2, ValueIs
  <2> QED
    BY <2>3, <2>4, <2>5
<1> QED
  BY <1>1, Invariance, PTL

\* When eliminate_deadcode stops, the sink needs every instruction it has left.
THEOREM OnlyNeededLeft ==
  ASSUME ChainedPhis = FALSE
  PROVE  Spec => NothingDead
<1>1. ASSUME IInv, [Next]_vars, pc = "mark", pc' = "fold"
      PROVE  \A r \in DOMAIN code' : Needs(code', sink', r)
  <2>1. SweepDead
    BY <1>1 DEF Next, VisitPhi, ReplacePhis, Mark, Fold, EndFold, Returned, vars
  <2>2. DOMAIN code' = DOMAIN code /\ code' = OnlyOn(code, useful) /\ sink' = sink
    BY <1>1, <2>1 DEF SweepDead
  <2>3. useful = DOMAIN code /\ code' = code
    BY <1>1, <2>2 DEF OnlyOn, IInv, Marked, Type
  <2> QED
    BY <1>1, <2>2, <2>3 DEF IInv, Marked
<1>2. IInv /\ [Next]_vars =>
        [pc = "mark" /\ pc' = "fold" => \A r \in DOMAIN code' : Needs(code', sink', r)]_vars
  BY <1>1
<1> QED
  BY <1>2, Invariance, PTL DEF Spec, NothingDead
=============================================================================
