---------------------------- MODULE Canonicalize ----------------------------
(***************************************************************************)
(* The rewriting passes of Canonicalization::optimize in                   *)
(* src/ir/optimizer.cpp: eliminate_single_phi, eliminate_deadcode to its   *)
(* end, constant_fold to its end.  (eliminate_critical_edge, which changes *)
(* blocks and not instructions, is in CriticalEdge.)                       *)
(*                                                                         *)
(* A function is abstracted to its instructions in layout order: the       *)
(* instruction at position r defines register r.  A phi is at the start of *)
(* a block of its own; one instruction with an effect, the sink, uses a    *)
(* result.                                                                 *)
(***************************************************************************)
EXTENDS Integers, Sequences, FiniteSets

CONSTANTS
  NumRegs,
  Imms,          \* immediate operands
  Ops,           \* operators: a subset of {"add", "sub", "mul"}
  ChainedPhis    \* may the operand of a single-operand phi be another such phi?

ASSUME CanonicalizeAssumption ==
  /\ NumRegs \in Nat /\ Imms \subseteq Int
  /\ Ops \subseteq {"add", "sub", "mul"}
  /\ ChainedPhis \in BOOLEAN

Regs == 1..NumRegs
Reg(r) == <<"reg", r>>
Imm(n) == <<"imm", n>>
IsReg(o) == o[1] = "reg"
IsImm(o) == o[1] = "imm"

VARIABLES
  orig,      \* the function and its sink before the passes (input)
  code,      \* register |-> its instruction [op, args]; "phi" is an op
  sink,      \* the operand of the instruction with an effect
  useMap,    \* use_map: the pairs (removed phi, its operand), in order
  useful, worklist,  \* eliminate_deadcode
  cursor,    \* the position the current pass has reached
  changed,   \* did the current pass of constant_fold change anything
  pc         \* "phi", "replace", "mark", "fold" or "done"

vars == <<orig, code, sink, useMap, useful, worklist, cursor, changed, pc>>

Without(f, x) == [y \in DOMAIN f \ {x} |-> f[y]]
OnlyOn(f, S) == [y \in DOMAIN f \cap S |-> f[y]]

\* Operand::replace_reg and Instruction::replace_use.
ReplaceReg(o, r, by) == IF o = Reg(r) THEN by ELSE o
ReplaceUse(inst, r, by) ==
  [inst EXCEPT !.args = [j \in DOMAIN inst.args |-> ReplaceReg(inst.args[j], r, by)]]

\* The pairs of use_map applied to an operand one after the other.
ReplaceAll(o) ==
  LET after[k \in 0..Len(useMap)] ==
        IF k = 0 THEN o ELSE ReplaceReg(after[k - 1], useMap[k][1], useMap[k][2])
  IN after[Len(useMap)]

RegsIn(args) == {r \in Regs : \E j \in DOMAIN args : args[j] = Reg(r)}

\* Operands an instruction may have: immediates and registers defined before.
Operands(r) == {Imm(n) : n \in Imms} \cup {Reg(q) : q \in 1..r - 1}

\* A phi has one operand per predecessor; FunctionInline makes phis with one.
Instr(r) ==
  [op : {"phi"}, args : {<<a>> : a \in Operands(r)}]
    \cup [op : {"phi"}, args : {<<a, b>> : a, b \in Operands(r)}]
    \cup [op : Ops, args : {<<a, b>> : a, b \in Operands(r)}]

IsSingle(inst) == inst.op = "phi" /\ Len(inst.args) = 1
NoChains(c) ==
  \A p, q \in Regs : IsSingle(c[p]) /\ IsSingle(c[q]) => c[p].args[1] # Reg(q)

Init ==
  /\ code \in {c \in [Regs -> UNION {Instr(r) : r \in Regs}] :
                 (\A r \in Regs : c[r] \in Instr(r)) /\ (ChainedPhis \/ NoChains(c))}
  /\ sink \in {Reg(r) : r \in Regs}
  /\ orig = [code |-> code, sink |-> sink]
  /\ useMap = <<>>
  /\ useful = {} /\ worklist = {}
  /\ cursor = 1 /\ changed = FALSE
  /\ pc = "phi"

-----------------------------------------------------------------------------
\* eliminate_single_phi, first loop: a phi with one operand is removed and its
\* pair remembered.
VisitPhi ==
  /\ pc = "phi" /\ cursor <= NumRegs
  /\ IF IsSingle(code[cursor])
     THEN /\ useMap' = Append(useMap, <<cursor, code[cursor].args[1]>>)
          /\ code' = Without(code, cursor)
     ELSE UNCHANGED <<useMap, code>>
  /\ cursor' = cursor + 1
  /\ UNCHANGED <<orig, sink, useful, worklist, changed, pc>>

\* Third loop: every remaining use is rewritten.
ReplacePhis_InsnsOnly ==
  /\ pc = "phi" /\ cursor > NumRegs
  /\ code' = [r \in DOMAIN code |->
                [code[r] EXCEPT !.args = [j \in DOMAIN code[r].args |-> ReplaceAll(code[r].args[j])]]]
  /\ useful' = {} /\ worklist' = RegsIn(<<sink>>) \cap DOMAIN code
  /\ pc' = "mark"
  /\ UNCHANGED <<orig, sink, useMap, cursor, changed>>
ReplacePhis ==
  /\ pc = "phi" /\ cursor > NumRegs
  /\ code' = [r \in DOMAIN code |->
                [code[r] EXCEPT !.args = [j \in DOMAIN code[r].args |-> ReplaceAll(code[r].args[j])]]]
  /\ sink' = ReplaceAll(sink)
  /\ useful' = {} /\ worklist' = RegsIn(<<sink'>>) \cap DOMAIN code
  /\ pc' = "mark"
  /\ UNCHANGED <<orig, useMap, cursor, changed>>

\* eliminate_deadcode: the definitions of what a useful instruction uses are
\* useful.  The worklist starts with what the sink uses.
Mark(r) ==
  /\ pc = "mark" /\ r \in worklist
  /\ useful' = useful \cup {r}
  /\ worklist' = (worklist \cup (RegsIn(code[r].args) \cap DOMAIN code)) \ useful'
  /\ UNCHANGED <<orig, code, sink, useMap, cursor, changed, pc>>

\* The rest is erased; if that removed anything, the pass is run again.
SweepDead_KeepPhis ==
  /\ pc = "mark" /\ worklist = {}
  /\ code' = OnlyOn(code, useful \cup {r \in DOMAIN code : code[r].op = "phi"})
  /\ useful' = {}
  /\ IF DOMAIN code' # DOMAIN code
     THEN worklist' = RegsIn(<<sink>>) \cap DOMAIN code' /\ UNCHANGED <<cursor, pc>>
     ELSE worklist' = {} /\ cursor' = 1 /\ pc' = "fold"
  /\ UNCHANGED <<orig, sink, useMap, changed>>
SweepDead ==
  /\ pc = "mark" /\ worklist = {}
  /\ code' = OnlyOn(code, useful)
  /\ useful' = {}
  /\ IF DOMAIN code' # DOMAIN code
     THEN worklist' = RegsIn(<<sink>>) \cap DOMAIN code' /\ UNCHANGED <<cursor, pc>>
     ELSE worklist' = {} /\ cursor' = 1 /\ pc' = "fold"
  /\ UNCHANGED <<orig, sink, useMap, changed>>

\* constant_fold's result for one instruction, {} for none.  The later test of
\* two that apply wins.
FoldAdd(a, b) ==
  IF IsImm(a) /\ IsImm(b) THEN {Imm(a[2] + b[2])}
  ELSE IF a = Imm(0) THEN {b} ELSE IF b = Imm(0) THEN {a} ELSE {}
FoldSub(a, b) ==
  IF IsImm(a) /\ IsImm(b) THEN {Imm(a[2] - b[2])}
  ELSE IF a = b THEN {Imm(0)} ELSE IF b = Imm(0) THEN {a} ELSE {}
FoldMul(a, b) ==
  IF IsImm(a) /\ IsImm(b) THEN {Imm(a[2] * b[2])}
  ELSE IF b = Imm(1) THEN {a} ELSE IF a = Imm(1) THEN {b}
  ELSE IF Imm(0) \in {a, b} THEN {Imm(0)} ELSE {}
FoldResult_ZeroMinus(inst) ==
  CASE inst.op = "add" -> FoldAdd(inst.args[1], inst.args[2])
    [] inst.op = "sub" -> FoldSub(inst.args[1], inst.args[2]) \cup
                            (IF inst.args[1] = Imm(0) /\ IsReg(inst.args[2]) THEN {inst.args[2]} ELSE {})
    [] inst.op = "mul" -> FoldMul(inst.args[1], inst.args[2])
    [] OTHER -> {}
FoldResult(inst) ==
  CASE inst.op = "add" -> FoldAdd(inst.args[1], inst.args[2])
    [] inst.op = "sub" -> FoldSub(inst.args[1], inst.args[2])
    [] inst.op = "mul" -> FoldMul(inst.args[1], inst.args[2])
    [] OTHER -> {}

\* A foldable instruction is replaced in all its uses and removed at once.
Fold(r) ==
  /\ pc = "fold" /\ cursor = r
  /\ cursor' = r + 1
  /\ IF r \in DOMAIN code /\ FoldResult(code[r]) # {}
     THEN \E by \in FoldResult(code[r]) :
            /\ code' = [q \in DOMAIN code \ {r} |-> ReplaceUse(code[q], r, by)]
            /\ sink' = ReplaceReg(sink, r, by)
            /\ changed' = TRUE
     ELSE UNCHANGED <<code, sink, changed>>
  /\ UNCHANGED <<orig, useMap, useful, worklist, pc>>

\* while(constant_fold(func))
EndFold_Sticky ==
  /\ pc = "fold" /\ cursor > NumRegs
  /\ IF changed
     THEN cursor' = 1 /\ UNCHANGED <<changed, pc>>
     ELSE pc' = "done" /\ UNCHANGED <<cursor, changed>>
  /\ UNCHANGED <<orig, code, sink, useMap, useful, worklist>>
EndFold ==
  /\ pc = "fold" /\ cursor > NumRegs
  /\ IF changed
     THEN cursor' = 1 /\ changed' = FALSE /\ UNCHANGED pc
     ELSE pc' = "done" /\ UNCHANGED <<cursor, changed>>
  /\ UNCHANGED <<orig, code, sink, useMap, useful, worklist>>

Returned == pc = "done" /\ UNCHANGED vars

Next ==
  \/ VisitPhi \/ ReplacePhis \/ SweepDead \/ EndFold
  \/ \E r \in Regs : Mark(r) \/ Fold(r)
  \/ Returned

Spec == Init /\ [][Next]_vars

\* Sequential code: it never pauses between two steps.
FairSpec == Spec /\ WF_vars(Next)

-----------------------------------------------------------------------------
\* What operand o of function c evaluates to when every phi is entered through
\* its arm-th predecessor (or its only one), val holding the registers.
OfOperand(val, o) == IF IsImm(o) THEN o[2] ELSE val[o[2]]
Apply(op, x, y) == CASE op = "add" -> x + y [] op = "sub" -> x - y [] op = "mul" -> x * y
Result(inst, val, arm) ==
  IF inst.op = "phi" THEN OfOperand(val, inst.args[IF Len(inst.args) = 1 THEN 1 ELSE arm])
  ELSE Apply(inst.op, OfOperand(val, inst.args[1]), OfOperand(val, inst.args[2]))
Value(c, o, arm) ==
  LET val[r \in DOMAIN c] == Result(c[r], val, arm)
  IN OfOperand(val, o)

AllUses == RegsIn(<<sink>>) \cup UNION {RegsIn(code[r].args) : r \in DOMAIN code}

\* Every variable has its type.
TypeOK ==
  /\ DOMAIN code \subseteq Regs
  /\ \A r \in DOMAIN code : code[r].op \in Ops \cup {"phi"}
  /\ useful \subseteq Regs /\ worklist \subseteq DOMAIN code
  /\ cursor \in 1..NumRegs + 1
  /\ pc \in {"phi", "mark", "fold", "done"}

\* Between two passes, and after every single fold, no remaining instruction
\* uses a register that nothing defines: "not needed any more", as the code
\* says of a removed phi.
NoDanglingUse == pc # "phi" => AllUses \subseteq DOMAIN code

\* The passes never change the value the sink sees, whichever way its blocks
\* are entered.
SameMeaning ==
  pc # "phi" => \A arm \in {1, 2} :
                  Value(code, sink, arm) = Value(orig.code, orig.sink, arm)

\* What eliminate_deadcode leaves when it stops removing is needed by the sink.
Needs(c, o, r) ==
  \A S \in SUBSET DOMAIN c :
    RegsIn(<<o>>) \subseteq S /\ (\A q \in S : RegsIn(c[q].args) \subseteq S) => r \in S
NothingDead ==
  [][pc = "mark" /\ pc' = "fold" => \A r \in DOMAIN code' : Needs(code', sink', r)]_vars

\* The passes end.
Terminates == <>(pc = "done")
=============================================================================
