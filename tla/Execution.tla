----------------------------- MODULE Execution -----------------------------
(***************************************************************************)
(* What the programs of module Inline print when they run, which the pass  *)
(* is not to change.                                                       *)
(***************************************************************************)
EXTENDS Inline

CONSTANT Fuel  \* bound on the steps of a run of the program

\* A run of program p: a stack of frames, a frame being the function, the block
\* and instruction it is at, its registers and the block it came from.
FunctionNamed(p, name) == p[SelectInSeq(p, LAMBDA f : f.name = name)]
Frame(f, args) ==
  [f |-> f, b |-> 1, i |-> 1, from |-> <<>>, into |-> NoReg,
   regs |-> [r \in 0..Len(args) - 1 |-> args[r + 1]]]
With(regs, r, v) == [x \in DOMAIN regs \cup {r} |-> IF x = r THEN v ELSE regs[x]]
Ready(fr, o) == IsReg(o) => o[2] \in DOMAIN fr.regs
Val(fr, o) == IF IsReg(o) THEN fr.regs[o[2]] ELSE o[2]
Compute(op, x, y) ==
  CASE op = "add" -> x + y [] op = "mul" -> x * y [] op = "lt" -> IF x < y THEN 1 ELSE 0
Goto(fr, label) ==
  [fr EXCEPT !.from = fr.f.blocks[fr.b].label, !.i = 1,
             !.b = SelectInSeq(fr.f.blocks, LAMBDA blk : blk.label = label)]
\* The arm of a phi that belongs to the edge taken, 0 when it has none.
Arm(fr, inst) == SelectInSeq(inst.labels, LAMBDA l : l = fr.from)

\* What program p prints, cut at n steps of main and its callees.  It is stuck
\* at an instruction that reads a register nothing has written, and at a phi
\* without an arm for the edge taken.
RECURSIVE Trace(_, _, _)
Trace(p, stack, n) ==
  IF n = 0 THEN <<<<"more">>>>
  ELSE
  LET fr == Head(stack)
      rest == Tail(stack)
      inst == fr.f.blocks[fr.b].insns[fr.i]
      arg(j) == Val(fr, inst.args[j])
      values == [j \in DOMAIN inst.args |-> arg(j)]
      Step(v) == [fr EXCEPT !.i = @ + 1, !.regs = IF inst.dst = NoReg THEN @ ELSE With(@, inst.dst, v)]
      Continue(stk) == Trace(p, stk, n - 1)
  IN CASE inst.op = "phi" /\ Arm(fr, inst) = 0 -> <<<<"stuck">>>>
       [] inst.op = "phi" /\ Arm(fr, inst) > 0 ->
            IF Ready(fr, inst.args[Arm(fr, inst)]) THEN Continue(<<Step(arg(Arm(fr, inst)))>> \o rest)
            ELSE <<<<"stuck">>>>
       [] inst.op # "phi" /\ (\E o \in ToSet(inst.args) : ~Ready(fr, o)) -> <<<<"stuck">>>>
       [] inst.op = "print" -> <<<<"print", arg(1)>>>> \o Continue(<<Step(0)>> \o rest)
       [] inst.op = "br" -> Continue(<<Goto(fr, inst.labels[1])>> \o rest)
       [] inst.op = "cbr" -> Continue(<<Goto(fr, inst.labels[IF arg(1) # 0 THEN 1 ELSE 2])>> \o rest)
       [] inst.op = "call" ->
            Continue(<<[Frame(FunctionNamed(p, inst.callee), values) EXCEPT !.into = inst.dst],
                       [fr EXCEPT !.i = @ + 1]>> \o rest)
       [] inst.op = "ret" ->
            IF rest = <<>> THEN <<<<"end">>>>
            ELSE Continue(<<[Head(rest) EXCEPT !.regs = IF fr.into = NoReg THEN @ ELSE With(@, fr.into, arg(1))]>>
                            \o Tail(rest))
       [] OTHER -> Continue(<<Step(Compute(inst.op, arg(1), arg(2)))>> \o rest)

Printed(p) == Trace(p, <<Frame(FunctionNamed(p, "main"), <<>>)>>, Fuel)
\* The prints two runs made before either was cut agree.
Agree(s, t) ==
  LET m == IF Len(s) < Len(t) THEN Len(s) ELSE Len(t)
  IN /\ \A j \in 1..m - 1 : s[j] = t[j]
     /\ s[m] = t[m] \/ <<"more">> \in {s[m], t[m]}

\* Between two functions the program prints what it printed before the pass.
SameBehaviour ==
  pc \in {"extract", "done"} => Agree(Printed(before), Printed(pack))
=============================================================================
