------------------------------- MODULE Inline -------------------------------
(***************************************************************************)
(* FunctionInline::optimize in src/ir/optimizer.cpp: as long as there is   *)
(* a cheap function it is taken out of the program and every call of it is *)
(* replaced by a copy of its blocks (extract_cheap_func, inline_func).     *)
(*                                                                         *)
(* A function is its name, the number of its parameters (registers 0, 1,   *)
(* ...) and its blocks; a block is a label and its instructions.  All the  *)
(* instructions are records with the same fields:                          *)
(*   [op, dst, args, labels, callee]                                       *)
(* A phi has one label per argument, "br" one and "cbr" two.  A label is   *)
(* <<hint, number, appendix>>, the appendix a sequence of <<name, number>>.*)
(* Block ids are recomputed by update_block_ids from the labels, so a      *)
(* branch is followed by its label here.                                   *)
(***************************************************************************)
EXTENDS Integers, Sequences, FiniteSets, SequencesExt

CONSTANTS
  Programs,   \* the programs (sequences of functions) the pass starts from
  Threshold   \* INLINE_THRESHOLD

VARIABLES
  before,  \* the program as it was given
  pack,    \* ir.function_packs
  cheap,   \* the function being inlined, or NoFunction
  cur,     \* index in pack of the function being searched for calls
  bb,      \* idx_bb: index of the block to search next
  hint,    \* hint_id
  pc       \* "extract", "inline" or "done"

vars == <<before, pack, cheap, cur, bb, hint, pc>>

NoName == ""
NoFunction == [name |-> NoName, nparams |-> 0, blocks |-> <<>>]
NoReg == -1
IsReg(o) == o[1] = "reg"
Reg(r) == <<"reg", r>>

\* The instructions of f, each known by its block and its place in the block.
Positions(f) == UNION {{b} \X DOMAIN f.blocks[b].insns : b \in DOMAIN f.blocks}
At(f, p) == f.blocks[p[1]].insns[p[2]]
Precedes(p, q) == p[1] < q[1] \/ (p[1] = q[1] /\ p[2] < q[2])
Insns(f) == {At(f, p) : p \in Positions(f)}
Labels(f) == {f.blocks[b].label : b \in DOMAIN f.blocks}
\* Instruction inst with another result, other operands and other labels, and f
\* with every instruction replaced by its image under G.
Rewritten(inst, dst, args, labels) ==
  [op |-> inst.op, dst |-> dst, args |-> args, labels |-> labels, callee |-> inst.callee]
MapInsns(f, G(_)) ==
  [name |-> f.name, nparams |-> f.nparams,
   blocks |-> [b \in DOMAIN f.blocks |->
     [label |-> f.blocks[b].label,
      insns |-> [i \in DOMAIN f.blocks[b].insns |-> G(f.blocks[b].insns[i])]]]]

-----------------------------------------------------------------------------
\* instr_cost.
Cost(inst) ==
  CASE inst.op = "mul" -> 3
    [] inst.op \in {"div", "rem", "call", "print"} -> 15
    [] inst.op = "phi" -> 0
    [] OTHER -> 1
\* func_cost, with SINGLE_BB_BONUS; a function that calls itself has none.
CallsItself(f) == \E inst \in Insns(f) : inst.op = "call" /\ inst.callee = f.name
FuncCost(f) ==
  LET costs == FlattenSeq([b \in DOMAIN f.blocks |->
                 [i \in DOMAIN f.blocks[b].insns |-> Cost(f.blocks[b].insns[i])]])
  IN FoldSeq(LAMBDA x, y : x + y, 0, costs) - (IF Len(f.blocks) = 1 THEN 10 ELSE 0)
IsCheap(f) == f.name # "main" /\ ~CallsItself(f) /\ FuncCost(f) <= Threshold

\* largest_reg_id: over uses and definitions, the parameter list not included.
Used(inst) == {inst.args[j][2] : j \in {k \in DOMAIN inst.args : IsReg(inst.args[k])}}
                \cup ({inst.dst} \ {NoReg})
Largest(f) ==
  LET used == UNION {Used(inst) : inst \in Insns(f)}
  IN CHOOSE m \in used \cup {0} : \A r \in used : r <= m

\* reorder_reg_ids: registers of the body are numbered in order of definition.
Numbered(f) == {r \in {inst.dst : inst \in Insns(f)} : r >= f.nparams}
WrittenBefore(f, r) ==
  {At(f, p).dst : p \in {q \in Positions(f) : \A w \in Positions(f) : At(f, w).dst = r => Precedes(q, w)}}
NewId(f, r) ==
  IF r \in Numbered(f) THEN f.nparams + Cardinality(WrittenBefore(f, r) \cap Numbered(f)) ELSE r
Reorder(f) ==
  MapInsns(f, LAMBDA inst :
    Rewritten(inst, IF inst.dst = NoReg THEN NoReg ELSE NewId(f, inst.dst),
              [j \in DOMAIN inst.args |->
                 IF IsReg(inst.args[j]) THEN Reg(NewId(f, inst.args[j][2])) ELSE inst.args[j]],
              inst.labels))

-----------------------------------------------------------------------------
Tag(l, name, n) == <<l[1], l[2], Append(l[3], <<name, n>>)>>
Br(l) == [op |-> "br", dst |-> NoReg, args |-> <<>>, labels |-> <<l>>, callee |-> NoName]

\* The copy of callee g for call number n: labels get the appendix, registers
\* the offset, parameters become the call's arguments.
Shifted(r, offset) == IF r = NoReg THEN NoReg ELSE r + offset
Argument(o, offset, args) ==
  IF ~IsReg(o) THEN o ELSE IF o[2] < Len(args) THEN args[o[2] + 1] ELSE Reg(o[2] + offset)
Renamed_IncomesKept(inst, g, n, offset, args) ==
  Rewritten(inst, Shifted(inst.dst, offset),
            [j \in DOMAIN inst.args |-> Argument(inst.args[j], offset, args)],
            [j \in DOMAIN inst.labels |-> IF inst.op = "phi" THEN inst.labels[j] ELSE Tag(inst.labels[j], g.name, n)])
Renamed(inst, g, n, offset, args) ==
  Rewritten(inst, Shifted(inst.dst, offset),
            [j \in DOMAIN inst.args |-> Argument(inst.args[j], offset, args)],
            [j \in DOMAIN inst.labels |-> Tag(inst.labels[j], g.name, n)])
Copy(g, n, offset, args) ==
  [b \in DOMAIN g.blocks |->
     [label |-> Tag(g.blocks[b].label, g.name, n),
      insns |-> [i \in DOMAIN g.blocks[b].insns |-> Renamed(g.blocks[b].insns[i], g, n, offset, args)]]]

\* A return of the copy becomes a branch to the label after the call, and what
\* it returned an income of the phi there.
ReturnsTo(blocks, ending) ==
  [b \in DOMAIN blocks |->
     [label |-> blocks[b].label,
      insns |-> [i \in DOMAIN blocks[b].insns |->
                   IF blocks[b].insns[i].op = "ret" THEN Br(ending) ELSE blocks[b].insns[i]]]]
Incomes(blocks) ==
  LET upTo[n \in 0..Len(blocks)] ==
        IF n = 0 THEN <<>>
        ELSE IF Last(blocks[n].insns).op = "ret" /\ Last(blocks[n].insns).args # <<>>
        THEN Append(upTo[n - 1], blocks[n]) ELSE upTo[n - 1]
  IN upTo[Len(blocks)]
ResultPhi(dst, blocks) ==
  LET returning == Incomes(blocks)
  IN [op |-> "phi", dst |-> dst, callee |-> NoName,
      args |-> [j \in DOMAIN returning |-> Last(returning[j].insns).args[1]],
      labels |-> [j \in DOMAIN returning |-> returning[j].label]]

\* Phis that named the split block now receive from its second half.
RedirectPhis_Not(f, starting, ending) == f
RedirectPhis(f, starting, ending) ==
  MapInsns(f, LAMBDA inst :
    IF inst.op # "phi" THEN inst
    ELSE Rewritten(inst, inst.dst, inst.args,
                   [j \in DOMAIN inst.labels |-> IF inst.labels[j] = starting THEN ending ELSE inst.labels[j]]))

\* inline_func for the call at instruction i of block b of f: the block before
\* the call, the copy, and the block after the call take the place of block b.
Ending(g, n) == <<"inline_exit", n, <<<<g.name, n>>>>>>
Left(block, i, entry) == [label |-> block.label, insns |-> Append(SubSeq(block.insns, 1, i - 1), Br(entry))]
Right(block, i, copy, ending) ==
  LET dst == block.insns[i].dst
      rest == SubSeq(block.insns, i + 1, Len(block.insns))
  IN [label |-> ending, insns |-> IF dst = NoReg THEN rest ELSE <<ResultPhi(dst, copy)>> \o rest]
InlineAt(f, b, i, g, n) ==
  LET block == f.blocks[b]
      ending == Ending(g, n)
      copy == Copy(g, n, Largest(f) + 1, block.insns[i].args)
      spliced == SubSeq(f.blocks, 1, b - 1) \o <<Left(block, i, copy[1].label)>> \o ReturnsTo(copy, ending)
                   \o <<Right(block, i, copy, ending)>> \o SubSeq(f.blocks, b + 1, Len(f.blocks))
  IN RedirectPhis([name |-> f.name, nparams |-> f.nparams, blocks |-> spliced], block.label, ending)

\* The call of g the two loops over blocks and instructions find next: its
\* block, the first from block b on that has one, or 0.
FirstCall(insns, g) == SelectInSeq(insns, LAMBDA x : x.op = "call" /\ x.callee = g.name)
CallBlock(f, b, g) ==
  LET with == {k \in b..Len(f.blocks) : FirstCall(f.blocks[k].insns, g) > 0}
  IN IF with = {} THEN 0 ELSE CHOOSE k \in with : \A j \in with : k <= j
\* Where the search goes on: at the block after the call, whose number the copy moved.
NextBlock(b, g) == b + Len(g.blocks) + 1

-----------------------------------------------------------------------------
\* What a function is like: where its branches lead and its phis receive from,
\* and that a register is written, in the order of the blocks, before it is read.
Targets(blk) == IF Last(blk.insns).op \in {"br", "cbr"} THEN ToSet(Last(blk.insns).labels) ELSE {}
PredLabels(f, l) == {f.blocks[b].label : b \in {k \in DOMAIN f.blocks : l \in Targets(f.blocks[k])}}
LabelsUnique(f) == \A a, b \in DOMAIN f.blocks : f.blocks[a].label = f.blocks[b].label => a = b
BranchesLead(f) == \A b \in DOMAIN f.blocks : Targets(f.blocks[b]) \subseteq Labels(f)
NoCriticalEdge(f) ==
  \A b \in DOMAIN f.blocks : \A l, m \in Targets(f.blocks[b]) :
    l # m => PredLabels(f, l) = {f.blocks[b].label}
IncomesExact(f) ==
  \A p \in Positions(f) :
    At(f, p).op = "phi" => /\ ToSet(At(f, p).labels) = PredLabels(f, f.blocks[p[1]].label)
                           /\ IsInjective(At(f, p).labels)
DefinedFirst(f) ==
  \A p \in Positions(f) : At(f, p).op # "phi" =>
    \A o \in ToSet(At(f, p).args) :
      IsReg(o) => o[2] < f.nparams \/ \E q \in Positions(f) : Precedes(q, p) /\ At(f, q).dst = o[2]
WellFormed(f) == LabelsUnique(f) /\ BranchesLead(f) /\ NoCriticalEdge(f) /\ IncomesExact(f) /\ DefinedFirst(f)
CallsLead(f, names) == \A inst \in Insns(f) : inst.op = "call" => inst.callee \in names

\* A block ends at its first terminator, "phi only appears at the front" of it,
\* and the first block is entered by calls only.
Terminators == {"br", "cbr", "ret", "unreachable"}
IsSequence(s) == s \in Seq(ToSet(s))
Formed(f) ==
  /\ f.nparams \in Nat /\ IsSequence(f.blocks) /\ f.blocks # <<>>
  /\ \A b \in DOMAIN f.blocks : /\ IsSequence(f.blocks[b].insns) /\ f.blocks[b].insns # <<>>
                               /\ f.blocks[1].label \notin Targets(f.blocks[b])
  /\ \A p \in Positions(f) :
       LET inst == At(f, p)
       IN /\ IsSequence(inst.args) /\ IsSequence(inst.labels) /\ inst.dst \in Nat \cup {NoReg}
          /\ \A o \in ToSet(inst.args) : IsReg(o) => o[2] \in Nat
          /\ inst.op \in Terminators <=> p[2] = Len(f.blocks[p[1]].insns)
          /\ inst.op \in Terminators => inst.dst = NoReg
          /\ inst.op = "phi" => p[1] # 1 /\ \A i \in 1..p[2] : At(f, <<p[1], i>>).op = "phi"

\* A call has an argument for each parameter of the callee, and a result only if
\* the callee returns one.
ReturnsValue(f) == \A inst \in Insns(f) : inst.op = "ret" => inst.args # <<>>
CallsFit(f, functions) ==
  \A inst \in Insns(f), g \in functions :
    inst.op = "call" /\ inst.callee = g.name =>
      Len(inst.args) = g.nparams /\ (inst.dst # NoReg => ReturnsValue(g))

\* The programs main.cpp gives the pass: Canonicalization has run on them, and
\* no inlining.
Given(program) ==
  /\ IsSequence(program)
  /\ \A j, k \in DOMAIN program : program[j].name = program[k].name => j = k
  /\ \A f \in ToSet(program) :
       /\ Formed(f) /\ WellFormed(f)
       /\ CallsLead(f, {g.name : g \in ToSet(program)}) /\ CallsFit(f, ToSet(program))
       /\ \A l \in Labels(f) : l = <<l[1], l[2], <<>>>> /\ l[1] # "inline_exit"
ASSUME ProgramsAssumption == \A program \in Programs : Given(program)

-----------------------------------------------------------------------------
InitWith(program) ==
  /\ pack = program /\ before = pack
  /\ cheap = NoFunction /\ cur = 1 /\ bb = 1 /\ hint = -1
  /\ pc = "extract"
Init == \E program \in Programs : InitWith(program)

\* extract_cheap_func: the first cheap function leaves the program.
Extract ==
  /\ pc = "extract"
  /\ LET k == SelectInSeq(pack, IsCheap)
     IN IF k = 0
        THEN pc' = "done" /\ UNCHANGED <<pack, cheap, cur, bb, hint>>
        ELSE /\ cheap' = pack[k] /\ pack' = RemoveAt(pack, k)
             /\ cur' = 1 /\ bb' = 1 /\ hint' = -1
             /\ pc' = "inline"
  /\ UNCHANGED before

InlineCall ==
  /\ pc = "inline" /\ cur <= Len(pack)
  /\ LET b == CallBlock(pack[cur], bb, cheap)
     IN /\ b > 0
        /\ hint' = hint + 1
        /\ pack' = [pack EXCEPT ![cur] =
                      InlineAt(@, b, FirstCall(@.blocks[b].insns, cheap), cheap, hint + 1)]
        /\ bb' = NextBlock(b, cheap)
  /\ UNCHANGED <<before, cheap, cur, pc>>

\* No more calls in this function; a changed one is renumbered.
NextFunction ==
  /\ pc = "inline" /\ cur <= Len(pack) /\ CallBlock(pack[cur], bb, cheap) = 0
  /\ pack' = IF hint >= 0 THEN [pack EXCEPT ![cur] = Reorder(@)] ELSE pack
  /\ cur' = cur + 1 /\ bb' = 1 /\ hint' = -1
  /\ UNCHANGED <<before, cheap, pc>>

NextCheap ==
  /\ pc = "inline" /\ cur > Len(pack)
  /\ pc' = "extract"
  /\ UNCHANGED <<before, pack, cheap, cur, bb, hint>>

Next == Extract \/ InlineCall \/ NextFunction \/ NextCheap

Spec == Init /\ [][Next]_vars

-----------------------------------------------------------------------------
\* The functions still in the program, and the one being inlined.
Callable == {pack[k].name : k \in DOMAIN pack} \cup (IF pc = "inline" THEN {cheap.name} ELSE {})

\* After every inlined call: no call is left behind of a function that was
\* erased, labels are unique (update_block_ids would silently drop a second
\* one), branches lead somewhere, a phi has one income per predecessor, no edge
\* is critical, and a register is written, in the order of the blocks, before it
\* is read.  Canonicalization runs again after the pass and numbers the blocks it
\* splits edges with from 0 again, so that one new edge to split would give two
\* blocks the same label; the live intervals begin where a register is written.
WellFormedBlocks == \A k \in DOMAIN pack : WellFormed(pack[k]) /\ CallsLead(pack[k], Callable)
=============================================================================
