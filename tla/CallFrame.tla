----------------------------- MODULE CallFrame -----------------------------
(***************************************************************************)
(* One call, from generate_call in the caller through generate_prologue    *)
(* and generate_epilogue of the callee (src/backend/asm_generator.cpp),    *)
(* on the frames that allocate_registers lays out and with the registers   *)
(* that calc_caller_callee_save chooses to save (src/backend/regalloc.cpp).*)
(*                                                                         *)
(* Both functions are any functions: the caller is given by where its      *)
(* virtual registers are and when they live, the callee by its frame and   *)
(* the places of its parameters.  The callee's body destroys whatever it   *)
(* may: all that its own calls may destroy, the registers it uses and its  *)
(* own areas of the frame.                                                 *)
(*                                                                         *)
(* Addresses are in bytes, a memory cell has eight; the caller's sp is 0.  *)
(* parallel_assignment is simultaneous (module ParallelCopy).              *)
(***************************************************************************)
EXTENDS Integers, Sequences, FiniteSets, SequencesExt

CONSTANTS
  ArgRegs,      \* the sequence of argument registers (a0 to a7)
  CallerSaved,  \* kCallerSaveRegs, with ArgRegs among them
  CalleeSaved,  \* kCalleeSaveRegs
  VRegs,        \* virtual registers of the caller
  Callers, Callees,  \* frames of the two functions
  MaxArgs,
  Depth         \* cells of memory above and below the caller's sp

Regs == CallerSaved \cup CalleeSaved
ra == "ra"

ASSUME RegistersAssumption ==
  /\ ArgRegs \in Seq(CallerSaved) /\ ArgRegs # <<>> /\ IsInjective(ArgRegs)
  /\ IsFiniteSet(CallerSaved)
  /\ CallerSaved \cap CalleeSaved = {} /\ ra \notin Regs
  /\ VRegs \subseteq Nat /\ MaxArgs \in Nat /\ Depth \in Nat

-----------------------------------------------------------------------------
(* AllocationResult.  A frame f has the fields                             *)
(*   spill, local   sizes of the spill area and of the local variables     *)
(*   saved          the callee-saved registers used, in the order of the   *)
(*                  loops over them                                        *)
(*   maxSave        the most caller-saved registers a call saves           *)
(*   leaf           no call in the function                                *)
(*   params         the place of each parameter                            *)

InReg(r) == <<"reg", r>>
Spill(n) == <<"spill", n>>
Addr(n) == <<"addr", n>>

RaArea(f) == IF f.leaf THEN 0 ELSE 8
StackArgs(n) == IF n > Len(ArgRegs) THEN n - Len(ArgRegs) ELSE 0

CallerSaveOffset(f) == f.spill
\* Mutant: the callee-saved registers share the caller-saved ones' area.
CalleeSaveOffset_OverSaves(f) == CallerSaveOffset(f)
CalleeSaveOffset(f) == CallerSaveOffset(f) + 8 * f.maxSave
ReturnAddrOffset(f) == CalleeSaveOffset(f) + 8 * Len(f.saved)
LocalVarOffset(f) == ReturnAddrOffset(f) + RaArea(f)
FrameSize(f) ==
  LET size == f.spill + f.local + 8 * Len(f.saved) + 8 * f.maxSave
                + RaArea(f) + 8 * StackArgs(Len(f.params))
  IN ((size + 15) \div 16) * 16
SpillArgsOffset(f) == FrameSize(f) - 8 * StackArgs(Len(f.params))

\* Where the callee looks for its k-th parameter.
ParamPlace(f, k) ==
  IF k <= Len(ArgRegs) THEN f.params[k]
  ELSE Spill(SpillArgsOffset(f) + 8 * (k - Len(ArgRegs) - 1))

\* The spill area is made of words.  A parameter that arrives in a register
\* stays there or has a word of the spill area (linear_coloring), and no two
\* share a place.
IsFrame(f) ==
  /\ f.spill \in Nat /\ f.local \in Nat /\ f.maxSave \in Nat /\ f.spill % 8 = 0
  /\ f.saved \in Seq(CalleeSaved) /\ f.leaf \in BOOLEAN
  /\ Len(f.params) \in Nat /\ DOMAIN f.params = 1..Len(f.params)
  /\ \A k \in DOMAIN f.params \cap DOMAIN ArgRegs :
       /\ \/ f.params[k] = InReg(ArgRegs[k])
          \/ \E n \in 0..f.spill - 1 : n % 8 = 0 /\ f.params[k] = Spill(n)
       /\ \A j \in DOMAIN f.params \cap DOMAIN ArgRegs : j # k => f.params[j] # f.params[k]

\* The stack that is modelled has room for either frame.
ASSUME FramesAssumption ==
  \A f \in Callers \cup Callees : IsFrame(f) /\ FrameSize(f) <= 8 * Depth

-----------------------------------------------------------------------------

VARIABLES
  caller, callee,  \* the frames (input)
  place,     \* mapping of the caller: virtual register |-> place (input)
  iv,        \* intervals of the virtual registers, the call being at CallAt (input)
  args,      \* arguments: <<"v", register>> or <<"imm", 0>> (input)
  dst,       \* the set of the register the call defines, or no register (input)
  order,     \* caller_to_save[call], in the order of the loops over it (input)
  regs,      \* contents of the registers, ra included
  mem,       \* contents of the stack
  sp,
  pc         \* the next operation

input == <<caller, callee, place, iv, args, dst, order>>
vars == <<input, regs, mem, sp, pc>>

CallAt == 3
Cells == {8 * k : k \in -Depth..Depth - 1}
Junk == <<"junk", 0>>
Result == <<"result", 0>>
BackToCaller == <<"return", 0>>
ValueAt(v) == <<"v", v>>   \* what virtual register v holds before the call

LiveBefore(v) == v \notin dst /\ iv[v].start < CallAt /\ CallAt <= iv[v].end
LiveAfter(v) == CallAt < iv[v].end /\ iv[v].start <= CallAt
Across == {v \in VRegs \ dst : LiveAfter(v)}

\* calc_caller_callee_save: the last interval to have started by the call,
\* among those that were given r, has not ended.
InRegister(r) == {v \in VRegs : place[v] = InReg(r)}
Saves(r) ==
  \E v \in InRegister(r) :
    /\ iv[v].start <= CallAt /\ CallAt <= iv[v].end
    /\ \A u \in InRegister(r) : iv[u].start <= CallAt => iv[u].start <= iv[v].start
CallerToSave == {r \in CallerSaved : Saves(r)}

\* Mutant: the register of the result is restored as well.
Saved_ResultToo == order
\* The registers saved around the call: not the one that takes the result
\* (caller_save_result), which is skipped before the offset advances.
Saved ==
  LET result == {k \in DOMAIN order : \E v \in dst : place[v] = InReg(order[k])}
  IN IF result = {} THEN order ELSE RemoveAt(order, CHOOSE k \in result : TRUE)

\* What place p holds before the call.
LiveIn(p) == {v \in VRegs : LiveBefore(v) /\ place[v] = p}
OneOf(S) == CHOOSE v \in S : TRUE
AtStart(p, otherwise) == IF LiveIn(p) = {} THEN otherwise ELSE ValueAt(OneOf(LiveIn(p)))
RegAtStart(r) == AtStart(InReg(r), <<"own", r>>)
CellAtStart(a) == AtStart(Spill(a), <<"cell", a>>)

Read(p) ==
  CASE p[1] = "reg" -> regs[p[2]]
    [] p[1] = "spill" -> mem[sp + p[2]]
    [] p[1] = "addr" -> <<"address", sp + p[2]>>
ArgValue(a) == IF a[1] = "v" THEN Read(place[a[2]]) ELSE a

\* The words of ws stored one after the other from address `from'.
Stored(m, from, ws) ==
  [a \in DOMAIN m |-> IF (a - from) \div 8 \in 0..Len(ws) - 1
                      THEN ws[((a - from) \div 8) + 1] ELSE m[a]]
\* The registers rs loaded from one cell after the other from `from'.
Loaded(g, from, rs) ==
  [r \in DOMAIN g |-> IF \E k \in DOMAIN rs : rs[k] = r
                      THEN mem[from + 8 * ((CHOOSE k \in DOMAIN rs : rs[k] = r) - 1)]
                      ELSE g[r]]
Contents(rs) == [k \in DOMAIN rs |-> regs[rs[k]]]

-----------------------------------------------------------------------------
(* The inputs: places as linear_coloring assigns them (no two registers    *)
(* that live at the same time share one), arguments that live at the call, *)
(* frames that are large enough for their function.                        *)

Places(f) ==
  {InReg(r) : r \in Regs} \cup {Spill(8 * k) : k \in 0..(f.spill \div 8) - 1}
    \cup (IF f.local = 0 THEN {} ELSE {Addr(LocalVarOffset(f))})

\* Intervals as seen from the call: over before it, read by it or living on
\* (from the start, or from when another is over), starting after it; and
\* those of its destination, used or not.
Interval(s, e) == [start |-> s, end |-> e]
Spans == {Interval(0, 1), Interval(2, CallAt), Interval(0, 4), Interval(2, 4), Interval(4, 4)}
SpansOfDst == {Interval(CallAt, CallAt), Interval(CallAt, 4)}

Interfere(u, v) ==
  u # v /\ iv[u].start <= iv[v].end /\ iv[v].start <= iv[u].end /\ place[u] = place[v]

CallerInputs ==
  /\ caller \in Callers
  /\ dst \in {{}} \cup {{v} : v \in VRegs}
  /\ iv \in [VRegs -> Spans \cup SpansOfDst]
  /\ \A v \in VRegs : iv[v] \in SpansOfDst <=> v \in dst
  /\ place \in [VRegs -> Places(caller)]
  /\ \A u, v \in VRegs : ~Interfere(u, v)
  /\ \A v \in dst : place[v][1] # "addr"
  /\ order \in SetToSeqs(CallerToSave)
  /\ Len(order) <= caller.maxSave

CalleeInputs ==
  /\ callee \in Callees
  /\ Len(callee.params) <= MaxArgs
  /\ args \in [DOMAIN callee.params ->
                 {<<"imm", 0>>} \cup {<<"v", v>> : v \in {u \in VRegs : LiveBefore(u)}}]

AtTheCall ==
  /\ regs = [r \in Regs \cup {ra} |-> IF r = ra THEN <<"own", ra>> ELSE RegAtStart(r)]
  /\ mem = [a \in Cells |-> CellAtStart(a)]
  /\ sp = 0
  /\ pc = "save"

Init == CallerInputs /\ CalleeInputs /\ AtTheCall

-----------------------------------------------------------------------------
(* generate_call, up to the call                                           *)

Save ==
  /\ pc = "save" /\ pc' = "stack_args"
  /\ mem' = Stored(mem, sp + CallerSaveOffset(caller), Contents(Saved))
  /\ UNCHANGED <<input, regs, sp>>

\* Arguments that have no register go below sp, the last one on top.
PassStackArgs ==
  /\ pc = "stack_args" /\ pc' = "reg_args"
  /\ LET n == StackArgs(Len(args))
     IN mem' = Stored(mem, sp - 8 * n, [k \in 1..n |-> ArgValue(args[Len(ArgRegs) + k])])
  /\ UNCHANGED <<input, regs, sp>>

PassRegArgs ==
  /\ pc = "reg_args" /\ pc' = "call"
  /\ regs' = [r \in DOMAIN regs |->
                IF \E k \in DOMAIN args \cap DOMAIN ArgRegs : ArgRegs[k] = r
                THEN ArgValue(args[CHOOSE k \in DOMAIN ArgRegs : ArgRegs[k] = r])
                ELSE regs[r]]
  /\ UNCHANGED <<input, mem, sp>>

Call ==
  /\ pc = "call"
  /\ pc' = IF FrameSize(callee) > 0 THEN "push" ELSE "body"
  /\ regs' = [regs EXCEPT ![ra] = BackToCaller]
  /\ UNCHANGED <<input, mem, sp>>

-----------------------------------------------------------------------------
(* The callee: generate_prologue, its body, generate_epilogue.  A frame of *)
(* size zero is neither pushed nor popped, and no parameter is moved.      *)

\* sp, the callee-saved registers, then ra.
Push ==
  /\ pc = "push" /\ pc' = "params"
  /\ sp' = sp - FrameSize(callee)
  /\ LET kept == Stored(mem, sp' + CalleeSaveOffset(callee), Contents(callee.saved))
     IN mem' = IF callee.leaf THEN kept
               ELSE Stored(kept, sp' + ReturnAddrOffset(callee), <<regs[ra]>>)
  /\ UNCHANGED <<input, regs>>

MoveParams ==
  /\ pc = "params" /\ pc' = "body"
  /\ LET moved == {k \in DOMAIN callee.params : k <= Len(ArgRegs)}
         source(p) == regs[ArgRegs[CHOOSE k \in moved : ParamPlace(callee, k) = p]]
         places == {ParamPlace(callee, k) : k \in moved}
     IN /\ regs' = [r \in DOMAIN regs |->
                      IF InReg(r) \in places THEN source(InReg(r)) ELSE regs[r]]
        /\ mem' = [a \in Cells |->
                     IF Spill(a - sp) \in places THEN source(Spill(a - sp)) ELSE mem[a]]
  /\ UNCHANGED <<input, sp>>

\* The body may write the registers it saved and those it need not save, ra
\* if it calls, its areas of the frame except the saved words, and everything
\* below the frame.  It leaves its result in a0 (generate_return).
MayWriteCell(a) ==
  LET o == a - sp
  IN \/ o < 0 \/ o \in 0..callee.spill - 1
     \/ o \in CallerSaveOffset(callee)..CallerSaveOffset(callee) + 8 * callee.maxSave - 1
     \/ o \in LocalVarOffset(callee)..LocalVarOffset(callee) + callee.local - 1
Body ==
  /\ pc = "body"
  /\ pc' = IF FrameSize(callee) > 0 THEN "pop" ELSE "return"
  /\ regs' = [r \in DOMAIN regs |->
                CASE r = ArgRegs[1] -> Result
                  [] r \in CallerSaved \ {ArgRegs[1]} \/ r \in Range(callee.saved) -> Junk
                  [] r = ra -> IF callee.leaf THEN regs[ra] ELSE Junk
                  [] OTHER -> regs[r]]
  /\ mem' = [a \in Cells |-> IF MayWriteCell(a) THEN Junk ELSE mem[a]]
  /\ UNCHANGED <<input, sp>>

Pop ==
  /\ pc = "pop" /\ pc' = "return"
  /\ LET back == IF callee.leaf THEN regs
                 ELSE Loaded(regs, sp + ReturnAddrOffset(callee), <<ra>>)
     IN regs' = Loaded(back, sp + CalleeSaveOffset(callee), callee.saved)
  /\ sp' = sp + FrameSize(callee)
  /\ UNCHANGED <<input, mem>>

-----------------------------------------------------------------------------
(* generate_call, from the call on                                         *)

TakeResult ==
  /\ pc = "return" /\ regs[ra] = BackToCaller /\ pc' = "restore"
  /\ regs' = [r \in DOMAIN regs |->
                IF \E v \in dst : place[v] = InReg(r) THEN regs[ArgRegs[1]] ELSE regs[r]]
  /\ mem' = [a \in Cells |->
               IF \E v \in dst : place[v] = Spill(a - sp) THEN regs[ArgRegs[1]] ELSE mem[a]]
  /\ UNCHANGED <<input, sp>>

Restore ==
  /\ pc = "restore" /\ pc' = "done"
  /\ regs' = Loaded(regs, sp + CallerSaveOffset(caller), Saved)
  /\ UNCHANGED <<input, mem, sp>>

Returned == pc = "done" /\ UNCHANGED vars

Next ==
  \/ Save \/ PassStackArgs \/ PassRegArgs \/ Call
  \/ Push \/ MoveParams \/ Body \/ Pop
  \/ TakeResult \/ Restore
  \/ Returned

Spec == Init /\ [][Next]_vars

-----------------------------------------------------------------------------
(* Properties *)

\* sp stays 16-byte aligned, words are stored at multiples of eight within
\* the stack, and registers and cells keep their domains.
TypeOK ==
  /\ pc \in {"save", "stack_args", "reg_args", "call", "push", "params", "body",
             "pop", "return", "restore", "done"}
  /\ DOMAIN regs = Regs \cup {ra} /\ DOMAIN mem = Cells
  /\ sp \in {0, -FrameSize(callee)} /\ sp % 16 = 0
  /\ \A f \in {caller, callee} :
       \A n \in {CalleeSaveOffset(f), ReturnAddrOffset(f), SpillArgsOffset(f)} : n % 8 = 0

\* When the callee returns, sp, ra and the callee-saved registers are what
\* they were at the call, and so is the stack from the caller's sp upwards
\* (without the area where the caller has just saved its registers).
CalleeContract ==
  pc = "return" =>
    /\ sp = 0 /\ regs[ra] = BackToCaller
    /\ \A r \in CalleeSaved : regs[r] = RegAtStart(r)
    /\ \A a \in Cells :
         a >= 0 /\ a \notin CallerSaveOffset(caller)..CalleeSaveOffset(caller) - 1
           => mem[a] = CellAtStart(a)

\* To the caller's virtual registers the call is one that CallSpec allows: the
\* callee finds the arguments in the places it gave its parameters, on the
\* stack if there are more than ArgRegs; afterwards the destination holds
\* the result and every register that lives on holds, in its place, what it
\* held before.
Phase ==
  CASE pc = "body" -> "entered"
    [] pc \in {"pop", "return", "restore"} -> "returning"
    [] pc = "done" -> "after"
    [] OTHER -> "before"
Env ==
  IF pc = "done" THEN [v \in Across \cup dst |-> Read(place[v])]
  ELSE [v \in {u \in VRegs : LiveBefore(u)} |->
          IF place[v][1] = "addr" THEN <<"address", place[v][2]>> ELSE ValueAt(v)]
Received ==
  IF pc = "body" THEN [k \in DOMAIN callee.params |-> Read(ParamPlace(callee, k))] ELSE <<>>
ArgIn(env, a) == IF a[1] = "v" THEN env[a[2]] ELSE a
Seen == INSTANCE CallSpec WITH
  env <- Env, args <- args, across <- Across, dst <- dst, received <- Received,
  phase <- Phase, ValueOf <- ArgIn
ImplementsCallSpec == Seen!Spec
=============================================================================
