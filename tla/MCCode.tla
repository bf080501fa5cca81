------------------------------- MODULE MCCode -------------------------------
(***************************************************************************)
(* Bounds for the two modules on the code that is emitted, CallFrame and   *)
(* Lowering.  A behaviour is one call or one other instruction; the        *)
(* variables of the other module rest.                                     *)
(*                                                                         *)
(* Calls: two argument registers, so that the third and fourth argument    *)
(* are on the stack; three virtual registers of the caller, of which the   *)
(* third is the destination or not there; a callee without a frame, one    *)
(* with every area in its frame, and a leaf.  The local variables of the   *)
(* caller leave its frame to be rounded up.                                *)
(*                                                                         *)
(* Instructions: words of four bits and immediates of three, so that some  *)
(* constants fit in an immediate and some do not, and -4 fits although 4   *)
(* does not; two registers and two slots, so that operands and destination *)
(* coincide or not in registers and in memory; strides that are one, a     *)
(* power of two and neither; the least and the greatest words, 0, 1 and -1 *)
(* as contents; types of one bit (bool), two, three and four, so that a     *)
(* cast widens to less than a word and to a word.                          *)
(***************************************************************************)
EXTENDS CallFrame

CONSTANTS XLen, ImmBits, Operators, InsRegs, Slots, Far, Values, Imms, Widths,
          Strides, Unsigned, ShiftOfImm, Narrowing

VARIABLES unit, ir, before, code, store, cells
lowering == <<ir, before, code, store, cells>>
LW == INSTANCE Lowering WITH Regs <- InsRegs, mem <- cells

ASSUME LoweringAssumption == LW!IsConfiguration /\ InsRegs # {}

MCValues == {0, 1, 7, 8, 15}
MCImms == {-4, 1, 2, 4, 5}

a0 == "a0"
a1 == "a1"
MCArgRegs == <<a0, a1>>
MCCallerSaved == {a0, a1, "t3"}
MCCalleeSaved == {"s0", "s1"}
Frame(spill, local, saved, maxSave, leaf, params) ==
  [spill |-> spill, local |-> local, saved |-> saved, maxSave |-> maxSave,
   leaf |-> leaf, params |-> params]
MCCallers == {Frame(8, 12, <<>>, 3, FALSE, <<>>)}
MCCallees ==
  {Frame(0, 0, <<>>, 0, TRUE, <<InReg(a0)>>),
   Frame(8, 4, <<"s1", "s0">>, 1, FALSE, <<InReg(a0), Spill(0), Spill(0), Spill(0)>>),
   Frame(8, 0, <<"s0">>, 0, TRUE, <<Spill(0), InReg(a1), Spill(0)>>)}

\* s1 is left to the caller's caller; arguments are immediates only if
\* nothing else lives.
Calls ==
  /\ CallerInputs
  /\ dst # {3} => iv[3] = Interval(4, 4) /\ place[3] = Spill(0)
  /\ \A v \in VRegs : place[v] # InReg("s1")
  /\ CalleeInputs
  /\ Len(args) > 1 /\ (\E v \in VRegs : LiveBefore(v)) => \A k \in DOMAIN args : args[k][1] = "v"
  /\ AtTheCall

CallRests ==
  /\ caller = Frame(0, 0, <<>>, 0, TRUE, <<>>) /\ callee = caller
  /\ dst = {} /\ order = <<>> /\ args = <<>>
  /\ iv = [v \in VRegs |-> Interval(4, 4)]
  /\ place = [v \in VRegs |-> InReg("t3")]
  /\ AtTheCall

LoweringRests ==
  LW!Start([kind |-> "cast", op |-> "", lhs |-> LW!Imm(1), rhs |-> LW!Imm(0),
            dst |-> CHOOSE r \in InsRegs : TRUE, size |-> XLen, unsigned |-> TRUE,
            from |-> LW!Type(1, TRUE)],
           [p \in LW!Places |-> 0], [w \in LW!Words |-> 0])

MCInit ==
  \/ unit = "call" /\ Calls /\ LoweringRests
  \/ unit = "instruction" /\ LW!Init /\ CallRests

MCNext ==
  \/ unit = "call" /\ Next /\ UNCHANGED <<unit, lowering>>
  \/ unit = "instruction" /\ LW!Next /\ UNCHANGED <<unit, vars>>

MCSpec == MCInit /\ [][MCNext]_<<unit, vars, lowering>>

\* The instructions alone.
InstructionInit == unit = "instruction" /\ LW!Init /\ CallRests
InstructionSpec == InstructionInit /\ [][MCNext]_<<unit, vars, lowering>>

\* The type invariants of both modules; that of Lowering says that what is
\* emitted can be encoded, that of CallFrame that sp and words are aligned.
WellFormed == TypeOK /\ LW!TypeOK
\* Run to its end, the code emitted for an instruction has computed what the
\* instruction means, wherever its operands and its destination are, and on the
\* way it has changed no register, slot or word but that destination.
InstructionExact == LW!ResultRight /\ LW!OthersKept
=============================================================================
