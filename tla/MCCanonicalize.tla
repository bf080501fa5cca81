--------------------------- MODULE MCCanonicalize ---------------------------
(***************************************************************************)
(* Bounds for Canonicalize: functions of three instructions, enumerated    *)
(* one instruction at a time.  Three are enough for a chain (an            *)
(* instruction that folds only after another one has, a phi of a phi) with *)
(* a use at its end.                                                       *)
(***************************************************************************)
EXTENDS Canonicalize, TLC

MCInit ==
  /\ \E a \in Instr(1), b \in Instr(2), c \in Instr(3) :
       /\ code = <<a, b, c>>
       /\ ChainedPhis = FALSE => NoChains(code)
  /\ sink \in {Reg(r) : r \in Regs}
  /\ orig = [code |-> code, sink |-> sink]
  /\ useMap = <<>>
  /\ useful = {} /\ worklist = {}
  /\ cursor = 1 /\ changed = FALSE
  /\ pc = "phi"
MCSpec == MCInit /\ [][Next]_vars
MCFairSpec == MCSpec /\ WF_vars(Next)
=============================================================================
