------------------------------ MODULE CallSpec ------------------------------
(***************************************************************************)
(* What generate_call, the prologue and the epilogue together promise: to  *)
(* the virtual registers of the caller, a call is a step that hands over   *)
(* the arguments, and a step that changes its destination only.            *)
(***************************************************************************)
EXTENDS Sequences

CONSTANTS Result, ValueOf(_, _)   \* ValueOf(env, a): argument a when registers hold env

VARIABLES
  env,       \* live virtual register |-> value
  args,      \* the arguments of the call (input)
  across,    \* the registers live after the call that it does not define (input)
  dst,       \* the set of the register it defines, or no register (input)
  received,  \* the values the callee's parameters have when it starts
  phase      \* "before", "entered", "returning", "after"

callVars == <<env, args, across, dst, received, phase>>

Init == phase = "before" /\ received = <<>>

Enter ==
  /\ phase = "before" /\ phase' = "entered"
  /\ received' = [k \in DOMAIN args |-> ValueOf(env, args[k])]
  /\ UNCHANGED <<env, args, across, dst>>

Work ==
  /\ phase = "entered" /\ phase' = "returning"
  /\ received' = <<>>
  /\ UNCHANGED <<env, args, across, dst>>

Return ==
  /\ phase = "returning" /\ phase' = "after"
  /\ env' = [v \in across \cup dst |-> IF v \in dst THEN Result ELSE env[v]]
  /\ UNCHANGED <<args, across, dst, received>>

Spec == Init /\ [][Enter \/ Work \/ Return]_callVars
=============================================================================
