----------------------------- MODULE MCPhiMoves -----------------------------
(***************************************************************************)
(* Bounds for PhiMoves and ParallelCopy.  A behaviour is the end of a      *)
(* block, or a call of parallel_assignment for the arguments of a call or  *)
(* for the parameters; the allocator and the phis rest in it.              *)
(*                                                                         *)
(* An edge: two registers, a block with two phis, and two more values, so  *)
(* that the phis, their operands and a value that crosses the edge compete *)
(* for the registers and any of them can be evicted.  The intervals are    *)
(* enumerated in the order build_intervals sorts them; two of them start   *)
(* together only at 0, where the parameters do.                            *)
(*                                                                         *)
(* Any moves: two registers and two slots, one of them out of the reach of *)
(* an immediate offset, allow a cycle of up to four locations through      *)
(* registers and memory, or a shorter one with a tree hanging from it; one *)
(* immediate and one address stand for all of theirs, since the algorithm  *)
(* only compares locations.  For the phis the immediate stands for both.   *)
(***************************************************************************)
EXTENDS PhiMoves

CONSTANT Moved   \* the places moves are between

ASSUME MovedAssumption == Moved \subseteq Pool \cup Slots

VARIABLE unit

Others == VRegs \ Phis

Starts == {s \in [Others -> 0..MaxPos] :
             \A u, v \in Others : u < v => s[u] < s[v] \/ (s[u] = 0 /\ s[v] = 0)}

StartOf(s, v) ==
  IF v \in Phis THEN JoinAt + Cardinality({q \in Phis : q < v}) ELSE s[v]

\* A register that lives on is used.
MCPhiInit ==
  /\ \E s \in Starts, stop \in [VRegs -> 0..MaxPos] :
       /\ \A v \in VRegs : stop[v] \in {StartOf(s, v)} \cup (FirstInst..MaxPos) \cup (StartOf(s, v)..JoinAt - 1)
       /\ \E use \in [{v \in VRegs : stop[v] > StartOf(s, v)} -> 1..MaxUses] :
            iv = [v \in VRegs |->
                    [start |-> StartOf(s, v), end |-> stop[v],
                     uses |-> IF v \in DOMAIN use THEN use[v] ELSE 0]]
  /\ PhiInit
  /\ \A p \in Phis : operand[p] \notin Addrs

\* The place of the allocator and the phis while other moves are made.
EdgeRests ==
  /\ iv = [v \in VRegs |-> [start |-> 0, end |-> 0, uses |-> 0]]
  /\ home = [v \in {} |-> v] /\ mapping = home /\ active = home /\ spillArea = 0
  /\ rest = VRegs
  /\ edgeAt = JoinAt /\ operand = home /\ pending = {} /\ step = "allocate"

AnyMoves ==
  \E D \in SUBSET Moved : moves \in [D -> Moved \cup Imms]

MCInit ==
  \/ unit = "edge" /\ MCPhiInit
  \/ unit = "moves" /\ EdgeRests /\ AnyMoves /\ PC!Begin

MCNext ==
  \/ unit = "edge" /\ PhiNext /\ UNCHANGED unit
  \/ unit = "moves" /\ PC!Next
     /\ UNCHANGED <<unit, vars, edgeAt, operand, pending, moves, step>>

MCSpec == MCInit /\ [][MCNext]_<<unit, allVars>>

\* The passes are sequential code: they never stop between two steps.
MCFairSpec == MCSpec /\ WF_<<unit, allVars>>(MCNext)

\* linear_coloring, the collection of the phis and parallel_assignment end.
Terminates == <>(pc = "done")
=============================================================================
