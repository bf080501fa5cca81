------------------------------- MODULE MCCfg -------------------------------
(***************************************************************************)
(* Bounds for the passes over a function's control flow graph: DomTree,    *)
(* CriticalEdge and Liveness.  A behaviour is one pass over one graph; the *)
(* variables of the others rest in an initial state, of a graph without    *)
(* edges.                                                                  *)
(*                                                                         *)
(* DomTree and CriticalEdge: every graph with NumBlocks blocks in which a  *)
(* terminator has at most two targets, reducible or not, reachable or not, *)
(* the arms of a branch in either order for CriticalEdge.                  *)
(*                                                                         *)
(* Liveness: every graph of FlowBlocks blocks in which the entry goes on   *)
(* to another block, and two registers, each used at one point or by phis, *)
(* which is enough for a register to be live around a loop, along one arm  *)
(* only, and through a block that defines the other one.  The registers    *)
(* are numbered by definition, as reorder_reg_ids leaves them.             *)
(***************************************************************************)
EXTENDS DomTree, FiniteSets, TLC

CONSTANTS FlowBlocks, Regs  \* of Liveness

ASSUME LivenessAssumption == FlowBlocks \in Nat \ {0} /\ IsFiniteSet(Regs)

VARIABLES pass, orig, inlined, targets, incoming, toSplit, splitPc,
          flow, at, allocas, uses, phiArgs, liveIn, liveOut, visit, again, iv, livePc
splitting == <<orig, inlined, targets, incoming, toSplit, splitPc>>
living == <<flow, at, allocas, uses, phiArgs, liveIn, liveOut, visit, again, iv, livePc>>
CE == INSTANCE CriticalEdge WITH pc <- splitPc
LV == INSTANCE Liveness WITH NumBlocks <- FlowBlocks, succ <- flow, incoming <- phiArgs,
                             i <- visit, changed <- again, pc <- livePc

NoEdges == [b \in Blocks |-> <<>>]
SplitRests ==
  /\ orig = NoEdges /\ targets = NoEdges /\ incoming = [b \in Blocks |-> {}]
  /\ toSplit = {} /\ inlined = {} /\ splitPc = "split"

DomTreeStarts ==
  /\ doms = [b \in Blocks |-> IF b = 0 THEN {0} ELSE Blocks]
  /\ idom = [b \in Blocks |-> -1]
  /\ df = {}
  /\ i = 1 /\ changed = FALSE
  /\ edges = {} /\ edge = <<0, 0>>
  /\ pc = "sweep"
DomTreeRests == DomTreeStarts /\ succ = [b \in Blocks |-> {}]

LivenessRests ==
  /\ flow = [b \in LV!Blocks |-> {}] /\ at = [r \in Regs |-> 0]
  /\ allocas = {} /\ uses = [r \in Regs |-> {}] /\ phiArgs = {}
  /\ LV!Init

\* A phi's operand is defined before the jump it is read at (DefinedFirst asks
\* for that and more).
Flows == {f \in [LV!Blocks -> {T \in SUBSET (LV!Blocks \ {0}) : Cardinality(T) <= 2}] : f[0] # {}}
Defs ==
  {d \in [Regs -> {0} \cup {LV!PhiAt(b) : b \in LV!Blocks \ {0}} \cup {LV!BodyAt(b) : b \in LV!Blocks}] :
     \A q, r \in Regs : q < r => d[q] < d[r] \/ (d[q] = 0 /\ d[r] = 0)}
UsePoints == LV!Points \ {LV!PhiAt(b) : b \in LV!Blocks}
LivenessStarts ==
  /\ flow \in Flows
  /\ at \in Defs
  /\ allocas \in SUBSET {r \in Regs : at[r] = LV!BodyAt(0)}
  /\ uses \in {u \in [Regs -> {{}} \cup {{n} : n \in UsePoints}] :
                \A r \in Regs : \A n \in u[r] : at[r] < n}
  /\ LET phiEdges == {e \in LV!Blocks \X LV!Blocks : e[2] \in flow[e[1]] /\ \E r \in Regs : at[r] = LV!PhiAt(e[2])}
         operands(e) == {{}} \cup {{r} : r \in {q \in Regs \ allocas : at[q] < LV!JumpAt(e[1])}}
     IN \E arg \in {g \in [phiEdges -> UNION {operands(e) : e \in phiEdges}] :
                      \A e \in phiEdges : g[e] \in operands(e)} :
          phiArgs = UNION {{<<e[1], e[2], r>> : r \in arg[e]} : e \in phiEdges}
  /\ \A r \in Regs : uses[r] = {} => r \in {e[3] : e \in phiArgs}
  /\ LV!Init

MCInit ==
  \/ pass = "domtree" /\ Init /\ SplitRests /\ LivenessRests
  \/ pass = "split" /\ CE!Init /\ DomTreeRests /\ LivenessRests
  \/ pass = "liveness" /\ DomTreeRests /\ SplitRests /\ LivenessStarts

MCNext ==
  \/ pass = "domtree" /\ Next /\ UNCHANGED <<pass, splitting, living>>
  \/ pass = "split" /\ CE!Next /\ UNCHANGED <<pass, vars, living>>
  \/ pass = "liveness" /\ LV!Next /\ UNCHANGED <<pass, vars, splitting>>

MCVars == <<pass, vars, splitting, living>>
MCSpec == MCInit /\ [][MCNext]_MCVars /\ WF_MCVars(MCNext)

NoCriticalEdge == CE!NoCriticalEdge
SameFlow == pass = "split" => CE!SameFlow
LivenessExact == LV!LivenessExact
IntervalsCover == LV!IntervalsCover
\* compute_liveness returns.
LivenessTerminates == pass = "liveness" => LV!Terminates
============================================================================
