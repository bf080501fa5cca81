------------------------------ MODULE PhiMoves ------------------------------
(***************************************************************************)
(* The end of AsmGenerator::generate_func for one edge of the CFG: the phi *)
(* instructions of the edge's target are collected into a map from         *)
(* location to location, which parallel_assignment then serialises at the  *)
(* end of the edge's source.  The locations are those LinearScan assigns,  *)
(* and the moves are emitted by ParallelCopy.                              *)
(***************************************************************************)
EXTENDS LinearScan

CONSTANTS
  Phis,      \* the phis of the target block, numbered in program order
  Imms,      \* operands that need no place: immediates and addresses
  Addrs,     \* those of Imms that are addresses of stack variables
  Slots,     \* offsets of spill slots
  JoinAt,    \* instruction number of the first phi
  EdgeAts,   \* instruction numbers the jump of the edge may have: a smaller
             \* one than JoinAt is a forward edge, a larger one a back edge
  DeadPhis,  \* may a phi be left without a use?
  Far, kTmpRd, kTmpRs1, kTmpRs2, Junk   \* of ParallelCopy

ASSUME EdgeAssumption ==
  /\ Phis \subseteq VRegs /\ Phis \subseteq Nat
  /\ Imms \cap VRegs = {}
  /\ JoinAt \in Nat
  /\ \A e \in EdgeAts : e \in Nat /\ e \notin JoinAt..JoinAt + Cardinality(Phis) - 1
  /\ DeadPhis \in BOOLEAN

VARIABLES
  edgeAt,    \* instruction number of the jump (input)
  operand,   \* phi |-> its operand for this edge (input)
  pending,   \* phis not collected yet
  moves,     \* dst_to_src_collection[edge source]
  step,      \* "allocate", "collect", "assign" or "done"
  todo, unvisited, removed, cur, backup, pc, store   \* of ParallelCopy

PC == INSTANCE ParallelCopy WITH Regs <- Pool, Imms <- Imms \ Addrs, want <- moves

\* Slots has an offset for every register, should all be spilled.
ASSUME MovesAssumption ==
  /\ PC!IsConfiguration
  /\ Addrs \subseteq Imms
  /\ Slots \subseteq Nat /\ \A k \in 0..Cardinality(VRegs) - 1 : 8 * k \in Slots

copying == <<todo, unvisited, removed, cur, backup, pc, store>>
allVars == <<vars, edgeAt, operand, pending, moves, step, copying>>

FirstInst == JoinAt + Cardinality(Phis)

\* A phi no instruction uses: constant_fold can leave one behind, because no
\* eliminate_deadcode follows it.
IsDead(p) == iv[p].uses = 0 /\ iv[p].end = iv[p].start

\* The intervals build_intervals gives around the edge.  The phis are the
\* first instructions of their block; they use nothing there, so an interval
\* that reaches into the block reaches past them; an operand lives at least to
\* the jump, and a value defined in between is gone by then.
AroundEdge(f, edge) ==
  /\ \A p \in Phis :
       /\ f[p].start = JoinAt + Cardinality({q \in Phis : q < p})
       /\ f[p].end = f[p].start \/ f[p].end >= FirstInst
       /\ f[p].uses > 0 => f[p].end >= FirstInst
  /\ \A v \in VRegs \ Phis :
       /\ f[v].start \notin JoinAt..FirstInst - 1
       /\ f[v].end \notin JoinAt..FirstInst - 1
       /\ f[v].start # edge

\* The operands are live at the jump.
OperandsLive(f, op, edge) ==
  \A p \in Phis : op[p] \in VRegs =>
    f[op[p]].start <= edge /\ edge <= f[op[p]].end

\* What a location holds when the jump is reached: the value of the register
\* that lives there at that point (NoInterference: there is at most one).
Holds(v) == iv[v].start <= edgeAt /\ edgeAt <= iv[v].end

Location(op) == IF op \in VRegs THEN mapping[op] ELSE op

PhiInit ==
  /\ Init
  /\ edgeAt \in EdgeAts
  /\ AroundEdge(iv, edgeAt)
  /\ operand \in [Phis -> VRegs \cup Imms]
  /\ OperandsLive(iv, operand, edgeAt)
  /\ DeadPhis \/ \A p \in Phis : ~IsDead(p)
  /\ pending = Phis
  /\ moves = [l \in {} |-> l]
  /\ step = "allocate"
  /\ PC!Begin

\* linear_coloring, to its end.
Allocate ==
  step = "allocate" /\ Next /\ rest # {} /\ UNCHANGED <<edgeAt, operand, pending, moves, step, copying>>

Allocated ==
  /\ step = "allocate" /\ rest = {}
  /\ step' = "collect"
  /\ UNCHANGED <<vars, edgeAt, operand, pending, moves, copying>>

\* The next phi of the block; unordered_map::emplace keeps an existing entry.
CollectPhi_Swapped(p) ==
  /\ step = "collect" /\ p \in pending /\ \A q \in pending : p <= q
  /\ moves' = IF operand[p] \notin VRegs \/ mapping[operand[p]] \in DOMAIN moves THEN moves
              ELSE With(moves, mapping[operand[p]], mapping[p])
  /\ pending' = pending \ {p}
  /\ UNCHANGED <<vars, edgeAt, operand, step, copying>>
CollectPhi(p) ==
  /\ step = "collect" /\ p \in pending /\ \A q \in pending : p <= q
  /\ moves' = IF mapping[p] \in DOMAIN moves THEN moves
              ELSE With(moves, mapping[p], Location(operand[p]))
  /\ pending' = pending \ {p}
  /\ UNCHANGED <<vars, edgeAt, operand, step, copying>>

\* parallel_assignment is called with the moves, and runs to its end.
CallAssignment ==
  /\ step = "collect" /\ pending = {}
  /\ step' = "assign"
  /\ todo' = moves /\ unvisited' = DOMAIN moves
  /\ UNCHANGED <<vars, edgeAt, operand, pending, moves, removed, cur, backup, pc, store>>

Assign ==
  /\ step = "assign" /\ PC!Next /\ pc # "done"
  /\ step' = IF pc' = "done" THEN "done" ELSE "assign"
  /\ UNCHANGED <<vars, edgeAt, operand, pending, moves>>

Generated == step = "done" /\ UNCHANGED allVars

PhiNext ==
  \/ Allocate \/ Allocated
  \/ \E p \in Phis : CollectPhi(p)
  \/ CallAssignment \/ Assign \/ Generated

PhiSpec == PhiInit /\ [][PhiNext]_allVars

-----------------------------------------------------------------------------
\* When parallel_assignment returns, the emitted sequence has the effect of
\* performing all moves at once: a destination holds what its source held
\* before the first of them, every other register and slot is untouched.
Simultaneous == PC!Simultaneous

\* After the code at the end of the edge's source, every phi that is used holds
\* what was in the place of its operand before, or the immediate or address.
PhisReceiveOperands ==
  step = "done" =>
    \A p \in Phis : ~IsDead(p) => store[mapping[p]] = Location(operand[p])

\* That code leaves every value that lives on across the edge in its place, the
\* frame slots of evicted intervals included.
CrossingValuesKept ==
  step = "done" =>
    \A v \in VRegs \ Phis :
      Holds(v) /\ iv[v].start <= JoinAt /\ iv[v].end >= FirstInst =>
        store[mapping[v]] = mapping[v]

\* The comment of parallel_assignment says of the map it is given: "All nodes
\* have only one in-degree (only be dst for at most one time)".  No other phi
\* of the block asks for the location of a phi that is used.
OneDestinationPerPhi ==
  step = "done" =>
    \A p, q \in Phis : p # q /\ ~IsDead(p) => mapping[p] # mapping[q]

\* The collection never invents a location: it moves between allocated places.
PhiTypeOK ==
  /\ TypeOK /\ PC!TypeOK
  /\ pending \subseteq Phis
  /\ DOMAIN moves \subseteq {mapping[v] : v \in DOMAIN mapping}
  /\ step \in {"allocate", "collect", "assign", "done"}
=============================================================================
