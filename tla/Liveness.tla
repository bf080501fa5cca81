------------------------------ MODULE Liveness ------------------------------
(***************************************************************************)
(* compute_liveness and build_intervals of src/backend/regalloc.cpp: the   *)
(* backward fixpoint over the blocks of a function, and the interval of    *)
(* instruction numbers each virtual register is given from it, which is    *)
(* all that the register allocator knows of the function.                  *)
(*                                                                         *)
(* A block is abstracted to three instructions: a phi (or nothing), a body *)
(* instruction, and the jump.  Instructions are numbered through the       *)
(* layout of the blocks, as build_intervals does.                          *)
(***************************************************************************)
EXTENDS Integers, FiniteSets

CONSTANTS
  NumBlocks,
  Regs       \* virtual registers; parameters past the eighth, which get no
             \* interval, are not among them

Blocks == 0..NumBlocks - 1
PhiAt(b) == 3 * b + 1
BodyAt(b) == 3 * b + 2
JumpAt(b) == 3 * b + 3
InstrsOf(b) == {PhiAt(b), BodyAt(b), JumpAt(b)}
Points == 1..3 * NumBlocks

VARIABLES
  succ,      \* cfg.succ (input)
  at,        \* register |-> the instruction that defines it, 0 for a parameter (input)
  allocas,   \* the registers whose definition is an alloca (input)
  uses,      \* register |-> the instructions other than phis that use it (input)
  incoming,  \* <<p, b, r>>: the phi of b has the operand r for its predecessor p (input)
  liveIn, liveOut,   \* LivenessInfo
  i, changed,        \* loop counter and flag of the fixpoint
  iv,        \* the intervals
  pc         \* "sweep", "build" or "done"

input == <<succ, at, allocas, uses, incoming>>
vars == <<input, liveIn, liveOut, i, changed, iv, pc>>

\* def_set and use_set of a block.  A register that an earlier instruction of
\* the block defines is not an upward exposed use, nor is an alloca seen before.
Def(b) == {r \in Regs \ allocas : at[r] \in InstrsOf(b)}
Use(b) ==
  {r \in Regs : \E n \in uses[r] \cap InstrsOf(b) :
                  at[r] < n => r \notin allocas /\ at[r] \notin InstrsOf(b)}

\* The operands of the phis of b's successors that come from b.
PhiUses(b) == {r \in Regs : \E s \in succ[b] : <<b, s, r>> \in incoming}

NewOut_NoPhis(b) == {r \in Regs : \E s \in succ[b] : r \in liveIn[s]}
NewOut(b) == {r \in Regs : \E s \in succ[b] : r \in liveIn[s]} \cup PhiUses(b)
NewIn(b) == (NewOut(b) \ Def(b)) \cup Use(b)

\* One iteration of the for loop over the blocks.
Sweep ==
  /\ pc = "sweep" /\ i < NumBlocks
  /\ liveOut' = [liveOut EXCEPT ![i] = NewOut(i)]
  /\ liveIn' = [liveIn EXCEPT ![i] = NewIn(i)]
  /\ changed' = (changed \/ NewOut(i) # liveOut[i] \/ NewIn(i) # liveIn[i])
  /\ i' = i + 1
  /\ UNCHANGED <<input, iv, pc>>

\* while(changed)
EndSweep_Sticky ==
  /\ pc = "sweep" /\ i = NumBlocks
  /\ pc' = IF changed THEN "sweep" ELSE "build"
  /\ i' = 0 /\ UNCHANGED changed
  /\ UNCHANGED <<input, liveIn, liveOut, iv>>
EndSweep ==
  /\ pc = "sweep" /\ i = NumBlocks
  /\ pc' = IF changed THEN "sweep" ELSE "build"
  /\ i' = 0 /\ changed' = FALSE
  /\ UNCHANGED <<input, liveIn, liveOut, iv>>

\* last_use_global: the uses, the jumps of the blocks the register is live out
\* of, and the jumps of the predecessors for which a phi has it as operand.
LastUses_NoLiveOut(r) ==
  uses[r] \cup {JumpAt(e[1]) : e \in {t \in incoming : t[3] = r}}
LastUses(r) ==
  uses[r] \cup {JumpAt(b) : b \in {c \in Blocks : r \in liveOut[c]}}
          \cup {JumpAt(e[1]) : e \in {t \in incoming : t[3] = r}}

IntervalEnd(r) ==
  IF LastUses(r) = {} THEN at[r] ELSE CHOOSE n \in LastUses(r) : \A m \in LastUses(r) : m <= n

\* The rest of build_intervals; an alloca gets no interval.
BuildIntervals ==
  /\ pc = "build"
  /\ iv' = [r \in Regs \ allocas |->
              [start |-> at[r], end |-> IntervalEnd(r), uses |-> Cardinality(uses[r])]]
  /\ pc' = "done"
  /\ UNCHANGED <<input, liveIn, liveOut, i, changed>>

Returned == pc = "done" /\ UNCHANGED vars

Next == Sweep \/ EndSweep \/ BuildIntervals \/ Returned

-----------------------------------------------------------------------------
(* Reference definitions.  The points a register is live at: those from    *)
(* which the flow of control can reach a use without a redefinition.       *)

Uses(r, n) == n \in uses[r] \/ \E b \in Blocks : n = JumpAt(b) /\ r \in PhiUses(b)
Follows(n) ==
  ({n + 1} \cap (Points \ {PhiAt(b) : b \in Blocks}))
    \cup UNION {{PhiAt(s) : s \in succ[b]} : b \in {c \in Blocks : n = JumpAt(c)}}

\* The points of S, and those from which one step leads to S.
Backward(r, S) == S \cup {n \in Points : at[r] # n /\ Follows(n) \cap S # {}}
LivePoints(r) ==
  LET within[k \in 0..3 * NumBlocks] ==
        IF k = 0 THEN {n \in Points : Uses(r, n)} ELSE Backward(r, within[k - 1])
  IN within[3 * NumBlocks]

\* The same by blocks: the smallest set of blocks that contains those with an
\* upward exposed use and is closed under predecessors that do not define r.
ClosedFor(S, r) ==
  \A b \in Blocks :
    \/ b \in S
    \/ r \notin Use(b) /\ (r \in Def(b) \/ (r \notin PhiUses(b) /\ succ[b] \cap S = {}))
LiveBlocks(r) == {b \in Blocks : \A S \in SUBSET Blocks : ClosedFor(S, r) => b \in S}

-----------------------------------------------------------------------------
\* The functions that reach the backend: SSA form, phis only where there are
\* edges, allocas in the entry block, and blocks laid out so that a definition
\* precedes every point at which its register is live.
Programs ==
  /\ succ \in [Blocks -> {T \in SUBSET (Blocks \ {0}) : Cardinality(T) <= 2}]
  /\ at \in [Regs -> {0} \cup {PhiAt(b) : b \in Blocks \ {0}} \cup {BodyAt(b) : b \in Blocks}]
  /\ \A q, r \in Regs : q # r /\ at[q] = at[r] => at[q] = 0
  /\ allocas \subseteq {r \in Regs : at[r] = BodyAt(0)}
  /\ uses \in [Regs -> SUBSET (Points \ {PhiAt(b) : b \in Blocks})]
  /\ incoming \subseteq {e \in Blocks \X Blocks \X (Regs \ allocas) :
                           e[2] \in succ[e[1]] /\ \E r \in Regs : at[r] = PhiAt(e[2])}
  /\ \A d, e \in incoming : d[1] = e[1] /\ d[2] = e[2] => d[3] = e[3]

DefinedFirst == \A r \in Regs : \A n \in LivePoints(r) : at[r] < n

Init ==
  /\ Programs /\ DefinedFirst
  /\ liveIn = [b \in Blocks |-> {}] /\ liveOut = [b \in Blocks |-> {}]
  /\ i = 0 /\ changed = FALSE
  /\ iv = [r \in {} |-> r]
  /\ pc = "sweep"

Spec == Init /\ [][Next]_vars

\* Sequential code: it never pauses between two steps.
FairSpec == Spec /\ WF_vars(Next)

-----------------------------------------------------------------------------
\* Every variable has its type.
TypeOK ==
  /\ succ \in [Blocks -> SUBSET Blocks]
  /\ liveIn \in [Blocks -> SUBSET Regs] /\ liveOut \in [Blocks -> SUBSET Regs]
  /\ i \in 0..NumBlocks
  /\ changed \in BOOLEAN
  /\ pc \in {"sweep", "build", "done"}
  /\ pc = "done" => DOMAIN iv = Regs \ allocas

\* The sets grow towards the answer and never exceed it: a register is never
\* kept in a machine register for longer than it is needed.
NeverTooLive == \A b \in Blocks : \A r \in liveIn[b] : b \in LiveBlocks(r)

\* When the fixpoint is left the live-in sets are exactly the least solution of
\* the flow equations.
LivenessExact ==
  pc # "sweep" => \A b \in Blocks : liveIn[b] = {r \in Regs : b \in LiveBlocks(r)}

\* An interval covers every instruction at which its register is live, loops
\* included: what the allocator relies on when it reuses a machine register.
IntervalsCover ==
  pc = "done" =>
    \A r \in Regs \ allocas : \A n \in LivePoints(r) : iv[r].start < n /\ n <= iv[r].end

\* The fixpoint is reached.
Terminates == <>(pc = "done")
=============================================================================
