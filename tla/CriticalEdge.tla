---------------------------- MODULE CriticalEdge ----------------------------
(***************************************************************************)
(* eliminate_critical_edge of src/ir/optimizer.cpp: an edge from a block   *)
(* with several successors to a block with several predecessors gets a     *)
(* block of its own, in which the backend can put the phi moves of that    *)
(* edge alone.                                                             *)
(*                                                                         *)
(* A label is the index of its block.  Blocks whose label carries an       *)
(* inline appendix are told apart because the code compares branch targets *)
(* with a label it has moved from, whose appendix is then empty.           *)
(***************************************************************************)
EXTENDS Integers, Sequences, FiniteSets, Functions

CONSTANT NumBlocks   \* a positive number, as DomTree assumes

Blocks == 0..NumBlocks - 1

VARIABLES
  orig,      \* the branch targets of each block before the pass (input)
  inlined,   \* blocks whose label has an appendix (input)
  targets,   \* block |-> the labels its last instruction branches to
  incoming,  \* block |-> the labels its phis have an operand for; a new block has none
  toSplit,   \* edges_to_split, what is left of it
  pc         \* "split" or "done"

vars == <<orig, inlined, targets, incoming, toSplit, pc>>

SuccOf(t, b) == Range(t[b])
PredOf(t, b) == {p \in DOMAIN t : b \in SuccOf(t, p)}
IsCritical(t, from, to) == Len(t[from]) > 1 /\ Cardinality(PredOf(t, to)) > 1

\* Edges as <<from, arm>>, all those to split being found before the first is
\* split: from upwards, the arms in their order.
Arms(t) == UNION {{b} \X DOMAIN t[b] : b \in DOMAIN t}
CriticalEdges(t) == {e \in Arms(t) : IsCritical(t, e[1], t[e[1]][e[2]])}
Before(e, d) == e[1] < d[1] \/ (e[1] = d[1] /\ e[2] < d[2])

\* Nothing branches to the entry, and the two arms of a branch differ.
CFGs ==
  [Blocks -> {<<>>} \cup {<<a>> : a \in Blocks \ {0}}
               \cup {<<a, b>> : a, b \in Blocks \ {0}}]
ArmsDiffer(t) == \A b \in DOMAIN t : Len(t[b]) = 2 => t[b][1] # t[b][2]

Init ==
  /\ orig \in CFGs /\ ArmsDiffer(orig)
  /\ targets = orig
  /\ incoming = [b \in Blocks |-> PredOf(orig, b)]
  /\ toSplit = CriticalEdges(orig)
  \* PromoteAlloca canonicalizes before FunctionInline gives any label an
  \* appendix (optimizer.hpp:30-33), and FunctionInline makes no critical edge.
  /\ inlined \in {{}, Blocks} /\ (inlined # {} => toSplit = {})
  /\ pc = "split"

\* The branch of block `from' is redirected to the new block.  The target
\* label is compared after `std::move(lineB)'.
IsTarget(label, to) == label = to /\ to \notin inlined
Redirected(b, to, new) ==
  [k \in DOMAIN targets[b] |-> IF IsTarget(targets[b][k], to) THEN new ELSE targets[b][k]]

Redirect_EveryBranch(from, to, new) == [b \in DOMAIN targets |-> Redirected(b, to, new)]
Redirect_KeepBranch(from, to, new) == targets
Redirect(from, to, new) == [targets EXCEPT ![from] = Redirected(from, to, new)]

\* The new block is appended, and the phis of its successor name it.
SplitEdge(from, to) ==
  LET new == Cardinality(DOMAIN targets)
  IN /\ targets' = [b \in DOMAIN targets \cup {new} |->
                      IF b = new THEN <<to>> ELSE Redirect(from, to, new)[b]]
     /\ incoming' = [incoming EXCEPT ![to] = {IF p = from THEN new ELSE p : p \in @}]
Split ==
  /\ pc = "split"
  /\ \E e \in toSplit :
       /\ \A d \in toSplit \ {e} : Before(e, d)
       /\ SplitEdge(e[1], orig[e[1]][e[2]])
       /\ toSplit' = toSplit \ {e}
  /\ UNCHANGED <<orig, inlined, pc>>

Finish ==
  /\ pc = "split" /\ toSplit = {}
  /\ pc' = "done"
  /\ UNCHANGED <<orig, inlined, targets, incoming, toSplit>>

Returned == pc = "done" /\ UNCHANGED vars

Next == Split \/ Finish \/ Returned

Spec == Init /\ [][Next]_vars

-----------------------------------------------------------------------------
\* Where a branch to label l ends up, seen in the original graph.
Beyond(l) == IF l \in Blocks THEN l ELSE targets[l][1]

\* What the backend insists on ("Invalid circumstance: critical edge"): the
\* phi moves of an edge never run on another one.
NoCriticalEdge ==
  pc = "done" =>
    \A from \in DOMAIN targets : \A to \in SuccOf(targets, from) : ~IsCritical(targets, from, to)

\* Control flows as before: arm by arm, each branch leads to the same original
\* block, directly or through one new block; and at every moment the phis of a
\* block name exactly the blocks that branch to it.
SameFlow ==
  /\ \A b \in Blocks : [k \in DOMAIN targets[b] |-> Beyond(targets[b][k])] = orig[b]
  /\ \A b \in Blocks : incoming[b] = PredOf(targets, b)
=============================================================================
