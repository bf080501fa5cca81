------------------------------ MODULE DomTree ------------------------------
(***************************************************************************)
(* FunctionPack::construct_domtree of src/ir/ir_pack.cpp: the iterative    *)
(* dominator sets, the immediate dominators read off them, and the         *)
(* dominance frontiers found by climbing from each predecessor.            *)
(*                                                                         *)
(* Block 0 is the entry; no edge leads to it.                              *)
(***************************************************************************)
EXTENDS Integers, Dominance

CONSTANT NumBlocks

ASSUME NumBlocksAssumption == NumBlocks \in Nat \ {0}

Blocks == 0..NumBlocks - 1

VARIABLES
  succ,      \* cfg.succ (input; cfg.pred is derived from it)
  doms,      \* the bitmaps
  idom,      \* dom_tree.idom, -1 for none
  df,        \* dom_tree.df, as a set of (block, frontier block)
  i,         \* loop counter of the current phase
  changed,   \* the fixpoint flag
  edges,     \* CFG edges the frontier loop has not reached
  edge,      \* the edge being climbed, <<j, i>> with j moving up
  pc         \* "sweep", "idom", "edges", "climb" or "done"

vars == <<succ, doms, idom, df, i, changed, edges, edge, pc>>

\* A terminator has at most two targets.
CFGs == [Blocks -> {T \in SUBSET (Blocks \ {0}) : \A a, b, c \in T : a = b \/ b = c \/ a = c}]

Pred(b) == {p \in Blocks : b \in succ[p]}
Edges == {e \in Blocks \X Blocks : e[2] \in succ[e[1]]}

\* tmp: the blocks common to all predecessors, all of them if there is none.
Meet(b) == {a \in Blocks : \A p \in Pred(b) : a \in doms[p]} \cup {b}

\* The scan for new_idom over j = 0, 1, ...: a later strict dominator replaces
\* the candidate if the candidate dominates it.
ScanIdom(b) ==
  LET best[j \in -1..NumBlocks - 1] ==
        IF j = -1 THEN -1
        ELSE IF j # b /\ j \in doms[b] /\ (best[j - 1] = -1 \/ best[j - 1] \in doms[j])
        THEN j ELSE best[j - 1]
  IN best[NumBlocks - 1]

Init ==
  /\ succ \in CFGs
  /\ doms = [b \in Blocks |-> IF b = 0 THEN {0} ELSE Blocks]
  /\ idom = [b \in Blocks |-> -1]
  /\ df = {}
  /\ i = 1 /\ changed = FALSE
  /\ edges = {} /\ edge = <<0, 0>>
  /\ pc = "sweep"

\* One iteration of the inner loop of the fixpoint.
Sweep ==
  /\ pc = "sweep" /\ i < NumBlocks
  /\ doms' = [doms EXCEPT ![i] = Meet(i)]
  /\ changed' = (changed \/ Meet(i) # doms[i])
  /\ i' = i + 1
  /\ UNCHANGED <<succ, idom, df, edges, edge, pc>>

\* while(changed)
EndSweep_Once ==
  /\ pc = "sweep" /\ i = NumBlocks
  /\ pc' = "idom"
  /\ i' = 1 /\ changed' = FALSE
  /\ UNCHANGED <<succ, doms, idom, df, edges, edge>>
EndSweep_Sticky ==
  /\ pc = "sweep" /\ i = NumBlocks
  /\ pc' = IF changed THEN "sweep" ELSE "idom"
  /\ i' = 1 /\ UNCHANGED changed
  /\ UNCHANGED <<succ, doms, idom, df, edges, edge>>
EndSweep ==
  /\ pc = "sweep" /\ i = NumBlocks
  /\ pc' = IF changed THEN "sweep" ELSE "idom"
  /\ i' = 1 /\ changed' = FALSE
  /\ UNCHANGED <<succ, doms, idom, df, edges, edge>>

SetIdom ==
  /\ pc = "idom" /\ i < NumBlocks
  /\ idom' = [idom EXCEPT ![i] = ScanIdom(i)]
  /\ i' = i + 1
  /\ UNCHANGED <<succ, doms, df, changed, edges, edge, pc>>

StartFrontiers ==
  /\ pc = "idom" /\ i = NumBlocks
  /\ edges' = Edges
  /\ pc' = "edges"
  /\ UNCHANGED <<succ, doms, idom, df, i, changed, edge>>

\* The loops run over i upwards and over cfg.pred[i], filled by source block.
TakeEdge ==
  /\ pc = "edges"
  /\ \E e \in edges :
       /\ \A f \in edges : e[2] < f[2] \/ (e[2] = f[2] /\ e[1] <= f[1])
       /\ edge' = e /\ edges' = edges \ {e}
  /\ pc' = "climb"
  /\ UNCHANGED <<succ, doms, idom, df, i, changed>>

\* while(j != idom[i]) { if(j == -1) break; df[j].push_back(i); j = idom[j]; }
Climb_FromIdom ==
  /\ pc = "climb"
  /\ LET j == edge[1]
         b == edge[2]
     IN IF j = idom[b] \/ j = -1
        THEN pc' = "edges" /\ UNCHANGED <<df, edge>>
        ELSE /\ df' = IF idom[j] = -1 THEN df ELSE df \cup {<<idom[j], b>>}
             /\ edge' = <<idom[j], b>>
             /\ UNCHANGED pc
  /\ UNCHANGED <<succ, doms, idom, i, changed, edges>>
Climb ==
  /\ pc = "climb"
  /\ LET j == edge[1]
         b == edge[2]
     IN IF j = idom[b] \/ j = -1
        THEN pc' = "edges" /\ UNCHANGED <<df, edge>>
        ELSE /\ df' = df \cup {<<j, b>>}
             /\ edge' = <<idom[j], b>>
             /\ UNCHANGED pc
  /\ UNCHANGED <<succ, doms, idom, i, changed, edges>>

Finish ==
  /\ pc = "edges" /\ edges = {}
  /\ pc' = "done"
  /\ UNCHANGED <<succ, doms, idom, df, i, changed, edges, edge>>

Returned == pc = "done" /\ UNCHANGED vars

Next ==
  \/ Sweep \/ EndSweep \/ SetIdom \/ StartFrontiers
  \/ TakeEdge \/ Climb \/ Finish \/ Returned

Spec == Init /\ [][Next]_vars

\* Sequential code: it never pauses between two steps.
FairSpec == Spec /\ WF_vars(Next)

-----------------------------------------------------------------------------
\* Every variable has its type.
TypeOK ==
  /\ succ \in CFGs
  /\ doms \in [Blocks -> SUBSET Blocks]
  /\ idom \in [Blocks -> Blocks \cup {-1}]
  /\ df \subseteq Blocks \X Blocks
  /\ i \in 1..NumBlocks
  /\ changed \in BOOLEAN
  /\ edges \subseteq Blocks \X Blocks
  /\ edge \in (Blocks \cup {-1}) \X Blocks
  /\ pc \in {"sweep", "idom", "edges", "climb", "done"}

\* The sets only shrink towards the answer and never lose a true dominator:
\* stopping late is harmless, stopping early is not.
NeverTooSmall == \A b \in Blocks : Dominators(succ, b) \subseteq doms[b]

\* When the fixpoint is left, every block has exactly its dominators.
DominatorsExact == pc # "sweep" => \A b \in Blocks : doms[b] = Dominators(succ, b)

IdomExact ==
  pc \in {"edges", "climb", "done"} /\ AllReachable(succ) =>
    \A b \in Blocks \ {0} : IsIdom(succ, idom[b], b)

FrontiersExact ==
  pc = "done" /\ AllReachable(succ) =>
    df = {e \in Blocks \X Blocks : InFrontier(succ, e[1], e[2])}
\* In a function whose blocks are all reachable, the tree handed to the SSA
\* renamer is the dominator tree, and the frontiers it places phi nodes on are
\* the dominance frontiers.
TreeExact == IdomExact /\ FrontiersExact

\* construct_domtree returns, if every block is reachable.
Terminates == AllReachable(succ) => <>(pc = "done")
=============================================================================
