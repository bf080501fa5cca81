----------------------------- MODULE Dominance -----------------------------
(***************************************************************************)
(* Dominance in a control flow graph, by definition: what the dominator    *)
(* tree of src/ir/ir_pack.cpp should be, and what the promotion of slots   *)
(* takes it to be.  A graph maps each block to its successors; block 0 is  *)
(* the entry.                                                              *)
(*                                                                         *)
(* The blocks the entry reaches without passing through a are the smallest *)
(* set that contains the entry and is closed under edges into blocks other *)
(* than a.                                                                 *)
(***************************************************************************)

ClosedAvoiding(g, S, a) == \A b \in S : g[b] \ {a} \subseteq S
ReachedAvoiding(g, a) ==
  IF a = 0 THEN {}
  ELSE {b \in DOMAIN g : \A S \in SUBSET DOMAIN g : 0 \in S /\ ClosedAvoiding(g, S, a) => b \in S}

Dominators(g, b) == {a \in DOMAIN g : b \notin ReachedAvoiding(g, a)}
StrictDominators(g, b) == Dominators(g, b) \ {b}

\* The immediate dominator is the strict dominator all the others dominate.
IsIdom(g, a, b) ==
  a \in StrictDominators(g, b) /\ StrictDominators(g, b) \subseteq Dominators(g, a)

\* b is in a's frontier: a dominates a predecessor of b but not strictly b.
InFrontier(g, a, b) ==
  /\ \E p \in DOMAIN g : b \in g[p] /\ a \in Dominators(g, p)
  /\ a \notin StrictDominators(g, b)

AllReachable(g) ==
  \A S \in SUBSET DOMAIN g : 0 \in S /\ (\A b \in S : g[b] \subseteq S) => S = DOMAIN g
=============================================================================
