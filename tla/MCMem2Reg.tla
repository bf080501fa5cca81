----------------------------- MODULE MCMem2Reg -----------------------------
(***************************************************************************)
(* Bounds for Mem2Reg: four blocks, two slots.  The graphs are a diamond,  *)
(* an endless loop with a branch in its body (its header gets phis only    *)
(* from the iterated frontier), two nested loops and a while loop; the     *)
(* accesses are every combination in which the entry has at most two, the  *)
(* other blocks one and all together MaxAccesses.                          *)
(* Programs are well defined: on every path a store precedes each load;    *)
(* Ops has no leak.                                                        *)
(***************************************************************************)
EXTENDS Mem2Reg

CONSTANTS MaxAccesses, Ops

MCGraphs ==
  {<<{1, 2}, {3}, {3}, {}>>, <<{1}, {2, 3}, {3}, {1}>>, <<{1}, {2}, {2, 3}, {1}>>,
   <<{1}, {2, 3}, {1}, {}>>}

MCAccesses ==
  {a \in [op : Ops \ {"copy"}, slot : Slots] \cup [op : Ops \cap {"copy"}, slot : Slots, from : Slots] :
     a.op = "copy" => a.slot # a.from}

\* The entry's accesses, then one access or none for each other block.
MCCodes ==
  {[b \in 0..3 |-> IF b = 0 THEN first ELSE rest[b]] :
     first \in UNION {[1..n -> MCAccesses] : n \in 0..2},
     rest \in [1..3 -> UNION {[1..n -> MCAccesses] : n \in 0..1}]}

Size(c) == Len(c[0]) + Len(c[1]) + Len(c[2]) + Len(c[3])
MCPrograms ==
  {p \in [succ : {[b \in Blocks |-> g[b + 1]] : g \in MCGraphs},
          code : {c \in MCCodes : Size(c) <= MaxAccesses}] : WellDefined(p.succ, p.code)}
=============================================================================
