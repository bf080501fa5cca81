---------------------------- MODULE ParallelCopy ----------------------------
(***************************************************************************)
(* parallel_assignment of src/backend/asm_generator.cpp: the algorithm     *)
(* that serialises a set of simultaneous moves between locations.  It is   *)
(* called for the phi copies at the end of a block, for the first eight    *)
(* arguments of a call, and for the incoming parameters in the prologue.   *)
(*                                                                         *)
(* The state is the compiler's work map together with the machine store    *)
(* that the instructions emitted so far produce.  Contents are symbolic:   *)
(* a place holds the name of the location whose initial content it has.    *)
(***************************************************************************)
EXTENDS FiniteSets

CONSTANTS
  Regs,     \* allocatable registers (kAllocatableRegs)
  Slots,    \* spill slots of the frame
  Far,      \* the slots whose sp offset does not fit in 12 bits
  Addrs,    \* addresses of stack variables: sources only
  Imms,     \* immediates: sources only
  kTmpRd, kTmpRs1, kTmpRs2,   \* registers never allocated
  Junk      \* what a clobbered scratch register holds

Storage == Regs \cup Slots
Location == Storage \cup Addrs \cup Imms
Temps == {kTmpRd, kTmpRs1, kTmpRs2}
Places == Storage \cup Temps

\* No program location is a temporary, the kinds do not overlap, and the three
\* temporaries are different registers (asm_defs.hpp, asm_pack.hpp).
IsConfiguration ==
  /\ IsFiniteSet(Storage)
  /\ Far \subseteq Slots
  /\ Regs \cap Slots = {}
  /\ Storage \cap (Addrs \cup Imms) = {}
  /\ Temps \cap Location = {}
  /\ kTmpRd # kTmpRs1 /\ kTmpRd # kTmpRs2 /\ kTmpRs1 # kTmpRs2
  /\ Junk \notin Location

VARIABLES
  want,      \* the requested moves, dst |-> src (the argument; never changes)
  todo,      \* dst_to_src: the moves not emitted yet
  unvisited, \* what is left of the current pass of the peeling loop
  removed,   \* did the current pass emit anything
  cur,       \* dst_loc of the cycle being broken
  backup,    \* the location saved in kTmpRd
  pc,        \* "peel", "cycle", "walk", "done" or "threw"
  store      \* contents of registers and slots after the emitted code

vars == <<want, todo, unvisited, removed, cur, backup, pc, store>>

Moves == UNION {[D -> Location] : D \in SUBSET Storage}

\* What reading location l yields in store st.
Read(st, l) == IF l \in Places THEN st[l] ELSE l

\* dst_to_src.erase(d)
Without(f, d) == [x \in DOMAIN f \ {d} |-> f[x]]

\* The code emitted by location_assign(d, s), run on st.  A slot is written
\* through kTmpRs2, and kTmpRs1 carries a loaded slot, a computed address, or
\* the address of a far slot.
LocationAssign(st, d, s) ==
  [st EXCEPT ![d] = Read(st, s),
             ![kTmpRs1] = IF d \in Far THEN Junk
                          ELSE IF s \in Slots \cup Addrs THEN Read(st, s) ELSE @,
             ![kTmpRs2] = IF d \in Slots THEN Read(st, s) ELSE @]

\* dst_safe: no pending move still reads d.
DstSafe(d) == \A e \in DOMAIN todo : todo[e] # d

BackupTemp_Rs1 == kTmpRs1
BackupTemp == kTmpRd

\* The function is called with want.
Begin ==
  /\ todo = want
  /\ unvisited = DOMAIN want
  /\ removed = FALSE
  /\ cur = kTmpRd /\ backup = kTmpRd
  /\ pc = "peel"
  /\ store = [p \in Places |-> IF p \in Storage THEN p ELSE Junk]

Init == want \in Moves /\ Begin

\* One iteration of the for loop over the map: emit a move whose destination
\* nobody reads any more.  The order of an unordered_map is unspecified.
Visit(d) ==
  /\ pc = "peel" /\ d \in unvisited
  /\ unvisited' = unvisited \ {d}
  /\ IF DstSafe(d)
     THEN /\ store' = LocationAssign(store, d, todo[d])
          /\ todo' = Without(todo, d)
          /\ removed' = TRUE
     ELSE UNCHANGED <<store, todo, removed>>
  /\ UNCHANGED <<want, cur, backup, pc>>

\* The pass is over: another one if it made progress and moves are left.
EndPass ==
  /\ pc = "peel" /\ unvisited = {}
  /\ IF removed /\ DOMAIN todo # {}
     THEN unvisited' = DOMAIN todo /\ removed' = FALSE /\ UNCHANGED pc
     ELSE pc' = "cycle" /\ UNCHANGED <<unvisited, removed>>
  /\ UNCHANGED <<want, todo, cur, backup, store>>

\* dst_to_src.begin() is a self loop: drop it.
DropSelfLoop_NoErase(d) ==
  /\ pc = "cycle" /\ d \in DOMAIN todo /\ todo[d] = d
  /\ UNCHANGED vars
DropSelfLoop(d) ==
  /\ pc = "cycle" /\ d \in DOMAIN todo /\ todo[d] = d
  /\ todo' = Without(todo, d)
  /\ UNCHANGED <<want, unvisited, removed, cur, backup, pc, store>>

\* dst_to_src.begin() is on a cycle: save its content.
OpenCycle(d) ==
  /\ pc = "cycle" /\ d \in DOMAIN todo /\ todo[d] # d
  /\ store' = LocationAssign(store, BackupTemp, d)
  /\ cur' = d /\ backup' = d
  /\ pc' = "walk"
  /\ UNCHANGED <<want, todo, unvisited, removed>>

\* while(src_loc != backup): emit, erase, follow.  map::at throws when the
\* source is not itself a pending destination.
FollowCycle ==
  /\ pc = "walk" /\ todo[cur] # backup
  /\ store' = LocationAssign(store, cur, todo[cur])
  /\ todo' = Without(todo, cur)
  /\ cur' = todo[cur]
  /\ pc' = IF todo[cur] \in DOMAIN todo \ {cur} THEN "walk" ELSE "threw"
  /\ UNCHANGED <<want, unvisited, removed, backup>>

\* The last move of the cycle takes the saved content.
CloseCycle ==
  /\ pc = "walk" /\ todo[cur] = backup
  /\ store' = LocationAssign(store, cur, BackupTemp)
  /\ todo' = Without(todo, cur)
  /\ pc' = "cycle"
  /\ UNCHANGED <<want, unvisited, removed, cur, backup>>

Finish ==
  /\ pc = "cycle" /\ DOMAIN todo = {}
  /\ pc' = "done"
  /\ UNCHANGED <<want, todo, unvisited, removed, cur, backup, store>>

Returned == pc \in {"done", "threw"} /\ UNCHANGED vars

Next ==
  \/ \E d \in Storage : Visit(d) \/ DropSelfLoop(d) \/ OpenCycle(d)
  \/ EndPass \/ FollowCycle \/ CloseCycle \/ Finish
  \/ Returned

Spec == Init /\ [][Next]_vars

-----------------------------------------------------------------------------
\* Every variable has its type.
TypeOK ==
  /\ want \in Moves
  /\ todo \in Moves
  /\ unvisited \subseteq DOMAIN todo
  /\ removed \in BOOLEAN
  /\ cur \in Location \cup {kTmpRd} /\ backup \in Storage \cup {kTmpRd}
  /\ pc \in {"peel", "cycle", "walk", "done", "threw"}
  /\ store \in [Places -> Location \cup {Junk}]

\* When parallel_assignment returns, the emitted sequence has the effect of
\* performing all moves at once: a destination holds what its source held
\* before the first of them, every other register and slot is untouched.
Simultaneous ==
  pc = "done" =>
    \A p \in Storage : store[p] = IF p \in DOMAIN want THEN want[p] ELSE p

\* The content a pending move needs is not overwritten before it is moved: it
\* is still in the source, or it is the one saved in kTmpRd.
SourcesSurvive ==
  \A d \in DOMAIN todo :
    \/ Read(store, todo[d]) = todo[d]
    \/ pc = "walk" /\ todo[d] = backup /\ store[kTmpRd] = backup

\* What is left after the peeling loop is cycles only, as the comment in the
\* code has it: following one never leaves the map, so map::at cannot throw.
CyclesOnly ==
  /\ pc # "threw"
  /\ pc = "cycle" => \A d \in DOMAIN todo :
                        todo[d] \in DOMAIN todo /\ (\E e \in DOMAIN todo : todo[e] = d)
=============================================================================
