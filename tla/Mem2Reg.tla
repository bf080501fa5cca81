------------------------------ MODULE Mem2Reg ------------------------------
(***************************************************************************)
(* PromoteAlloca of src/ir/optimizer.cpp: scalar slots become registers.   *)
(* Phi nodes go where the iterated dominance frontier of the stores is,    *)
(* and SlotRenamer walks the dominator tree with a stack of versions per   *)
(* slot.  The dominator tree is an input here (module DomTree computes     *)
(* it).                                                                    *)
(*                                                                         *)
(* A slot is abstracted to its name and a block to its accesses:           *)
(*   store: a new register, defined just before, is stored in the slot     *)
(*   load:  the slot is loaded into a register another instruction uses    *)
(*   copy:  slot `from' is loaded and stored in the slot                   *)
(*   take:  the slot's address is an operand of a call or a gep            *)
(*   leak:  the slot's address is the value of a store                     *)
(* Registers are named after where they are defined; the numbers that      *)
(* new_version deals out do not matter.                                    *)
(*                                                                         *)
(* When the pass is done the two programs are run side by side.            *)
(***************************************************************************)
EXTENDS Integers, Sequences, Functions, Dominance

CONSTANTS
  NumBlocks,
  Slots,     \* the alloca instructions
  Programs,  \* the pairs [succ, code] to promote
  Bits       \* what a stored register may hold in the final run

ASSUME Mem2RegAssumption == NumBlocks \in Nat \ {0}

Blocks == 0..NumBlocks - 1
Undef == -1   \* the value of a register or slot nothing was written to

VARIABLES
  succ, code,  \* the function (input)
  kids, df,    \* dom_tree.children, dom_tree.df (input)
  slotsLeft,   \* promotable slots insert_phi_for_slot has not done
  slot, work,  \* the slot being done and its worklist
  phis,        \* the phi nodes, <<block, slot>>
  incoming,    \* phi node |-> block label |-> operand
  versions,    \* version_stacks, the top first
  replaced,    \* use_replacement: load |-> operand
  frames,      \* the calls of rename in progress, innermost first
  at, mem, env, \* the final run: block, slot contents, register contents
  loads,       \* what the loads of the last block read, before and after
  pc           \* "phis", "rename", "run" or "thrown"

input == <<succ, code, kids, df>>
placing == <<slotsLeft, slot, work, phis>>
renaming == <<incoming, versions, replaced, frames>>
running == <<at, mem, env, loads>>
vars == <<input, placing, renaming, running, pc>>

Accesses ==
  [op : {"store", "load", "take", "leak"}, slot : Slots] \cup
  [op : {"copy"}, slot : Slots, from : Slots]
Def(b, k) == <<"def", b, k>>
Phi(n) == <<"phi", n[1], n[2]>>
Positions(b) == 1..Len(code[b])
Points == UNION {{b} \X Positions(b) : b \in Blocks}
\* f and, where f is not defined, g; the function defined for x only.
Over(f, g) == [x \in DOMAIN f \cup DOMAIN g |-> IF x \in DOMAIN f THEN f[x] ELSE g[x]]
One(x, v) == [y \in {x} |-> v]

Writes(a, s) == a.op \in {"store", "copy"} /\ a.slot = s

-----------------------------------------------------------------------------
(* What the pass is given: functions whose blocks are all reachable and in *)
(* which, on every path, a store precedes each load of the slot.           *)

Reads(a, s) == (a.op = "load" /\ a.slot = s) \/ (a.op = "copy" /\ a.from = s)
Silent(accesses, s) == \A k \in DOMAIN accesses : ~Writes(accesses[k], s)

\* Where block b reads the slot before writing it, no path gets there that has
\* not met a store: b is outside of some set that contains the entry and, with
\* each of its blocks without a store, the successors.
WellDefined(g, c) ==
  \A b \in Blocks : \A k \in DOMAIN c[b] : \A s \in Slots :
    Reads(c[b][k], s) /\ (\A j \in 1..k - 1 : ~Writes(c[b][j], s)) =>
      \E S \in SUBSET Blocks :
        0 \in S /\ b \notin S /\ \A x \in S : Silent(c[x], s) => g[x] \subseteq S

\* Accesses through a copy of a slot's address, which a leak makes possible,
\* are not modelled.
NoLeak(c) == \A b \in Blocks : \A k \in DOMAIN c[b] : c[b][k].op # "leak"

ASSUME ProgramsAssumption ==
  \A p \in Programs :
    /\ p.succ \in [Blocks -> SUBSET (Blocks \ {0})] /\ AllReachable(p.succ)
    /\ p.code \in [Blocks -> Seq(Accesses)]
    /\ WellDefined(p.succ, p.code) /\ NoLeak(p.code)

\* dom_tree
Children == [a \in Blocks |-> {b \in Blocks \ {0} : IsIdom(succ, a, b)}]
Frontier == [a \in Blocks |-> {b \in Blocks : InFrontier(succ, a, b)}]

-----------------------------------------------------------------------------
\* find_promotable_slots: the address of the slot is used by loads and stores
\* only.  Whether a store uses it as the pointer or as the value is not asked.
Promotable ==
  {s \in Slots : \A p \in Points : code[p[1]][p[2]].slot = s => code[p[1]][p[2]].op # "take"}

DefBlocks(s) == {b \in Blocks : \E k \in Positions(b) : Writes(code[b][k], s)}

Init ==
  /\ succ \in {p.succ : p \in Programs}
  /\ kids = Children /\ df = Frontier
  /\ \E p \in Programs : p.succ = succ /\ code = p.code
  /\ slotsLeft = Promotable /\ slot = "none" /\ work = {}
  /\ phis = {}
  /\ incoming = <<>> /\ replaced = <<>>
  /\ versions = [s \in Promotable |-> <<>>]
  /\ frames = <<>>
  /\ at = 0 /\ mem = [s \in Slots |-> Undef] /\ env = <<>> /\ loads = {}
  /\ pc = "phis"

\* collect_def_blocks
StartSlot ==
  /\ pc = "phis" /\ work = {}
  /\ \E s \in slotsLeft :
       /\ slot' = s /\ slotsLeft' = slotsLeft \ {s}
       /\ work' = DefBlocks(s)
  /\ UNCHANGED <<input, phis, renaming, running, pc>>

\* One block of the worklist; its frontier blocks without a phi for the slot
\* get one and, a definition now, join the worklist unless they were in it.
PlacePhis_Once ==
  /\ pc = "phis"
  /\ \E b \in work :
       /\ phis' = phis \cup (df[b] \X {slot})
       /\ work' = work \ {b}
  /\ UNCHANGED <<input, slotsLeft, slot, renaming, running, pc>>
PlacePhis_Revisit ==
  /\ pc = "phis"
  /\ \E b \in work :
       /\ phis' = phis \cup (df[b] \X {slot})
       /\ work' = (work \ {b}) \cup df[b]
  /\ UNCHANGED <<input, slotsLeft, slot, renaming, running, pc>>
PlacePhis ==
  /\ pc = "phis"
  /\ \E b \in work :
       LET new == {c \in df[b] : <<c, slot>> \notin phis}
       IN /\ phis' = phis \cup (new \X {slot})
          /\ work' = (work \cup (new \ DefBlocks(slot))) \ {b}
  /\ UNCHANGED <<input, slotsLeft, slot, renaming, running, pc>>

-----------------------------------------------------------------------------
(* SlotRenamer.  While it goes through a block its state is the record     *)
(* [versions, replaced, ok], ok being FALSE once current() has thrown.     *)

Push(st, s, operand) == [st EXCEPT !.versions[s] = <<operand>> \o @]

\* The load at point p leaves the block; its uses will read the version.
Load(st, p, s) ==
  IF s \notin Promotable THEN st
  ELSE IF st.versions[s] = <<>> THEN [st EXCEPT !.ok = FALSE]
  ELSE [st EXCEPT !.replaced = Over(@, One(p, Head(st.versions[s])))]

\* check_use of the register that the load at point p defines.
CheckUse(st, p) == IF p \in DOMAIN st.replaced THEN st.replaced[p] ELSE Def(p[1], p[2])

Access(st, b, k) ==
  LET a == code[b][k]
      p == <<b, k>>
  IN CASE a.op = "store" /\ a.slot \in Promotable -> Push(st, a.slot, Def(b, k))
       [] a.op = "load" -> Load(st, p, a.slot)
       [] a.op = "copy" /\ a.slot \in Promotable ->
            LET st2 == Load(st, p, a.from) IN Push(st2, a.slot, CheckUse(st2, p))
       [] a.op = "copy" /\ a.slot \notin Promotable -> Load(st, p, a.from)
       [] OTHER -> st

PhisAt(b) == {n \in phis : n[1] = b}

\* The first two loops of rename: new versions for the phis, then the accesses.
Renamed(b) ==
  LET start == [versions |-> [s \in Promotable |->
                  IF <<b, s>> \in phis THEN <<Phi(<<b, s>>)>> \o versions[s] ELSE versions[s]],
                replaced |-> replaced, ok |-> TRUE]
      upTo[k \in 0..Len(code[b])] ==
        IF k = 0 THEN start ELSE LET st == upTo[k - 1] IN Access(st, b, k)
  IN upTo[Len(code[b])]

\* The third loop: the phis of the successors get an operand for b, unless the
\* slot has no version yet or the phi has an operand for b already.
WithOperands(b, st) ==
  [n \in phis |->
    IF n[1] \in succ[b] /\ st.versions[n[2]] # <<>> /\ b \notin DOMAIN incoming[n]
    THEN Over(incoming[n], One(b, Head(st.versions[n[2]]))) ELSE incoming[n]]

\* A call of rename for block b, up to its loop over the children.
Call(b, callers) ==
  LET st == Renamed(b)
  IN /\ versions' = st.versions /\ replaced' = st.replaced
     /\ incoming' = WithOperands(b, st)
     /\ frames' = <<[block |-> b, left |-> kids[b],
                     pushes |-> [s \in Promotable |-> Len(st.versions[s]) - Len(versions[s])]]>>
                  \o callers
     /\ pc' = IF st.ok THEN "rename" ELSE "thrown"

StartRename ==
  /\ pc = "phis" /\ work = {} /\ slotsLeft = {}
  /\ incoming' = [n \in phis |-> <<>>]
  /\ pc' = "entry"
  /\ UNCHANGED <<input, placing, versions, replaced, frames, running>>

RenameEntry ==
  /\ pc = "entry"
  /\ Call(0, <<>>)
  /\ UNCHANGED <<input, placing, running>>

RenameChild ==
  /\ pc = "rename" /\ frames # <<>>
  /\ \E c \in Head(frames).left :
       Call(c, <<[Head(frames) EXCEPT !.left = @ \ {c}]>> \o Tail(frames))
  /\ UNCHANGED <<input, placing, running>>

\* The rollback at the end of rename.
Rollback ==
  /\ pc = "rename" /\ frames # <<>> /\ Head(frames).left = {}
  /\ versions' = [s \in Promotable |->
       SubSeq(versions[s], 1 + Head(frames).pushes[s], Len(versions[s]))]
  /\ frames' = Tail(frames)
  /\ UNCHANGED <<input, placing, incoming, replaced, running, pc>>

-----------------------------------------------------------------------------
(* The two programs side by side: memory before, registers after. *)

RegisterOf(e, r) == IF r \in DOMAIN e THEN e[r] ELSE Undef

\* The phis of block b read their operand for `from' at once.
PhiValues(b, from, e) ==
  [r \in {Phi(n) : n \in PhisAt(b)} |->
    LET n == <<b, r[3]>>
    IN IF from \in DOMAIN incoming[n] THEN RegisterOf(e, incoming[n][from]) ELSE Undef]

\* What a use of the load at point p reads after the pass.
AfterLoad(e, p) == RegisterOf(e, CheckUse([replaced |-> replaced], p))

\* Access k of block b on st = [mem, env, loads], the register it stores, if
\* it stores one, set by bits.
Define(st, b, k, v) == [st EXCEPT !.env = Over(One(Def(b, k), v), @)]
Write(st, s, v) == [st EXCEPT !.mem[s] = v]
Read(st, b, k, s) ==
  LET st2 == IF s \in Promotable THEN st ELSE Define(st, b, k, st.mem[s])
  IN [st2 EXCEPT !.loads = @ \cup {<<st.mem[s], AfterLoad(st2.env, <<b, k>>)>>}]
Executed(st, b, k, bits) ==
  LET a == code[b][k]
  IN CASE a.op = "store" -> Define(Write(st, a.slot, bits[k]), b, k, bits[k])
       [] a.op = "load" -> Read(st, b, k, a.slot)
       [] a.op = "copy" -> Write(Read(st, b, k, a.from), a.slot, st.mem[a.from])
       [] OTHER -> st

\* Block b runs on [mem, env, loads].
Ran(b, m, e, bits) ==
  LET upTo[k \in 0..Len(code[b])] ==
        IF k = 0 THEN [mem |-> m, env |-> e, loads |-> {}]
        ELSE LET st == upTo[k - 1] IN Executed(st, b, k, bits)
  IN upTo[Len(code[b])]

Run(b, e) ==
  \E bits \in [{k \in Positions(b) : code[b][k].op = "store"} -> Bits] :
    LET st == Ran(b, mem, e, bits)
    IN at' = b /\ mem' = st.mem /\ env' = st.env /\ loads' = st.loads

Erase ==
  /\ pc = "rename" /\ frames = <<>>
  /\ pc' = "run"
  /\ Run(0, env)
  /\ UNCHANGED <<input, placing, renaming>>

Follow ==
  /\ pc = "run"
  /\ \E b \in succ[at] : Run(b, Over(PhiValues(b, at, env), env))
  /\ UNCHANGED <<input, placing, renaming, pc>>

Returned == pc = "run" /\ succ[at] = {} /\ UNCHANGED vars

Next ==
  \/ StartSlot \/ PlacePhis \/ StartRename \/ RenameEntry \/ RenameChild \/ Rollback
  \/ Erase \/ Follow \/ Returned

Spec == Init /\ [][Next]_vars

\* The pass is sequential code; the program it compiles need not end.
Pass == StartSlot \/ PlacePhis \/ StartRename \/ RenameEntry \/ RenameChild \/ Rollback \/ Erase
FairSpec == Spec /\ WF_vars(Pass)

-----------------------------------------------------------------------------
Registers == {Def(p[1], p[2]) : p \in Points} \cup {Phi(n) : n \in Blocks \X Slots}

\* Every variable has its type; the registers are in SSA form by their names.
TypeOK ==
  /\ slotsLeft \subseteq Promotable /\ work \subseteq Blocks
  /\ phis \subseteq Blocks \X Promotable
  /\ DOMAIN incoming \subseteq phis
  /\ \A n \in DOMAIN incoming :
       /\ \A b \in DOMAIN incoming[n] : n[1] \in succ[b]
       /\ \A b \in DOMAIN incoming[n] : incoming[n][b] \in Registers
  /\ DOMAIN versions = Promotable /\ \A s \in Promotable : Range(versions[s]) \subseteq Registers
  /\ DOMAIN replaced \subseteq Points
  /\ \A k \in DOMAIN frames : frames[k].block \in Blocks /\ frames[k].left \subseteq Blocks
  /\ at \in Blocks /\ mem \in [Slots -> Bits \cup {Undef}]
  /\ pc \in {"phis", "entry", "rename", "run", "thrown"}

\* On every path, what an instruction reads from a register instead of a load
\* is what the load would have read from memory; and current() never throws: a
\* slot that every path has stored to has a version where it is loaded.
SameValues == pc # "thrown" /\ \A l \in loads : l[1] = l[2]

\* The pass returns.
Terminates == <>(pc = "run")

=============================================================================
