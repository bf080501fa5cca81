----------------------------- MODULE LinearScan -----------------------------
(***************************************************************************)
(* linear_coloring of src/backend/regalloc.cpp, the register allocator the *)
(* compiler runs: one pass over the live intervals sorted by start, with a *)
(* map from each occupied register to the interval that occupies it, and   *)
(* eviction of the lightest occupant when the pool is exhausted.           *)
(***************************************************************************)
EXTENDS Integers, FiniteSets

CONSTANTS
  Pool,       \* kAllocatableRegs
  ArgRegs,    \* a0..a7: the registers the first parameters arrive in
  VRegs,      \* virtual registers that have an interval
  MaxPos,     \* instruction numbers run from 1 to MaxPos; 0 is function entry
  MaxUses     \* bound on the use count of a register

ASSUME ScanAssumption ==
  /\ MaxPos \in Nat /\ MaxUses \in Nat
  /\ IsFiniteSet(VRegs)
  /\ ArgRegs \subseteq Pool
  /\ Pool \cap Int = {}

VARIABLES
  iv,         \* vreg |-> its LiveInterval (input)
  home,       \* parameter |-> the argument register it arrives in (input)
  rest,       \* intervals the loop has not reached
  active,     \* occupied register |-> vreg
  mapping,    \* AllocationResult::mapping: vreg |-> register, or slot offset
  spillArea   \* spill_area_size

vars == <<iv, home, rest, active, mapping, spillArea>>

Interval == [start : 0..MaxPos, end : 0..MaxPos, uses : 0..MaxUses]

\* The intervals build_intervals produces.  A parameter is defined at entry;
\* an instruction defines at most one register; a used register lives past its
\* definition.
WellFormed(f, params) ==
  /\ \A v \in VRegs :
       /\ f[v].start <= f[v].end
       /\ f[v].uses > 0 => f[v].start < f[v].end
       /\ f[v].start = 0 <=> v \in params
  /\ \A u, v \in VRegs \ params : u # v => f[u].start # f[v].start

Weight(v) == 3 * iv[v].uses - (iv[v].end - iv[v].start)

Overlap(u, v) == iv[u].start <= iv[v].end /\ iv[v].start <= iv[u].end

\* std::erase_if(active, ...): occupants whose interval ended before v starts.
StillActive_Closed(v) == {r \in DOMAIN active : iv[active[r]].end > iv[v].start}
StillActive(v) == {r \in DOMAIN active : iv[active[r]].end >= iv[v].start}

RestrictTo(f, S) == [x \in DOMAIN f \cap S |-> f[x]]
With(f, x, y) == [z \in DOMAIN f \cup {x} |-> IF z = x THEN y ELSE f[z]]

Init ==
  \E params \in SUBSET VRegs :
    /\ iv \in [VRegs -> Interval]
    /\ WellFormed(iv, params)
    /\ home \in [params -> ArgRegs]
    /\ \A p, q \in params : home[p] = home[q] => p = q
    /\ rest = VRegs
    /\ mapping = home
    /\ active = [r \in {home[p] : p \in params} |-> CHOOSE p \in params : home[p] = r]
    /\ spillArea = 0

\* v is the next interval in the sorted sequence.
IsNext(v) == v \in rest /\ \A u \in rest : iv[v].start <= iv[u].start

\* Parameters were placed before the loop: continue.
SkipParam(v) ==
  /\ IsNext(v) /\ v \in DOMAIN mapping
  /\ rest' = rest \ {v}
  /\ UNCHANGED <<iv, home, active, mapping, spillArea>>

\* A register is free once the finished intervals are erased.  The code takes
\* the first one in the order of the pool; any free one will do here.
TakeFree(v) ==
  /\ IsNext(v) /\ v \notin DOMAIN mapping
  /\ \E r \in Pool \ StillActive(v) :
       /\ mapping' = With(mapping, v, r)
       /\ active' = With(RestrictTo(active, StillActive(v)), r, v)
  /\ rest' = rest \ {v}
  /\ UNCHANGED <<iv, home, spillArea>>

PoolFull(v) == Pool \subseteq StillActive(v)

\* r holds a lightest occupant (std::ranges::min_element).
IsLightest(r, v) ==
  r \in StillActive(v) /\ \A q \in StillActive(v) : Weight(active[r]) <= Weight(active[q])

\* The lightest occupant is lighter than v: it goes to a new slot, v gets its register.
Evict_KeepSlot(v) ==
  /\ IsNext(v) /\ v \notin DOMAIN mapping /\ PoolFull(v)
  /\ \E r \in Pool :
       /\ IsLightest(r, v) /\ Weight(active[r]) < Weight(v)
       /\ mapping' = With(With(mapping, active[r], spillArea), v, r)
       /\ active' = With(RestrictTo(active, StillActive(v)), r, v)
  /\ rest' = rest \ {v}
  /\ UNCHANGED <<iv, home, spillArea>>
Evict(v) ==
  /\ IsNext(v) /\ v \notin DOMAIN mapping /\ PoolFull(v)
  /\ \E r \in Pool :
       /\ IsLightest(r, v) /\ Weight(active[r]) < Weight(v)
       /\ mapping' = With(With(mapping, active[r], spillArea), v, r)
       /\ active' = With(RestrictTo(active, StillActive(v)), r, v)
  /\ spillArea' = spillArea + 8
  /\ rest' = rest \ {v}
  /\ UNCHANGED <<iv, home>>

\* No occupant is lighter than v: v itself is spilled.
SpillSelf(v) ==
  /\ IsNext(v) /\ v \notin DOMAIN mapping /\ PoolFull(v)
  /\ \A r \in StillActive(v) : Weight(active[r]) >= Weight(v)
  /\ mapping' = With(mapping, v, spillArea)
  /\ active' = RestrictTo(active, StillActive(v))
  /\ spillArea' = spillArea + 8
  /\ rest' = rest \ {v}
  /\ UNCHANGED <<iv, home>>

Returned == rest = {} /\ UNCHANGED vars

Next ==
  \/ \E v \in VRegs : SkipParam(v) \/ TakeFree(v) \/ Evict(v) \/ SpillSelf(v)
  \/ Returned

Spec == Init /\ [][Next]_vars

-----------------------------------------------------------------------------
InRegister(v) == v \in DOMAIN mapping /\ mapping[v] \in Pool
Spilled(v) == v \in DOMAIN mapping /\ mapping[v] \notin Pool

\* Every variable has its type.
TypeOK ==
  /\ iv \in [VRegs -> Interval]
  /\ DOMAIN home \subseteq VRegs
  /\ rest \subseteq VRegs
  /\ DOMAIN active \subseteq Pool /\ \A r \in DOMAIN active : active[r] \in VRegs \ (rest \ DOMAIN home)
  /\ DOMAIN mapping \subseteq VRegs /\ \A v \in DOMAIN mapping : mapping[v] \in Pool \cup Nat
  /\ spillArea \in Nat

\* Two virtual registers whose intervals meet never share a physical register,
\* whatever was evicted in between: the guarantee that the generated code, and
\* the search for the registers to save around a call, rely on.
NoInterference ==
  \A u, v \in VRegs :
    u # v /\ InRegister(u) /\ InRegister(v) /\ Overlap(u, v) => mapping[u] # mapping[v]

\* Spill slots are never shared and stay inside the spill area of the frame.
SlotsDisjoint ==
  /\ \A v \in VRegs : Spilled(v) => mapping[v] + 8 <= spillArea
  /\ \A u, v \in VRegs :
       u # v /\ Spilled(u) /\ Spilled(v) =>
         mapping[u] + 8 <= mapping[v] \/ mapping[v] + 8 <= mapping[u]

\* When the allocator returns, every interval has a location (the generator
\* looks locations up with map::at).
Complete == rest = {} => DOMAIN mapping = VRegs

\* The pass never moves a virtual register from one register to another or out
\* of its slot; the only change of mind is an eviction.
OnlyEvictions ==
  [][\A v \in DOMAIN mapping :
       /\ v \in DOMAIN mapping'
       /\ mapping'[v] # mapping[v] => InRegister(v) /\ ~InRegister(v)']_vars
=============================================================================
