-------------------------- MODULE AllocationProofs --------------------------
(***************************************************************************)
(* Linear scan, and the moves of the phis between the places it assigns,   *)
(* for every register pool, every set of live intervals and every block of *)
(* phis.                                                                   *)
(*                                                                         *)
(* Of the scan, the invariants the runs check are not inductive: what makes*)
(* a register reusable is that its last tenant either still occupies it in *)
(* `active' or ended before every interval the loop has yet to reach.      *)
(*                                                                         *)
(* The phis of a block are alive together, each with whatever crosses the  *)
(* edge into the block, so what the scan guarantees keeps their places     *)
(* apart, and no entry of the map of moves is asked for twice.             *)
(***************************************************************************)
EXTENDS PhiMoves, FiniteSetTheorems, TLAPS

\* Intervals the loop has still to place.
Unplaced == rest \ DOMAIN home

\* `active' is the inverse of `mapping' on the registers it holds.
Occupants ==
  \A r \in DOMAIN active : active[r] \in DOMAIN mapping /\ mapping[active[r]] = r

\* Parameters are placed before the loop, everything else by it.
Placed ==
  /\ DOMAIN home \subseteq DOMAIN mapping
  /\ DOMAIN mapping \cap Unplaced = {}
  /\ VRegs \ rest \subseteq DOMAIN mapping

\* A register's tenant is in `active', or is dead for the rest of the scan.
Tenants ==
  \A v \in DOMAIN mapping : mapping[v] \in Pool =>
    \/ mapping[v] \in DOMAIN active /\ active[mapping[v]] = v
    \/ \A u \in Unplaced : iv[v].end < iv[u].start

IInv == TypeOK /\ Occupants /\ Placed /\ Tenants /\ NoInterference /\ SlotsDisjoint

LEMMA IntervalFacts ==
  ASSUME TypeOK, NEW v \in VRegs
  PROVE  iv[v].start \in Int /\ iv[v].end \in Int
  BY ScanAssumption DEF TypeOK, Interval

\* A register that StillActive drops held an interval that ended before v starts.
LEMMA Dropped ==
  ASSUME TypeOK, NEW v \in VRegs, NEW r \in DOMAIN active, r \notin StillActive(v)
  PROVE  iv[active[r]].end < iv[v].start
<1>1. active[r] \in VRegs
  BY DEF TypeOK
<1>2. ~(iv[active[r]].end >= iv[v].start)
  BY DEF StillActive
<1> QED
  BY <1>1, <1>2, IntervalFacts

LEMMA InitEstablishes == Init => IInv
<1> SUFFICES ASSUME Init PROVE IInv
  OBVIOUS
<1>1. PICK params \in SUBSET VRegs :
        /\ iv \in [VRegs -> Interval]
        /\ home \in [params -> ArgRegs]
        /\ \A p, q \in params : home[p] = home[q] => p = q
        /\ rest = VRegs
        /\ mapping = home
        /\ active = [r \in {home[p] : p \in params} |-> CHOOSE p \in params : home[p] = r]
        /\ spillArea = 0
  BY DEF Init
<1>2. \A r \in DOMAIN active : active[r] \in params /\ home[active[r]] = r /\ r \in Pool
  BY <1>1, ScanAssumption
<1>3. \A p \in params : home[p] \in DOMAIN active /\ active[home[p]] = p
  BY <1>1, <1>2
<1>4. TypeOK
  BY <1>1, <1>2, ScanAssumption DEF TypeOK
<1>5. Occupants /\ Placed /\ Tenants
  BY <1>1, <1>2, <1>3 DEF Occupants, Placed, Tenants, Unplaced
<1>6. NoInterference /\ SlotsDisjoint
  BY <1>1, ScanAssumption DEF NoInterference, SlotsDisjoint, InRegister, Spilled
<1> QED
  BY <1>4, <1>5, <1>6 DEF IInv

LEMMA SkipKeeps ==
  ASSUME IInv, NEW v \in VRegs, SkipParam(v)
  PROVE  IInv'
<1> USE DEF IInv, SkipParam
<1>1. TypeOK'
  BY DEF TypeOK, Placed, Unplaced
<1>2. Occupants' /\ Placed' /\ Tenants'
  BY DEF Occupants, Placed, Tenants, Unplaced
<1>3. NoInterference' /\ SlotsDisjoint'
  BY DEF NoInterference, SlotsDisjoint, InRegister, Spilled, Overlap
<1> QED
  BY <1>1, <1>2, <1>3

\* The interval being placed is not a parameter, and leaves the unplaced set.
LEMMA PlacingFacts ==
  ASSUME IInv, NEW v \in VRegs, IsNext(v), v \notin DOMAIN mapping,
         rest' = rest \ {v}, home' = home, iv' = iv
  PROVE  /\ v \in Unplaced
         /\ v \notin DOMAIN home
         /\ Unplaced' = Unplaced \ {v}
         /\ \A u \in Unplaced : iv[v].start <= iv[u].start
         /\ \A u \in Unplaced, w \in VRegs :
              iv[w].end < iv[v].start => iv[w].end < iv[u].start
<1>1. v \in rest /\ v \notin DOMAIN home
  BY DEF IInv, Placed, IsNext
<1>2. \A u \in Unplaced : u \in VRegs /\ iv[v].start <= iv[u].start
  BY DEF IInv, TypeOK, IsNext, Unplaced
<1>3. \A w \in VRegs : iv[w].start \in Int /\ iv[w].end \in Int
  BY IntervalFacts DEF IInv
<1>4. ASSUME NEW u \in Unplaced, NEW w \in VRegs, iv[w].end < iv[v].start
      PROVE  iv[w].end < iv[u].start
  BY <1>2, <1>3, <1>4
<1> QED
  BY <1>1, <1>2, <1>4 DEF Unplaced

LEMMA TakeFreeKeeps ==
  ASSUME IInv, NEW v \in VRegs, TakeFree(v)
  PROVE  IInv'
<1>1. PICK r \in Pool \ StillActive(v) :
        /\ mapping' = With(mapping, v, r)
        /\ active' = With(RestrictTo(active, StillActive(v)), r, v)
  BY DEF TakeFree
<1>2. /\ IsNext(v) /\ v \notin DOMAIN mapping /\ rest' = rest \ {v}
      /\ iv' = iv /\ home' = home /\ spillArea' = spillArea
  BY DEF TakeFree
<1>3. /\ DOMAIN mapping' = DOMAIN mapping \cup {v} /\ mapping'[v] = r
      /\ \A w \in DOMAIN mapping : mapping'[w] = mapping[w]
  BY <1>1, <1>2 DEF With
<1>4. StillActive(v) \subseteq DOMAIN active
  BY DEF StillActive
<1>5. /\ DOMAIN active' = StillActive(v) \cup {r} /\ active'[r] = v
      /\ \A q \in StillActive(v) : active'[q] = active[q]
  BY <1>1, <1>4 DEF With, RestrictTo
<1>6. /\ v \in Unplaced /\ v \notin DOMAIN home /\ Unplaced' = Unplaced \ {v}
      /\ \A u \in Unplaced, w \in VRegs : iv[w].end < iv[v].start => iv[w].end < iv[u].start
  BY <1>2, PlacingFacts
<1>7. TypeOK /\ Occupants /\ Placed /\ Tenants
  BY DEF IInv
<1>8. \A w \in DOMAIN mapping : mapping[w] = r => iv[w].end < iv[v].start
  <2> SUFFICES ASSUME NEW w \in DOMAIN mapping, mapping[w] = r
               PROVE  iv[w].end < iv[v].start
    OBVIOUS
  <2>1. CASE r \in DOMAIN active /\ active[r] = w
    BY <2>1, <1>1, <1>7, Dropped
  <2>2. CASE \A u \in Unplaced : iv[w].end < iv[u].start
    BY <2>2, <1>6
  <2> QED
    BY <2>1, <2>2, <1>1, <1>7 DEF Tenants
<1>a. TypeOK'
  BY <1>2, <1>3, <1>4, <1>5, <1>6, <1>7 DEF TypeOK, Unplaced
<1>b. Occupants'
  BY <1>1, <1>3, <1>4, <1>5, <1>7 DEF Occupants
<1>c. Placed'
  BY <1>2, <1>3, <1>6, <1>7 DEF Placed, Unplaced
<1>d. Tenants'
  <2> SUFFICES ASSUME NEW w \in DOMAIN mapping', mapping'[w] \in Pool
               PROVE  \/ mapping'[w] \in DOMAIN active' /\ active'[mapping'[w]] = w
                      \/ \A u \in Unplaced' : iv[w].end < iv[u].start
    BY <1>2 DEF Tenants
  <2>1. CASE w = v
    BY <2>1, <1>3, <1>5
  <2>2. CASE w # v /\ mapping[w] = r
    BY <2>2, <1>3, <1>6, <1>7, <1>8 DEF TypeOK
  <2>3. CASE w # v /\ mapping[w] # r /\ mapping[w] \in StillActive(v)
    <3>1. active[mapping[w]] = w \/ \A u \in Unplaced : iv[w].end < iv[u].start
      BY <2>3, <1>3, <1>7 DEF Tenants
    <3> QED
      BY <3>1, <2>3, <1>3, <1>5, <1>6
  <2>4. CASE w # v /\ mapping[w] \in DOMAIN active \ StillActive(v) /\ active[mapping[w]] = w
    <3>1. iv[w].end < iv[v].start
      BY <2>4, <1>7, Dropped
    <3> QED
      BY <3>1, <2>4, <1>3, <1>6, <1>7 DEF TypeOK
  <2>5. CASE w # v /\ \A u \in Unplaced : iv[w].end < iv[u].start
    BY <2>5, <1>6
  <2> QED
    BY <2>1, <2>2, <2>3, <2>4, <2>5, <1>3, <1>7 DEF Tenants
<1>e. NoInterference'
  <2> SUFFICES ASSUME NEW a \in VRegs, NEW b \in VRegs, a # b,
                      InRegister(a)', InRegister(b)', Overlap(a, b)', mapping'[a] = mapping'[b]
               PROVE  FALSE
    BY DEF NoInterference
  <2>1. iv[a].start <= iv[b].end /\ iv[b].start <= iv[a].end
    BY <1>2 DEF Overlap
  <2>2. CASE a # v /\ b # v
    BY <2>1, <2>2, <1>3 DEF IInv, NoInterference, InRegister, Overlap
  <2>3. CASE a = v
    <3>1. b \in DOMAIN mapping /\ mapping[b] = r
      BY <2>3, <1>3 DEF InRegister
    <3> QED
      BY <3>1, <1>8, <2>1, <2>3, <1>7, IntervalFacts
  <2>4. CASE b = v
    <3>1. a \in DOMAIN mapping /\ mapping[a] = r
      BY <2>4, <1>3 DEF InRegister
    <3> QED
      BY <3>1, <1>8, <2>1, <2>4, <1>7, IntervalFacts
  <2> QED
    BY <2>2, <2>3, <2>4
<1>f. SlotsDisjoint'
  BY <1>1, <1>2, <1>3 DEF IInv, SlotsDisjoint, Spilled
<1> QED
  BY <1>a, <1>b, <1>c, <1>d, <1>e, <1>f DEF IInv

\* Evicting the tenant of r frees r exactly as an expired interval would: the
\* tenant is remapped to a slot, and any earlier tenant of r is dead.
LEMMA EvictKeeps ==
  ASSUME IInv, NEW v \in VRegs, Evict(v)
  PROVE  IInv'
<1>1. PICK r \in Pool :
        /\ r \in StillActive(v)
        /\ mapping' = With(With(mapping, active[r], spillArea), v, r)
        /\ active' = With(RestrictTo(active, StillActive(v)), r, v)
  BY DEF Evict, IsLightest
<1>2. /\ IsNext(v) /\ v \notin DOMAIN mapping /\ rest' = rest \ {v}
      /\ iv' = iv /\ home' = home /\ spillArea' = spillArea + 8
  BY DEF Evict
<1>3. StillActive(v) \subseteq DOMAIN active
  BY DEF StillActive
<1>4. TypeOK /\ Occupants /\ Placed /\ Tenants
  BY DEF IInv
<1> DEFINE x == active[r]
<1>5. x \in DOMAIN mapping /\ mapping[x] = r /\ x # v /\ x \in VRegs
  BY <1>1, <1>2, <1>3, <1>4 DEF Occupants, TypeOK
<1>6. /\ DOMAIN mapping' = DOMAIN mapping \cup {v} /\ mapping'[v] = r
      /\ mapping'[x] = spillArea
      /\ \A w \in DOMAIN mapping \ {x} : mapping'[w] = mapping[w]
  BY <1>1, <1>2, <1>5 DEF With
<1>7. /\ DOMAIN active' = StillActive(v) /\ active'[r] = v
      /\ \A q \in StillActive(v) \ {r} : active'[q] = active[q]
  BY <1>1, <1>3 DEF With, RestrictTo
<1>8. /\ v \in Unplaced /\ v \notin DOMAIN home /\ Unplaced' = Unplaced \ {v}
      /\ \A u \in Unplaced, w \in VRegs : iv[w].end < iv[v].start => iv[w].end < iv[u].start
  BY <1>2, PlacingFacts
<1>9. spillArea \in Nat /\ spillArea \notin Pool
  BY <1>4, ScanAssumption DEF TypeOK
<1>10. \A w \in DOMAIN mapping \ {x} : mapping[w] = r => iv[w].end < iv[v].start
  BY <1>1, <1>4, <1>8 DEF Tenants
<1>a. TypeOK'
  BY <1>2, <1>3, <1>4, <1>6, <1>7, <1>8, <1>9 DEF TypeOK, Unplaced
<1>b. Occupants'
  <2> SUFFICES ASSUME NEW q \in DOMAIN active'
               PROVE  active'[q] \in DOMAIN mapping' /\ mapping'[active'[q]] = q
    BY DEF Occupants
  <2>1. CASE q = r
    BY <2>1, <1>6, <1>7
  <2>2. CASE q # r
    BY <2>2, <1>3, <1>4, <1>5, <1>6, <1>7 DEF Occupants
  <2> QED
    BY <2>1, <2>2
<1>c. Placed'
  BY <1>2, <1>6, <1>8, <1>4 DEF Placed, Unplaced
<1>d. Tenants'
  <2> SUFFICES ASSUME NEW w \in DOMAIN mapping', mapping'[w] \in Pool
               PROVE  \/ mapping'[w] \in DOMAIN active' /\ active'[mapping'[w]] = w
                      \/ \A u \in Unplaced' : iv[w].end < iv[u].start
    BY <1>2 DEF Tenants
  <2>0. w # x
    BY <1>6, <1>9
  <2>1. CASE w = v
    BY <2>1, <1>1, <1>6, <1>7
  <2>2. CASE w # v /\ mapping[w] = r
    BY <2>0, <2>2, <1>6, <1>8, <1>4, <1>10 DEF TypeOK
  <2>3. CASE w # v /\ mapping[w] # r /\ mapping[w] \in StillActive(v)
    <3>1. active[mapping[w]] = w \/ \A u \in Unplaced : iv[w].end < iv[u].start
      BY <2>0, <2>3, <1>4, <1>6 DEF Tenants
    <3> QED
      BY <3>1, <2>0, <2>3, <1>6, <1>7, <1>8
  <2>4. CASE w # v /\ mapping[w] \in DOMAIN active \ StillActive(v) /\ active[mapping[w]] = w
    <3>1. iv[w].end < iv[v].start
      BY <2>4, <1>4, Dropped
    <3> QED
      BY <3>1, <2>4, <1>6, <1>8, <1>4 DEF TypeOK
  <2>5. CASE w # v /\ \A u \in Unplaced : iv[w].end < iv[u].start
    BY <2>5, <1>8
  <2> QED
    BY <2>0, <2>1, <2>2, <2>3, <2>4, <2>5, <1>4, <1>6 DEF Tenants
<1>e. NoInterference'
  <2> SUFFICES ASSUME NEW a \in VRegs, NEW b \in VRegs, a # b,
                      InRegister(a)', InRegister(b)', Overlap(a, b)', mapping'[a] = mapping'[b]
               PROVE  FALSE
    BY DEF NoInterference
  <2>1. iv[a].start <= iv[b].end /\ iv[b].start <= iv[a].end
    BY <1>2 DEF Overlap
  <2>2. a # x /\ b # x
    BY <1>6, <1>9 DEF InRegister
  <2>3. CASE a # v /\ b # v
    BY <2>1, <2>2, <2>3, <1>6 DEF IInv, NoInterference, InRegister, Overlap
  <2>4. CASE a = v
    <3>1. b \in DOMAIN mapping \ {x} /\ mapping[b] = r
      BY <2>2, <2>4, <1>6 DEF InRegister
    <3> QED
      BY <3>1, <1>10, <2>1, <2>4, <1>4, IntervalFacts
  <2>5. CASE b = v
    <3>1. a \in DOMAIN mapping \ {x} /\ mapping[a] = r
      BY <2>2, <2>5, <1>6 DEF InRegister
    <3> QED
      BY <3>1, <1>10, <2>1, <2>5, <1>4, IntervalFacts
  <2> QED
    BY <2>3, <2>4, <2>5
<1>f. SlotsDisjoint'
  <2>1. \A w \in VRegs : Spilled(w)' => w = x \/ (Spilled(w) /\ mapping'[w] = mapping[w])
    BY <1>1, <1>6 DEF Spilled
  <2>2. \A w \in VRegs : Spilled(w) => mapping[w] \in Nat /\ mapping[w] + 8 <= spillArea
    BY <1>4 DEF IInv, SlotsDisjoint, Spilled, TypeOK
  <2>3. \A w \in VRegs : Spilled(w)' => mapping'[w] + 8 <= spillArea'
    BY <2>1, <2>2, <1>2, <1>6, <1>9
  <2>4. ASSUME NEW a \in VRegs, NEW b \in VRegs, a # b, Spilled(a)', Spilled(b)'
        PROVE  mapping'[a] + 8 <= mapping'[b] \/ mapping'[b] + 8 <= mapping'[a]
    <3>1. CASE a # x /\ b # x
      <4>1. Spilled(a) /\ Spilled(b) /\ mapping'[a] = mapping[a] /\ mapping'[b] = mapping[b]
        BY <3>1, <2>1, <2>4
      <4> QED
        BY <4>1, <2>4 DEF IInv, SlotsDisjoint
    <3>2. CASE a = x
      BY <3>2, <2>1, <2>2, <2>4, <1>6
    <3>3. CASE b = x
      BY <3>3, <2>1, <2>2, <2>4, <1>6
    <3> QED
      BY <3>1, <3>2, <3>3
  <2> QED
    BY <2>3, <2>4 DEF SlotsDisjoint
<1> QED
  BY <1>a, <1>b, <1>c, <1>d, <1>e, <1>f DEF IInv

LEMMA SpillSelfKeeps ==
  ASSUME IInv, NEW v \in VRegs, SpillSelf(v)
  PROVE  IInv'
<1>1. /\ IsNext(v) /\ v \notin DOMAIN mapping /\ rest' = rest \ {v}
      /\ iv' = iv /\ home' = home /\ spillArea' = spillArea + 8
      /\ mapping' = With(mapping, v, spillArea)
      /\ active' = RestrictTo(active, StillActive(v))
  BY DEF SpillSelf
<1>2. TypeOK /\ Occupants /\ Placed /\ Tenants
  BY DEF IInv
<1>3. StillActive(v) \subseteq DOMAIN active
  BY DEF StillActive
<1>4. /\ DOMAIN mapping' = DOMAIN mapping \cup {v} /\ mapping'[v] = spillArea
      /\ \A w \in DOMAIN mapping : mapping'[w] = mapping[w]
  BY <1>1 DEF With
<1>5. DOMAIN active' = StillActive(v) /\ \A q \in StillActive(v) : active'[q] = active[q]
  BY <1>1, <1>3 DEF RestrictTo
<1>6. /\ v \in Unplaced /\ v \notin DOMAIN home /\ Unplaced' = Unplaced \ {v}
      /\ \A u \in Unplaced, w \in VRegs : iv[w].end < iv[v].start => iv[w].end < iv[u].start
  BY <1>1, PlacingFacts
<1>7. spillArea \in Nat /\ spillArea \notin Pool
  BY <1>2, ScanAssumption DEF TypeOK
<1>a. TypeOK'
  BY <1>1, <1>2, <1>3, <1>4, <1>5, <1>6, <1>7 DEF TypeOK, Unplaced
<1>b. Occupants'
  BY <1>2, <1>3, <1>4, <1>5 DEF Occupants
<1>c. Placed'
  BY <1>1, <1>2, <1>4, <1>6 DEF Placed, Unplaced
<1>d. Tenants'
  <2> SUFFICES ASSUME NEW w \in DOMAIN mapping, mapping[w] \in Pool
               PROVE  \/ mapping[w] \in DOMAIN active' /\ active'[mapping[w]] = w
                      \/ \A u \in Unplaced' : iv[w].end < iv[u].start
    BY <1>1, <1>4, <1>7 DEF Tenants
  <2>1. CASE mapping[w] \in DOMAIN active \ StillActive(v) /\ active[mapping[w]] = w
    <3>1. iv[w].end < iv[v].start
      BY <2>1, <1>2, Dropped
    <3> QED
      BY <3>1, <1>2, <1>6 DEF TypeOK
  <2>2. CASE mapping[w] \in StillActive(v) /\ active[mapping[w]] = w
    BY <2>2, <1>5
  <2>3. CASE \A u \in Unplaced : iv[w].end < iv[u].start
    BY <2>3, <1>6
  <2> QED
    BY <2>1, <2>2, <2>3, <1>2 DEF Tenants
<1>e. NoInterference'
  <2>1. \A w \in VRegs : InRegister(w)' => InRegister(w) /\ mapping'[w] = mapping[w]
    BY <1>4, <1>7 DEF InRegister
  <2> QED
    BY <2>1, <1>1 DEF IInv, NoInterference, Overlap
<1>f. SlotsDisjoint'
  <2>1. \A w \in VRegs : Spilled(w)' => w = v \/ (w # v /\ Spilled(w) /\ mapping'[w] = mapping[w])
    BY <1>4 DEF Spilled
  <2>2. \A w \in VRegs : Spilled(w) => mapping[w] \in Nat /\ mapping[w] + 8 <= spillArea
    BY <1>2 DEF IInv, SlotsDisjoint, Spilled, TypeOK
  <2>3. \A w \in VRegs : Spilled(w)' => mapping'[w] + 8 <= spillArea'
    BY <2>1, <2>2, <1>1, <1>4, <1>7
  <2>4. ASSUME NEW a \in VRegs, NEW b \in VRegs, a # b, Spilled(a)', Spilled(b)'
        PROVE  mapping'[a] + 8 <= mapping'[b] \/ mapping'[b] + 8 <= mapping'[a]
    <3>1. CASE a # v /\ b # v
      <4>1. Spilled(a) /\ Spilled(b) /\ mapping'[a] = mapping[a] /\ mapping'[b] = mapping[b]
        BY <3>1, <2>1, <2>4
      <4> QED
        BY <4>1, <2>4 DEF IInv, SlotsDisjoint
    <3>2. CASE a = v
      BY <3>2, <2>1, <2>2, <2>4, <1>4
    <3>3. CASE b = v
      BY <3>3, <2>1, <2>2, <2>4, <1>4
    <3> QED
      BY <3>1, <3>2, <3>3
  <2> QED
    BY <2>3, <2>4 DEF SlotsDisjoint
<1> QED
  BY <1>a, <1>b, <1>c, <1>d, <1>e, <1>f DEF IInv

LEMMA StutterKeeps == IInv /\ UNCHANGED vars => IInv'
<1> SUFFICES ASSUME IInv, UNCHANGED vars PROVE IInv'
  OBVIOUS
<1> USE DEF vars
<1>1. TypeOK' /\ Occupants' /\ Placed' /\ Tenants'
  BY DEF IInv, TypeOK, Occupants, Placed, Tenants, Unplaced
<1>2. NoInterference' /\ SlotsDisjoint'
  BY DEF IInv, NoInterference, SlotsDisjoint, InRegister, Spilled, Overlap
<1> QED
  BY <1>1, <1>2 DEF IInv

LEMMA StepKeeps == IInv /\ [Next]_vars => IInv'
  BY SkipKeeps, TakeFreeKeeps, EvictKeeps, SpillSelfKeeps, StutterKeeps DEF Next, Returned

LEMMA Invariance == Spec => []IInv
  BY InitEstablishes, StepKeeps, PTL DEF Spec

\* The allocator's data structures keep their types.
THEOREM TypeCorrect == Spec => []TypeOK
<1>1. IInv => TypeOK
  BY DEF IInv
<1> QED
  BY <1>1, Invariance, PTL

\* Whatever is evicted and whenever, two virtual registers whose live intervals
\* meet are never in the same physical register.
THEOREM AllocationIsSafe == Spec => []NoInterference
<1>1. IInv => NoInterference
  BY DEF IInv
<1> QED
  BY <1>1, Invariance, PTL

\* Spill slots are pairwise disjoint and inside the spill area.
THEOREM SlotsAreDisjoint == Spec => []SlotsDisjoint
<1>1. IInv => SlotsDisjoint
  BY DEF IInv
<1> QED
  BY <1>1, Invariance, PTL

\* When the loop is over every interval has a location.
THEOREM EverythingPlaced == Spec => []Complete
<1>1. IInv => Complete
  BY DEF IInv, TypeOK, Placed, Complete
<1> QED
  BY <1>1, Invariance, PTL

\* The only way a location changes is an eviction from register to slot.
THEOREM NoRelocation == Spec => OnlyEvictions
<1> DEFINE Kept == \A v \in DOMAIN mapping :
                     /\ v \in DOMAIN mapping'
                     /\ mapping'[v] # mapping[v] => InRegister(v) /\ ~InRegister(v)'
<1>1. ASSUME IInv, Next PROVE Kept
  <2>1. ASSUME NEW v \in VRegs, SkipParam(v) PROVE Kept
    BY <2>1 DEF SkipParam
  <2>2. ASSUME NEW v \in VRegs, TakeFree(v) PROVE Kept
    BY <2>2 DEF TakeFree, With
  <2>3. ASSUME NEW v \in VRegs, SpillSelf(v) PROVE Kept
    BY <2>3 DEF SpillSelf, With
  <2>4. ASSUME NEW v \in VRegs, Evict(v) PROVE Kept
    <3>1. PICK r \in Pool :
            r \in StillActive(v) /\ mapping' = With(With(mapping, active[r], spillArea), v, r)
      BY <2>4 DEF Evict, IsLightest
    <3>2. active[r] \in DOMAIN mapping /\ mapping[active[r]] = r /\ v \notin DOMAIN mapping
      BY <1>1, <2>4, <3>1 DEF IInv, Occupants, StillActive, Evict
    <3>3. spillArea \notin Pool
      BY <1>1, ScanAssumption DEF IInv, TypeOK
    <3> QED
      BY <3>1, <3>2, <3>3 DEF With, InRegister
  <2>5. CASE UNCHANGED vars
    BY <2>5 DEF vars
  <2> QED
    BY <1>1, <2>1, <2>2, <2>3, <2>4, <2>5 DEF Next, Returned
<1>2. ASSUME IInv, [Next]_vars PROVE [Kept]_vars
  BY <1>1, <1>2
<1> QED
  BY <1>2, Invariance, PTL DEF Spec, OnlyEvictions

-----------------------------------------------------------------------------
(* The moves of one call of parallel_assignment *)

\* The moves not emitted are requested ones.
TodoOfWant == \A d \in DOMAIN todo : d \in DOMAIN moves /\ todo[d] = moves[d]

\* A place without a pending move has its final content.
DoneRight ==
  \A p \in PC!Storage \ DOMAIN todo : store[p] = IF p \in DOMAIN moves THEN moves[p] ELSE p

\* A place with a pending move has not been written.
PendingUntouched == \A p \in DOMAIN todo : store[p] = p

\* A pass that has emitted nothing found a reader of all it visited.
VisitedRead ==
  pc = "peel" /\ ~removed =>
    \A d \in DOMAIN todo \ unvisited : \E e \in DOMAIN todo : todo[e] = d

Injective(f) == \A d, e \in DOMAIN f : f[d] = f[e] => d = e

\* Between two cycles the pending moves are a permutation.
Permutation ==
  pc = "cycle" =>
    /\ \A d \in DOMAIN todo : todo[d] \in DOMAIN todo /\ (\E e \in DOMAIN todo : todo[e] = d)
    /\ Injective(todo)

\* Inside a cycle the pending moves are a permutation but for the path from
\* cur to the saved location.
OpenPath ==
  pc = "walk" =>
    /\ cur \in DOMAIN todo /\ backup \in PC!Storage
    /\ store[kTmpRd] = backup
    /\ backup \notin DOMAIN todo \ {cur}
    /\ \A d \in DOMAIN todo : todo[d] \in (DOMAIN todo \ {cur}) \cup {backup}
    /\ \A d \in DOMAIN todo \ {cur} : \E e \in DOMAIN todo : todo[e] = d
    /\ Injective(todo)

\* The peeling loop has nothing left to visit once it is over, map::at has not
\* thrown, and the function returns with an empty map.
Ended ==
  /\ pc # "peel" => unvisited = {}
  /\ pc # "threw"
  /\ pc = "done" => DOMAIN todo = {}

CopyInv ==
  /\ PC!TypeOK
  /\ TodoOfWant /\ DoneRight /\ PendingUntouched /\ PC!SourcesSurvive
  /\ VisitedRead /\ Permutation /\ OpenPath /\ Ended

-----------------------------------------------------------------------------
\* A map whose range covers its finite domain is a permutation of it.
LEMMA CoveringIsPermutation ==
  ASSUME NEW D, IsFiniteSet(D), NEW f, DOMAIN f = D,
         \A d \in D : \E e \in D : f[e] = d
  PROVE  (\A d \in D : f[d] \in D) /\ Injective(f)
<1> DEFINE h == [e \in D |-> IF f[e] \in D THEN f[e] ELSE e]
<1>1. h \in [D -> D]
  OBVIOUS
<1>2. \A d \in D : \E e \in D : h[e] = d
  OBVIOUS
<1>3. h \in Surjection(D, D)
  BY <1>1, <1>2 DEF Surjection
<1>4. h \in Injection(D, D)
  <2> HIDE DEF h
  <2> QED BY <1>3, FS_SurjSameCardinalityImpliesInj
<1>5. \A d, e \in D : h[d] = h[e] => d = e
  BY <1>1, <1>4 DEF Injection, IsInjective
<1>6. ASSUME NEW d \in D PROVE f[d] \in D
  <2>1. PICK e \in D : f[e] = d
    OBVIOUS
  <2>2. CASE f[d] \notin D
    <3>1. h[d] = d /\ h[e] = d
      BY <2>1, <2>2
    <3> QED BY <3>1, <1>5, <2>1
  <2> QED BY <2>2
<1> QED BY <1>5, <1>6 DEF Injective

\* Removing a key leaves the rest of a map alone.
LEMMA WithoutKey ==
  ASSUME NEW f, NEW d
  PROVE  /\ DOMAIN PC!Without(f, d) = DOMAIN f \ {d}
         /\ \A x \in DOMAIN f \ {d} : PC!Without(f, d)[x] = f[x]
BY DEF PC!Without

LEMMA WithoutMoves ==
  ASSUME NEW f \in PC!Moves, NEW d
  PROVE  PC!Without(f, d) \in PC!Moves
<1>1. PICK D \in SUBSET PC!Storage : f \in [D -> PC!Location]
  BY DEF PC!Moves
<1>2. PC!Without(f, d) \in [D \ {d} -> PC!Location]
  BY <1>1 DEF PC!Without
<1> QED BY <1>2 DEF PC!Moves

LEMMA MovesType ==
  ASSUME NEW f \in PC!Moves
  PROVE  DOMAIN f \subseteq PC!Storage /\ \A d \in DOMAIN f : f[d] \in PC!Location
BY DEF PC!Moves

\* A location is never a temporary, so it is read from the store exactly when
\* it is a register or a slot.
LEMMA ReadLocation ==
  ASSUME NEW st, NEW l \in PC!Location
  PROVE  PC!Read(st, l) = IF l \in PC!Storage THEN st[l] ELSE l
BY MovesAssumption DEF PC!IsConfiguration, PC!Read, PC!Location, PC!Storage, PC!Places, PC!Temps

\* location_assign changes its destination and the two scratch registers only.
LEMMA AssignEffect ==
  ASSUME NEW st \in [PC!Places -> PC!Location \cup {Junk}],
         NEW d \in PC!Storage \cup {kTmpRd}, NEW s \in PC!Location \cup {kTmpRd}
  PROVE  LET new == PC!LocationAssign(st, d, s)
         IN  /\ new \in [PC!Places -> PC!Location \cup {Junk}]
             /\ new[d] = PC!Read(st, s)
             /\ \A p \in (PC!Storage \cup {kTmpRd}) \ {d} : new[p] = st[p]
<1> DEFINE new == PC!LocationAssign(st, d, s)
<1>1. PC!Read(st, s) \in PC!Location \cup {Junk}
  BY DEF PC!Read, PC!Location, PC!Storage, PC!Places, PC!Temps
<1>2. d \in PC!Places /\ d # kTmpRs1 /\ d # kTmpRs2
  BY MovesAssumption DEF PC!IsConfiguration, PC!Places, PC!Temps, PC!Location
<1>3. \A p \in PC!Storage \cup {kTmpRd} : p \in PC!Places /\ p # kTmpRs1 /\ p # kTmpRs2
  BY MovesAssumption DEF PC!IsConfiguration, PC!Places, PC!Temps, PC!Location
<1>4. new \in [PC!Places -> PC!Location \cup {Junk}]
  BY <1>1, <1>2 DEF PC!LocationAssign
<1>5. new[d] = PC!Read(st, s)
  BY <1>2 DEF PC!LocationAssign
<1>6. \A p \in (PC!Storage \cup {kTmpRd}) \ {d} : new[p] = st[p]
  BY <1>2, <1>3 DEF PC!LocationAssign
<1> QED BY <1>4, <1>5, <1>6


\* Emitting the last reader of d's old content: the value invariants survive
\* when d's move is erased, provided no other pending move reads d, or reads
\* it through kTmpRd.
LEMMA EmitKeepsValues ==
  ASSUME CopyInv, NEW d \in DOMAIN todo, NEW s \in PC!Location \cup {kTmpRd},
         store' = PC!LocationAssign(store, d, s),
         todo' = PC!Without(todo, d), moves' = moves,
         PC!Read(store, s) = todo[d]
  PROVE  /\ store' \in [PC!Places -> PC!Location \cup {Junk}]
         /\ todo' \in PC!Moves
         /\ TodoOfWant' /\ DoneRight' /\ PendingUntouched'
         /\ store'[kTmpRd] = store[kTmpRd]
         /\ DOMAIN todo' = DOMAIN todo \ {d}
         /\ \A e \in DOMAIN todo' : todo'[e] = todo[e]
<1>1. d \in PC!Storage /\ todo \in PC!Moves /\ store \in [PC!Places -> PC!Location \cup {Junk}]
  BY MovesType DEF CopyInv, PC!TypeOK
<1>2. /\ store' \in [PC!Places -> PC!Location \cup {Junk}]
      /\ store'[d] = PC!Read(store, s)
      /\ \A p \in (PC!Storage \cup {kTmpRd}) \ {d} : store'[p] = store[p]
  BY <1>1, AssignEffect
<1>3. /\ DOMAIN todo' = DOMAIN todo \ {d}
      /\ \A e \in DOMAIN todo' : todo'[e] = todo[e]
  BY WithoutKey
<1>4. todo' \in PC!Moves
  BY <1>1, WithoutMoves
<1>5. kTmpRd # d
  BY <1>1, MovesAssumption DEF PC!IsConfiguration, PC!Temps, PC!Location
<1>6. TodoOfWant'
  BY <1>3 DEF CopyInv, TodoOfWant
<1>7. DoneRight'
  <2> SUFFICES ASSUME NEW p \in PC!Storage \ DOMAIN todo'
               PROVE  store'[p] = IF p \in DOMAIN moves THEN moves[p] ELSE p
    BY DEF DoneRight
  <2>1. CASE p = d
    BY <2>1, <1>2 DEF CopyInv, TodoOfWant
  <2>2. CASE p # d
    BY <2>2, <1>2, <1>3 DEF CopyInv, DoneRight
  <2> QED BY <2>1, <2>2
<1>8. PendingUntouched'
  BY <1>1, <1>2, <1>3, MovesType DEF CopyInv, PendingUntouched
<1> QED BY <1>2, <1>3, <1>4, <1>5, <1>6, <1>7, <1>8

THEOREM CopyStarts == PC!Init => CopyInv
<1> SUFFICES ASSUME PC!Init PROVE CopyInv
  OBVIOUS
<1>1. DOMAIN moves \subseteq PC!Storage /\ \A d \in DOMAIN moves : moves[d] \in PC!Location
  BY MovesType DEF PC!Init, PC!Begin
<1>2. \A p \in PC!Storage : p \in PC!Places /\ store[p] = p
  BY DEF PC!Init, PC!Begin, PC!Places
<1>3. PC!TypeOK
  BY <1>1 DEF PC!Init, PC!Begin, PC!TypeOK, PC!Location, PC!Places
<1>4. TodoOfWant /\ DoneRight /\ PendingUntouched
  BY <1>1, <1>2 DEF PC!Init, PC!Begin, TodoOfWant, DoneRight, PendingUntouched
<1>5. PC!SourcesSurvive
  BY <1>1, <1>2, ReadLocation DEF PC!Init, PC!Begin, PC!SourcesSurvive
<1> QED BY <1>3, <1>4, <1>5 DEF PC!Init, PC!Begin, CopyInv, VisitedRead, Permutation, OpenPath, Ended

\* One iteration of the peeling loop.
LEMMA VisitKeeps ==
  ASSUME CopyInv, NEW d \in PC!Storage, PC!Visit(d)
  PROVE  CopyInv'
<1>1. d \in DOMAIN todo /\ todo \in PC!Moves /\ pc = "peel" /\ pc' = "peel"
  BY DEF CopyInv, PC!TypeOK, PC!Visit
<1>2. CASE PC!DstSafe(d)
  <2>1. /\ store' = PC!LocationAssign(store, d, todo[d])
        /\ todo' = PC!Without(todo, d) /\ removed' = TRUE /\ moves' = moves
        /\ unvisited' = unvisited \ {d} /\ cur' = cur /\ backup' = backup
    BY <1>2 DEF PC!Visit
  <2>2. todo[d] \in PC!Location /\ PC!Read(store, todo[d]) = todo[d]
    BY <1>1, MovesType DEF CopyInv, PC!SourcesSurvive
  <2>3. /\ store' \in [PC!Places -> PC!Location \cup {Junk}] /\ todo' \in PC!Moves
        /\ TodoOfWant' /\ DoneRight' /\ PendingUntouched'
        /\ DOMAIN todo' = DOMAIN todo \ {d}
        /\ \A e \in DOMAIN todo' : todo'[e] = todo[e]
    BY <1>1, <2>1, <2>2, EmitKeepsValues
  <2>4. PC!TypeOK'
    BY <1>1, <2>1, <2>3 DEF CopyInv, PC!TypeOK
  <2>5. PC!SourcesSurvive'
    <3> SUFFICES ASSUME NEW e \in DOMAIN todo'
                 PROVE  PC!Read(store', todo'[e]) = todo'[e]
      BY DEF PC!SourcesSurvive
    <3>1. todo'[e] = todo[e] /\ todo[e] \in PC!Location /\ todo[e] # d
      BY <1>1, <1>2, <2>3, MovesType DEF PC!DstSafe
    <3>2. PC!Read(store, todo[e]) = todo[e]
      BY <1>1, <2>3 DEF CopyInv, PC!SourcesSurvive
    <3>3. CASE todo[e] \in PC!Storage
      <4>1. store'[todo[e]] = store[todo[e]]
        BY <3>1, <3>3, <2>1, <2>2, AssignEffect DEF CopyInv, PC!TypeOK
      <4> QED BY <3>1, <3>2, <3>3, <4>1, ReadLocation
    <3>4. CASE todo[e] \notin PC!Storage
      BY <3>1, <3>4, ReadLocation
    <3> QED BY <3>3, <3>4
  <2> QED BY <1>1, <2>1, <2>3, <2>4, <2>5
          DEF CopyInv, VisitedRead, Permutation, OpenPath, Ended
<1>3. CASE ~PC!DstSafe(d)
  <2>1. /\ UNCHANGED <<store, todo, removed, moves, cur, backup, pc>>
        /\ unvisited' = unvisited \ {d}
    BY <1>3 DEF PC!Visit
  <2>2. \E e \in DOMAIN todo : todo[e] = d
    BY <1>3 DEF PC!DstSafe
  <2>3. VisitedRead'
    BY <2>1, <2>2 DEF CopyInv, VisitedRead
  <2>4. PC!TypeOK'
    BY <2>1 DEF CopyInv, PC!TypeOK
  <2> QED BY <2>1, <2>3, <2>4
          DEF CopyInv, TodoOfWant, DoneRight, PendingUntouched, PC!SourcesSurvive,
              Permutation, OpenPath, Ended
<1> QED BY <1>2, <1>3

\* The end of a pass.  After one without progress only cycles are left.
LEMMA EndPassKeeps ==
  ASSUME CopyInv, PC!EndPass
  PROVE  CopyInv'
<1>1. /\ UNCHANGED <<moves, todo, cur, backup, store>>
      /\ pc = "peel" /\ unvisited = {} /\ pc' \in {"peel", "cycle"}
      /\ pc' = "peel" => unvisited' = DOMAIN todo
      /\ pc' = "cycle" => UNCHANGED <<unvisited, removed>> /\ (~removed \/ DOMAIN todo = {})
      /\ removed' \in BOOLEAN
  BY DEF PC!EndPass, CopyInv, PC!TypeOK
<1>2. PC!TypeOK'
  BY <1>1 DEF CopyInv, PC!TypeOK
<1>3. Permutation'
  <2> SUFFICES ASSUME pc' = "cycle"
               PROVE  /\ \A d \in DOMAIN todo : todo[d] \in DOMAIN todo
                                                /\ \E e \in DOMAIN todo : todo[e] = d
                      /\ Injective(todo)
    BY <1>1 DEF Permutation, Injective
  <2>1. \A d \in DOMAIN todo : \E e \in DOMAIN todo : todo[e] = d
    BY <1>1 DEF CopyInv, VisitedRead
  <2>2. IsFiniteSet(DOMAIN todo)
    <3>1. IsFiniteSet(PC!Storage)
      BY MovesAssumption DEF PC!IsConfiguration, PC!IsFiniteSet, IsFiniteSet
    <3>2. DOMAIN todo \subseteq PC!Storage
      BY MovesType DEF CopyInv, PC!TypeOK
    <3> QED
      BY <3>1, <3>2, FS_Subset
  <2> QED BY <2>1, <2>2, CoveringIsPermutation
<1> QED BY <1>1, <1>2, <1>3
        DEF CopyInv, TodoOfWant, DoneRight, PendingUntouched, PC!SourcesSurvive,
            VisitedRead, OpenPath, Ended

LEMMA DropSelfLoopKeeps ==
  ASSUME CopyInv, NEW d \in PC!Storage, PC!DropSelfLoop(d)
  PROVE  CopyInv'
<1>1. /\ pc = "cycle" /\ d \in DOMAIN todo /\ todo[d] = d /\ todo' = PC!Without(todo, d)
      /\ UNCHANGED <<moves, unvisited, removed, cur, backup, pc, store>>
  BY DEF PC!DropSelfLoop
<1>2. /\ DOMAIN todo' = DOMAIN todo \ {d}
      /\ \A e \in DOMAIN todo' : todo'[e] = todo[e]
      /\ todo' \in PC!Moves
  BY <1>1, WithoutKey, WithoutMoves DEF CopyInv, PC!TypeOK
<1>3. Permutation'
  <2>1. \A x, y \in DOMAIN todo : todo[x] = todo[y] => x = y
    BY <1>1 DEF CopyInv, Permutation, Injective
  <2>2. \A x \in DOMAIN todo : todo[x] \in DOMAIN todo /\ \E e \in DOMAIN todo : todo[e] = x
    BY <1>1 DEF CopyInv, Permutation
  <2>3. ASSUME NEW x \in DOMAIN todo'
        PROVE  todo'[x] \in DOMAIN todo' /\ \E e \in DOMAIN todo' : todo'[e] = x
    <3>1. todo[x] # d
      BY <1>1, <1>2, <2>1
    <3>2. PICK e \in DOMAIN todo : todo[e] = x
      BY <1>2, <2>2
    <3>3. e # d
      BY <1>1, <1>2, <3>2
    <3> QED BY <1>2, <2>2, <3>1, <3>2, <3>3
  <2> QED BY <1>2, <2>1, <2>3 DEF Permutation, Injective
<1>4. DoneRight'
  <2> SUFFICES ASSUME NEW p \in PC!Storage \ DOMAIN todo'
               PROVE  store[p] = IF p \in DOMAIN moves THEN moves[p] ELSE p
    BY <1>1 DEF DoneRight
  <2>1. CASE p = d
    BY <1>1, <2>1 DEF CopyInv, TodoOfWant, PendingUntouched
  <2>2. CASE p # d
    BY <1>2, <2>2 DEF CopyInv, DoneRight
  <2> QED BY <2>1, <2>2
<1>5. PC!TypeOK'
  BY <1>1, <1>2 DEF CopyInv, PC!TypeOK, Ended
<1>6. TodoOfWant' /\ PendingUntouched' /\ PC!SourcesSurvive'
  BY <1>1, <1>2 DEF CopyInv, TodoOfWant, PendingUntouched, PC!SourcesSurvive
<1> QED BY <1>1, <1>3, <1>4, <1>5, <1>6
        DEF CopyInv, VisitedRead, OpenPath, Ended

\* Saving the first location of a cycle.
LEMMA OpenCycleKeeps ==
  ASSUME CopyInv, NEW d \in PC!Storage, PC!OpenCycle(d)
  PROVE  CopyInv'
<1>1. /\ pc = "cycle" /\ d \in DOMAIN todo /\ pc' = "walk"
      /\ store' = PC!LocationAssign(store, kTmpRd, d) /\ cur' = d /\ backup' = d
      /\ UNCHANGED <<moves, todo, unvisited, removed>>
  BY DEF PC!OpenCycle, PC!BackupTemp
<1>2. d \in PC!Location /\ PC!Read(store, d) = d
  BY <1>1, ReadLocation DEF CopyInv, PendingUntouched, PC!Location
<1>3. kTmpRd \notin PC!Storage
  BY MovesAssumption DEF PC!IsConfiguration, PC!Temps, PC!Location
<1>4. /\ store' \in [PC!Places -> PC!Location \cup {Junk}]
      /\ store'[kTmpRd] = d
      /\ \A p \in PC!Storage : store'[p] = store[p]
  <2>1. store \in [PC!Places -> PC!Location \cup {Junk}]
    BY DEF CopyInv, PC!TypeOK
  <2> QED BY <1>1, <1>2, <1>3, <2>1, AssignEffect
<1>5. PC!TypeOK'
  BY <1>1, <1>2, <1>4 DEF CopyInv, PC!TypeOK
<1>6. \A e \in DOMAIN todo : e \in PC!Storage /\ todo[e] \in PC!Location
  BY MovesType DEF CopyInv, PC!TypeOK
<1>7. DoneRight' /\ PendingUntouched' /\ TodoOfWant'
  BY <1>1, <1>4, <1>6 DEF CopyInv, DoneRight, PendingUntouched, TodoOfWant
<1>8. PC!SourcesSurvive'
  <2> SUFFICES ASSUME NEW e \in DOMAIN todo
               PROVE  PC!Read(store', todo[e]) = todo[e]
    BY <1>1 DEF PC!SourcesSurvive
  <2>1. PC!Read(store, todo[e]) = todo[e]
    BY <1>1 DEF CopyInv, PC!SourcesSurvive
  <2> QED BY <2>1, <1>4, <1>6, ReadLocation
<1>9. OpenPath'
  BY <1>1, <1>4 DEF CopyInv, Permutation, OpenPath
<1> QED BY <1>1, <1>5, <1>7, <1>8, <1>9 DEF CopyInv, VisitedRead, Permutation, Ended

\* One move along the cycle.
LEMMA FollowCycleKeeps ==
  ASSUME CopyInv, PC!FollowCycle
  PROVE  CopyInv'
<1>1. /\ pc = "walk" /\ todo[cur] # backup /\ cur' = todo[cur]
      /\ store' = PC!LocationAssign(store, cur, todo[cur]) /\ todo' = PC!Without(todo, cur)
      /\ UNCHANGED <<moves, unvisited, removed, backup>>
      /\ pc' = IF todo[cur] \in DOMAIN todo \ {cur} THEN "walk" ELSE "threw"
  BY DEF PC!FollowCycle
<1>2. /\ cur \in DOMAIN todo /\ backup \in PC!Storage /\ store[kTmpRd] = backup
      /\ backup \notin DOMAIN todo \ {cur}
      /\ \A d \in DOMAIN todo : todo[d] \in (DOMAIN todo \ {cur}) \cup {backup}
      /\ \A d \in DOMAIN todo \ {cur} : \E e \in DOMAIN todo : todo[e] = d
      /\ \A d, e \in DOMAIN todo : todo[d] = todo[e] => d = e
  BY <1>1 DEF CopyInv, OpenPath, Injective
<1>3. todo[cur] \in DOMAIN todo \ {cur} /\ pc' = "walk"
  BY <1>1, <1>2
<1>4. \A d \in DOMAIN todo : d \in PC!Storage /\ todo[d] \in PC!Location
  BY MovesType DEF CopyInv, PC!TypeOK
<1>5. PC!Read(store, todo[cur]) = todo[cur]
  BY <1>1, <1>2 DEF CopyInv, PC!SourcesSurvive
<1>6. /\ store' \in [PC!Places -> PC!Location \cup {Junk}] /\ todo' \in PC!Moves
      /\ TodoOfWant' /\ DoneRight' /\ PendingUntouched'
      /\ store'[kTmpRd] = store[kTmpRd]
      /\ DOMAIN todo' = DOMAIN todo \ {cur}
      /\ \A e \in DOMAIN todo' : todo'[e] = todo[e]
  BY <1>1, <1>2, <1>4, <1>5, EmitKeepsValues
<1>7. PC!TypeOK'
  BY <1>1, <1>2, <1>3, <1>4, <1>6 DEF CopyInv, PC!TypeOK, Ended
<1>8. PC!SourcesSurvive'
  <2> SUFFICES ASSUME NEW e \in DOMAIN todo'
               PROVE  PC!Read(store', todo[e]) = todo[e] \/ todo[e] = backup
    BY <1>1, <1>2, <1>3, <1>6 DEF PC!SourcesSurvive
  <2>1. CASE todo[e] # backup
    <3>1. todo[e] \in DOMAIN todo'
      BY <1>2, <1>6, <2>1
    <3>2. store'[todo[e]] = todo[e]
      BY <1>6, <3>1 DEF PendingUntouched
    <3> QED BY <1>4, <1>6, <3>1, <3>2, ReadLocation
  <2> QED BY <2>1
<1>9. OpenPath'
  <2>1. cur' \in DOMAIN todo' /\ backup' \notin DOMAIN todo' \ {cur'}
    BY <1>1, <1>2, <1>3, <1>6
  <2>2. ASSUME NEW d \in DOMAIN todo'
        PROVE  todo'[d] \in (DOMAIN todo' \ {cur'}) \cup {backup'}
    <3>1. todo[d] # todo[cur]
      BY <1>2, <1>6
    <3> QED BY <1>1, <1>2, <1>6, <3>1
  <2>3. ASSUME NEW d \in DOMAIN todo' \ {cur'}
        PROVE  \E e \in DOMAIN todo' : todo'[e] = d
    <3>1. PICK e \in DOMAIN todo : todo[e] = d
      BY <1>2, <1>6
    <3>2. e # cur
      BY <1>1, <3>1
    <3> QED BY <1>6, <3>1, <3>2
  <2>4. Injective(todo')
    BY <1>2, <1>6 DEF Injective
  <2> QED BY <1>1, <1>2, <1>6, <2>1, <2>2, <2>3, <2>4 DEF OpenPath
<1> QED BY <1>1, <1>3, <1>6, <1>7, <1>8, <1>9 DEF CopyInv, VisitedRead, Permutation, Ended

\* The move that closes the cycle.
LEMMA CloseCycleKeeps ==
  ASSUME CopyInv, PC!CloseCycle
  PROVE  CopyInv'
<1>1. /\ pc = "walk" /\ todo[cur] = backup /\ pc' = "cycle"
      /\ store' = PC!LocationAssign(store, cur, kTmpRd) /\ todo' = PC!Without(todo, cur)
      /\ UNCHANGED <<moves, unvisited, removed, cur, backup>>
  BY DEF PC!CloseCycle, PC!BackupTemp
<1>2. /\ cur \in DOMAIN todo /\ backup \in PC!Storage /\ store[kTmpRd] = backup
      /\ backup \notin DOMAIN todo \ {cur}
      /\ \A d \in DOMAIN todo : todo[d] \in (DOMAIN todo \ {cur}) \cup {backup}
      /\ \A d \in DOMAIN todo \ {cur} : \E e \in DOMAIN todo : todo[e] = d
      /\ \A d, e \in DOMAIN todo : todo[d] = todo[e] => d = e
  BY <1>1 DEF CopyInv, OpenPath, Injective
<1>3. \A d \in DOMAIN todo : d \in PC!Storage /\ todo[d] \in PC!Location
  BY MovesType DEF CopyInv, PC!TypeOK
<1>4. PC!Read(store, kTmpRd) = todo[cur]
  BY <1>1, <1>2 DEF PC!Read, PC!Places, PC!Temps
<1>5. /\ store' \in [PC!Places -> PC!Location \cup {Junk}] /\ todo' \in PC!Moves
      /\ TodoOfWant' /\ DoneRight' /\ PendingUntouched'
      /\ DOMAIN todo' = DOMAIN todo \ {cur}
      /\ \A e \in DOMAIN todo' : todo'[e] = todo[e]
  BY <1>1, <1>2, <1>4, EmitKeepsValues
<1>6. PC!TypeOK'
  BY <1>1, <1>5 DEF CopyInv, PC!TypeOK, Ended
<1>7. ASSUME NEW d \in DOMAIN todo'
      PROVE  todo'[d] \in DOMAIN todo' /\ \E e \in DOMAIN todo' : todo'[e] = d
  <2>1. todo[d] # backup
    BY <1>1, <1>2, <1>5
  <2>2. PICK e \in DOMAIN todo : todo[e] = d
    BY <1>2, <1>5
  <2>3. e # cur
    BY <1>1, <1>2, <1>5, <2>2
  <2> QED BY <1>2, <1>5, <2>1, <2>2, <2>3
<1>8. Permutation'
  BY <1>2, <1>5, <1>7 DEF Permutation, Injective
<1>9. PC!SourcesSurvive'
  <2> SUFFICES ASSUME NEW e \in DOMAIN todo'
               PROVE  PC!Read(store', todo'[e]) = todo'[e]
    BY DEF PC!SourcesSurvive
  <2>1. todo'[e] \in DOMAIN todo' /\ store'[todo'[e]] = todo'[e]
    BY <1>5, <1>7 DEF PendingUntouched
  <2> QED BY <1>3, <1>5, <2>1, ReadLocation DEF PC!Location
<1> QED BY <1>1, <1>5, <1>6, <1>8, <1>9 DEF CopyInv, VisitedRead, OpenPath, Ended

THEOREM CopyGoesOn == CopyInv /\ [PC!Next]_PC!vars => CopyInv'
<1> SUFFICES ASSUME CopyInv, [PC!Next]_PC!vars PROVE CopyInv'
  OBVIOUS
<1>1. ASSUME NEW d \in PC!Storage, PC!Visit(d) PROVE CopyInv'
  BY <1>1, VisitKeeps
<1>2. ASSUME NEW d \in PC!Storage, PC!DropSelfLoop(d) PROVE CopyInv'
  BY <1>2, DropSelfLoopKeeps
<1>3. ASSUME NEW d \in PC!Storage, PC!OpenCycle(d) PROVE CopyInv'
  BY <1>3, OpenCycleKeeps
<1>4. CASE PC!EndPass
  BY <1>4, EndPassKeeps
<1>5. CASE PC!FollowCycle
  BY <1>5, FollowCycleKeeps
<1>6. CASE PC!CloseCycle
  BY <1>6, CloseCycleKeeps
<1>7. CASE PC!Finish
  <2>1. /\ pc = "cycle" /\ DOMAIN todo = {} /\ pc' = "done"
        /\ UNCHANGED <<moves, todo, unvisited, removed, cur, backup, store>>
    BY <1>7 DEF PC!Finish
  <2> QED BY <2>1 DEF CopyInv, PC!TypeOK, TodoOfWant, DoneRight, PendingUntouched,
                      PC!SourcesSurvive, VisitedRead, Permutation, OpenPath, Ended
<1>8. CASE UNCHANGED PC!vars
  BY <1>8 DEF PC!vars, CopyInv, PC!TypeOK, TodoOfWant, DoneRight, PendingUntouched,
              PC!SourcesSurvive, VisitedRead, Permutation, OpenPath, Ended, Injective
<1>9. CASE PC!Returned
  BY <1>9, <1>8 DEF PC!Returned
<1> QED BY <1>1, <1>2, <1>3, <1>4, <1>5, <1>6, <1>7, <1>8, <1>9 DEF PC!Next

THEOREM CopyInvariance == PC!Spec => []CopyInv
BY CopyStarts, CopyGoesOn, PTL DEF PC!Spec


-----------------------------------------------------------------------------
\* Type correctness of parallel_assignment's state.
THEOREM CopyTypeCorrect == PC!Spec => []PC!TypeOK
<1>1. CopyInv => PC!TypeOK
  BY DEF CopyInv
<1> QED BY <1>1, CopyInvariance, PTL

\* Whatever the moves, when parallel_assignment returns the emitted code has
\* moved all of them at once and touched nothing else.
THEOREM MovesAreSimultaneous == PC!Spec => []Simultaneous
<1>1. CopyInv => Simultaneous
  BY DEF CopyInv, Ended, DoneRight, Simultaneous, PC!Simultaneous
<1> QED BY <1>1, CopyInvariance, PTL

\* No move is emitted while another one still needs the old content.
THEOREM NoSourceLost == PC!Spec => []PC!SourcesSurvive
<1>1. CopyInv => PC!SourcesSurvive
  BY DEF CopyInv
<1> QED BY <1>1, CopyInvariance, PTL

\* "Then, what are left must be cycles only": the comment in the code holds,
\* so following a cycle with map::at never throws.
THEOREM OnlyCyclesLeft == PC!Spec => []PC!CyclesOnly
<1>1. CopyInv => PC!CyclesOnly
  BY DEF CopyInv, Ended, Permutation, PC!CyclesOnly
<1> QED BY <1>1, CopyInvariance, PTL
-----------------------------------------------------------------------------
(* The moves of an edge *)

\* The inputs, which no step changes.
Edge ==
  /\ edgeAt \in EdgeAts /\ AroundEdge(iv, edgeAt)
  /\ DeadPhis \/ \A p \in Phis : ~IsDead(p)

\* How far the passes over the edge have come.
Stages ==
  /\ pending \subseteq Phis
  /\ step \in {"allocate", "collect", "assign", "done"}
  /\ step = "allocate" => pending = Phis
  /\ step # "allocate" => rest = {}
  /\ step \in {"assign", "done"} => pending = {}
  /\ step = "done" => pc = "done"

\* Eviction hands out the slots one after the other.
Slotted ==
  /\ spillArea = 8 * Cardinality({v \in VRegs : Spilled(v)})
  /\ \A v \in VRegs : Spilled(v) => mapping[v] \in Slots

\* parallel_assignment has not been called, or is on its way with the moves.
Called ==
  IF step \in {"allocate", "collect"}
  THEN /\ todo = [l \in {} |-> l] /\ unvisited = {} /\ removed = FALSE
       /\ cur = kTmpRd /\ backup = kTmpRd /\ pc = "peel"
       /\ store = [p \in PC!Places |-> IF p \in PC!Storage THEN p ELSE Junk]
  ELSE CopyInv

\* The moves are those of the phis collected so far, between places that are
\* registers of the pool or slots of the frame.
Collected ==
  /\ operand \in [Phis -> VRegs \cup Imms]
  /\ moves \in PC!Moves
  /\ DOMAIN moves = {mapping[p] : p \in Phis \ pending}
  /\ DeadPhis = FALSE => \A p \in Phis \ pending : moves[mapping[p]] = Location(operand[p])

PInv == IInv /\ Slotted /\ Edge /\ Stages /\ Called /\ Collected

-----------------------------------------------------------------------------
\* Registers that live at the same time have different places, be it in
\* registers or in slots.
LEMMA PlacesDiffer ==
  ASSUME IInv, rest = {}, NEW u \in VRegs, NEW v \in VRegs, u # v, Overlap(u, v)
  PROVE  mapping[u] # mapping[v]
<1>1. u \in DOMAIN mapping /\ v \in DOMAIN mapping
  BY DEF IInv, Placed
<1>2. mapping[u] \in Pool \cup Nat /\ mapping[v] \in Pool \cup Nat
  BY <1>1 DEF IInv, TypeOK
<1>3. CASE InRegister(u) /\ InRegister(v)
  BY <1>3 DEF IInv, NoInterference
<1>4. CASE Spilled(u) /\ Spilled(v)
  <2>1. mapping[u] \in Nat /\ mapping[v] \in Nat
    BY <1>2, <1>4 DEF Spilled
  <2>2. mapping[u] + 8 <= mapping[v] \/ mapping[v] + 8 <= mapping[u]
    BY <1>4 DEF IInv, SlotsDisjoint
  <2> QED
    BY <2>1, <2>2
<1>5. CASE (InRegister(u) /\ Spilled(v)) \/ (InRegister(v) /\ Spilled(u))
  BY <1>5 DEF InRegister, Spilled
<1> QED
  BY <1>1, <1>3, <1>4, <1>5 DEF InRegister, Spilled

LEMMA PhisFinite == IsFiniteSet(Phis) /\ Cardinality(Phis) \in Nat
<1>1. IsFiniteSet(Phis)
  BY ScanAssumption, EdgeAssumption, FS_Subset
<1> QED
  BY <1>1, FS_CardinalityType

\* The phis are the first instructions of their block.
LEMMA PhiStarts ==
  ASSUME AroundEdge(iv, edgeAt), NEW p \in Phis
  PROVE  iv[p].start \in Int /\ JoinAt <= iv[p].start /\ iv[p].start < FirstInst
<1> DEFINE before == {q \in Phis : q < p}
<1>1. IsFiniteSet(before) /\ Cardinality(before) \in Nat /\ Cardinality(before) < Cardinality(Phis)
  <2>1. before \subseteq Phis \ {p}
    BY EdgeAssumption
  <2>2. IsFiniteSet(Phis \ {p}) /\ Cardinality(Phis \ {p}) = Cardinality(Phis) - 1
    BY PhisFinite, FS_RemoveElement
  <2>3. IsFiniteSet(before) /\ Cardinality(before) <= Cardinality(Phis \ {p})
    BY <2>1, <2>2, FS_Subset
  <2>4. Cardinality(before) \in Nat
    BY <2>3, FS_CardinalityType
  <2> QED
    BY <2>2, <2>3, <2>4, PhisFinite
<1>2. iv[p].start = JoinAt + Cardinality(before)
  BY DEF AroundEdge
<1> QED
  BY <1>1, <1>2, PhisFinite, EdgeAssumption DEF FirstInst

\* A phi that is not dead lives past the last phi.
LEMMA PhiEnds ==
  ASSUME AroundEdge(iv, edgeAt), IInv, NEW p \in Phis, ~IsDead(p)
  PROVE  iv[p].end >= FirstInst
<1>1. p \in VRegs /\ iv[p].uses \in Nat
  BY ScanAssumption, EdgeAssumption DEF IInv, TypeOK, Interval
<1>2. CASE iv[p].uses > 0
  BY <1>2 DEF AroundEdge
<1>3. CASE iv[p].end # iv[p].start
  BY <1>3 DEF AroundEdge
<1> QED
  BY <1>1, <1>2, <1>3 DEF IsDead

LEMMA PhisApart ==
  ASSUME IInv, Edge, rest = {}, NEW p \in Phis, NEW q \in Phis, p # q, ~IsDead(p), ~IsDead(q)
  PROVE  mapping[p] # mapping[q]
<1>1. p \in VRegs /\ q \in VRegs
  BY EdgeAssumption
<1>2. FirstInst \in Int
  BY PhisFinite, EdgeAssumption DEF FirstInst
<1>3. Overlap(p, q)
  BY <1>1, <1>2, PhiStarts, PhiEnds, IntervalFacts DEF Edge, IInv, Overlap
<1> QED
  BY <1>1, <1>3, PlacesDiffer

-----------------------------------------------------------------------------
LEMMA SpilledFinite ==
  IsFiniteSet({v \in VRegs : Spilled(v)}) /\ Cardinality({v \in VRegs : Spilled(v)}) \in Nat
<1>1. IsFiniteSet({v \in VRegs : Spilled(v)})
  BY ScanAssumption, FS_Subset
<1> QED
  BY <1>1, FS_CardinalityType

\* One register more is spilled, to the next slot; there is one for it, since
\* at least that register was not spilled before.
LEMMA OneMoreSlot ==
  ASSUME IInv, Slotted, NEW x \in VRegs, ~Spilled(x),
         spillArea' = spillArea + 8, mapping'[x] = spillArea,
         \A v \in VRegs : Spilled(v)' <=> (Spilled(v) \/ v = x),
         \A v \in VRegs : Spilled(v) => mapping'[v] = mapping[v]
  PROVE  Slotted'
<1> DEFINE S == {v \in VRegs : Spilled(v)}
<1>1. IsFiniteSet(S) /\ Cardinality(S) \in Nat
  BY SpilledFinite
<1>2. {v \in VRegs : Spilled(v)}' = S \cup {x}
  OBVIOUS
<1>3. Cardinality(S \cup {x}) = Cardinality(S) + 1
  <2>1. x \notin S
    OBVIOUS
  <2> HIDE DEF S
  <2> QED
    BY <1>1, <2>1, FS_AddElement
<1>4. Cardinality(S) + 1 <= Cardinality(VRegs) /\ Cardinality(VRegs) \in Nat
  <2>1. S \cup {x} \subseteq VRegs
    OBVIOUS
  <2> HIDE DEF S
  <2>2. Cardinality(S \cup {x}) <= Cardinality(VRegs)
    BY <2>1, ScanAssumption, FS_Subset
  <2> QED
    BY <1>3, <2>2, ScanAssumption, FS_CardinalityType
<1>5. spillArea = 8 * Cardinality(S)
  BY DEF Slotted
<1>6. spillArea \in Slots
  <2>1. Cardinality(S) \in 0..Cardinality(VRegs) - 1
    BY <1>1, <1>4
  <2> HIDE DEF S
  <2> QED
    BY <1>5, <2>1, MovesAssumption
<1>7. spillArea' = 8 * Cardinality(S \cup {x})
  <2> HIDE DEF S
  <2> QED
    BY <1>1, <1>3, <1>5
<1>8. \A v \in VRegs : Spilled(v)' => mapping'[v] \in Slots
  BY <1>6 DEF Slotted
<1> QED
  BY <1>2, <1>7, <1>8 DEF Slotted

\* Nothing is spilled by the other steps.
LEMMA SameSlots ==
  ASSUME Slotted, spillArea' = spillArea,
         \A v \in VRegs : Spilled(v)' <=> Spilled(v),
         \A v \in VRegs : Spilled(v) => mapping'[v] = mapping[v]
  PROVE  Slotted'
<1>1. {v \in VRegs : Spilled(v)}' = {v \in VRegs : Spilled(v)}
  OBVIOUS
<1> QED
  BY <1>1 DEF Slotted

LEMMA SlottedStart == Init => Slotted
<1> SUFFICES ASSUME Init PROVE Slotted
  OBVIOUS
<1>1. spillArea = 0 /\ \A v \in VRegs : ~Spilled(v)
  BY ScanAssumption DEF Init, Spilled
<1>2. {v \in VRegs : Spilled(v)} = {}
  BY <1>1
<1> QED
  BY <1>1, <1>2, FS_EmptySet DEF Slotted

LEMMA SlottedStep == IInv /\ Slotted /\ [Next]_vars => Slotted'
<1> SUFFICES ASSUME IInv, Slotted, [Next]_vars PROVE Slotted'
  OBVIOUS
<1>1. ASSUME NEW v \in VRegs, SkipParam(v) PROVE Slotted'
  BY <1>1, SameSlots DEF SkipParam, Spilled
<1>2. ASSUME NEW v \in VRegs, TakeFree(v) PROVE Slotted'
  <2>1. PICK r \in Pool : mapping' = With(mapping, v, r)
    BY <1>2 DEF TakeFree
  <2>2. v \notin DOMAIN mapping /\ spillArea' = spillArea
    BY <1>2 DEF TakeFree
  <2>3. /\ \A u \in VRegs : Spilled(u)' <=> Spilled(u)
        /\ \A u \in VRegs : Spilled(u) => mapping'[u] = mapping[u]
    BY <2>1, <2>2 DEF With, Spilled
  <2> QED
    BY <2>2, <2>3, SameSlots
<1>3. ASSUME NEW v \in VRegs, Evict(v) PROVE Slotted'
  <2>1. PICK r \in Pool :
          r \in StillActive(v) /\ mapping' = With(With(mapping, active[r], spillArea), v, r)
    BY <1>3 DEF Evict, IsLightest
  <2>2. v \notin DOMAIN mapping /\ spillArea' = spillArea + 8
    BY <1>3 DEF Evict
  <2>3. r \in DOMAIN active /\ active[r] \in DOMAIN mapping /\ mapping[active[r]] = r
    BY <2>1 DEF IInv, Occupants, StillActive
  <2>4. active[r] \in VRegs /\ active[r] # v /\ ~Spilled(active[r])
    BY <2>1, <2>2, <2>3 DEF IInv, TypeOK, Spilled
  <2>5. spillArea \notin Pool
    BY ScanAssumption DEF IInv, TypeOK
  <2>6. /\ DOMAIN mapping' = DOMAIN mapping \cup {v}
        /\ mapping'[active[r]] = spillArea /\ mapping'[v] = r
        /\ \A u \in DOMAIN mapping : u # active[r] => mapping'[u] = mapping[u]
    BY <2>1, <2>2, <2>3, <2>4 DEF With
  <2>7. /\ \A u \in VRegs : Spilled(u)' <=> (Spilled(u) \/ u = active[r])
        /\ \A u \in VRegs : Spilled(u) => mapping'[u] = mapping[u]
    BY <2>2, <2>3, <2>4, <2>5, <2>6 DEF Spilled
  <2> QED
    BY <2>2, <2>4, <2>6, <2>7, OneMoreSlot
<1>4. ASSUME NEW v \in VRegs, SpillSelf(v) PROVE Slotted'
  <2>1. /\ v \notin DOMAIN mapping /\ spillArea' = spillArea + 8
        /\ mapping' = With(mapping, v, spillArea)
    BY <1>4 DEF SpillSelf
  <2>2. spillArea \notin Pool
    BY ScanAssumption DEF IInv, TypeOK
  <2>3. /\ mapping'[v] = spillArea
        /\ ~Spilled(v)
        /\ \A u \in VRegs : Spilled(u)' <=> (Spilled(u) \/ u = v)
        /\ \A u \in VRegs : Spilled(u) => mapping'[u] = mapping[u]
    BY <2>1, <2>2 DEF With, Spilled
  <2> QED
    BY <2>1, <2>3, OneMoreSlot
<1>5. CASE UNCHANGED vars
  BY <1>5, SameSlots DEF vars, Spilled
<1> QED
  BY <1>1, <1>2, <1>3, <1>4, <1>5 DEF Next, Returned

\* What the scan hands out, the moves can be between.
LEMMA PlacesAreStorage ==
  ASSUME IInv, Slotted, rest = {}, NEW v \in VRegs
  PROVE  mapping[v] \in PC!Storage
<1>1. v \in DOMAIN mapping
  BY DEF IInv, Placed
<1> QED
  BY <1>1 DEF Slotted, Spilled, PC!Storage

LEMMA OperandsAreLocations ==
  ASSUME IInv, Slotted, rest = {}, NEW o \in VRegs \cup Imms
  PROVE  Location(o) \in PC!Location
BY PlacesAreStorage DEF Location, PC!Location

-----------------------------------------------------------------------------
LEMMA PInvStart == PhiInit => PInv
<1> SUFFICES ASSUME PhiInit PROVE PInv
  OBVIOUS
<1>1. IInv /\ Slotted
  BY InitEstablishes, SlottedStart DEF PhiInit
<1>2. moves \in PC!Moves
  <2>1. {} \in SUBSET PC!Storage /\ moves \in [{} -> PC!Location]
    BY DEF PhiInit
  <2> QED
    BY <2>1 DEF PC!Moves
<1>3. Edge /\ Stages /\ Called /\ Collected
  BY <1>2 DEF PhiInit, Edge, Stages, Called, Collected, PC!Begin
<1> QED
  BY <1>1, <1>3 DEF PInv

LEMMA InputsKept ==
  ASSUME Edge, iv' = iv, edgeAt' = edgeAt
  PROVE  Edge'
  BY DEF Edge, AroundEdge, IsDead

LEMMA AllocateKeeps ==
  ASSUME PInv, Allocate
  PROVE  PInv'
<1>1. IInv' /\ Slotted'
  BY StepKeeps, SlottedStep DEF PInv, Allocate
<1>2. iv' = iv /\ edgeAt' = edgeAt
  BY DEF Allocate, Next, SkipParam, TakeFree, Evict, SpillSelf, Returned, vars
<1>3. Edge'
  BY <1>2, InputsKept DEF PInv
<1>4. Stages' /\ Called' /\ Collected'
  BY DEF PInv, Stages, Called, Collected, Allocate, copying
<1> QED
  BY <1>1, <1>3, <1>4 DEF PInv

\* A phi adds a move between two places, unless its place has one.
LEMMA CollectedMoves ==
  ASSUME PInv, NEW p \in Phis, CollectPhi(p)
  PROVE  moves' \in PC!Moves
<1>1. PICK D \in SUBSET PC!Storage : moves \in [D -> PC!Location]
  BY DEF PInv, Collected, PC!Moves
<1>2. rest = {} /\ p \in VRegs /\ operand[p] \in VRegs \cup Imms
  BY EdgeAssumption DEF PInv, Stages, Collected, CollectPhi
<1>3. mapping[p] \in PC!Storage /\ Location(operand[p]) \in PC!Location
  BY <1>2, PlacesAreStorage, OperandsAreLocations DEF PInv
<1>4. \E E \in SUBSET PC!Storage : moves' \in [E -> PC!Location]
  <2>1. CASE mapping[p] \in DOMAIN moves
    BY <1>1, <2>1 DEF CollectPhi
  <2>2. CASE mapping[p] \notin DOMAIN moves
    <3>1. moves' = With(moves, mapping[p], Location(operand[p]))
      BY <2>2 DEF CollectPhi
    <3>2. moves' \in [D \cup {mapping[p]} -> PC!Location]
      BY <1>1, <1>3, <3>1 DEF With
    <3>3. D \cup {mapping[p]} \in SUBSET PC!Storage
      BY <1>3
    <3> QED
      BY <3>2, <3>3
  <2> QED
    BY <2>1, <2>2
<1> QED
  BY <1>4 DEF PC!Moves

LEMMA CollectKeeps ==
  ASSUME PInv, NEW p \in Phis, CollectPhi(p)
  PROVE  PInv'
<1>1. /\ step = "collect" /\ p \in pending /\ pending' = pending \ {p}
      /\ UNCHANGED <<vars, edgeAt, operand, step, copying>>
  BY DEF CollectPhi
<1>2. IInv' /\ Slotted' /\ Edge'
  BY <1>1, StepKeeps, SlottedStep, InputsKept DEF PInv, vars
<1>3. Stages' /\ Called'
  BY <1>1 DEF PInv, Stages, Called, vars, copying
<1>4. /\ mapping' = mapping /\ operand' = operand
      /\ Phis \ pending' = (Phis \ pending) \cup {p}
      /\ \A q \in Phis : Location(operand[q])' = Location(operand[q])
  BY <1>1 DEF vars, Location
<1>5. DOMAIN moves' = DOMAIN moves \cup {mapping[p]}
  BY DEF CollectPhi, With
<1>6. DOMAIN moves' = {mapping'[q] : q \in Phis \ pending'}
  BY <1>4, <1>5 DEF PInv, Collected
<1>7. ASSUME DeadPhis = FALSE
      PROVE  \A q \in Phis \ pending' : moves'[mapping[q]] = Location(operand[q])
  <2>1. rest = {} /\ \A q \in Phis : ~IsDead(q)
    BY <1>1, <1>7 DEF PInv, Stages, Edge
  <2>2. \A q \in Phis : q # p => mapping[q] # mapping[p]
    BY <2>1, PhisApart DEF PInv
  <2>3. mapping[p] \notin DOMAIN moves
    BY <1>1, <2>2 DEF PInv, Collected
  <2>4. moves' = With(moves, mapping[p], Location(operand[p]))
    BY <2>3 DEF CollectPhi
  <2>5. \A q \in Phis \ pending : /\ mapping[q] \in DOMAIN moves
                                  /\ moves[mapping[q]] = Location(operand[q])
    BY <1>7 DEF PInv, Collected
  <2> QED
    BY <1>4, <2>3, <2>4, <2>5 DEF With
<1>8. moves' \in PC!Moves /\ operand' \in [Phis -> VRegs \cup Imms]
  BY <1>4, CollectedMoves DEF PInv, Collected
<1> QED
  BY <1>2, <1>3, <1>4, <1>6, <1>7, <1>8 DEF PInv, Collected

LEMMA CallStarts == PC!Init' => CopyInv'
  BY CopyStarts, PTL

\* The call hands the moves over, and starts from the store at the jump.
LEMMA CallKeeps ==
  ASSUME PInv, CallAssignment
  PROVE  PInv'
<1>1. /\ step = "collect" /\ step' = "assign" /\ pending = {}
      /\ todo' = moves /\ unvisited' = DOMAIN moves
      /\ UNCHANGED <<vars, edgeAt, operand, pending, moves, removed, cur, backup, pc, store>>
  BY DEF CallAssignment
<1>2. IInv' /\ Slotted' /\ Edge'
  BY <1>1, StepKeeps, SlottedStep, InputsKept DEF PInv, vars
<1>3. Stages' /\ Collected'
  BY <1>1 DEF PInv, Stages, Collected, Location, vars
<1>4. PC!Init'
  BY <1>1 DEF PInv, Called, Collected, PC!Init, PC!Begin
<1> QED
  BY <1>1, <1>2, <1>3, <1>4, CallStarts DEF PInv, Called

\* Each of its steps keeps its invariant and leaves the edge as it is.
LEMMA AssignKeeps ==
  ASSUME PInv, Assign
  PROVE  PInv'
<1>1. /\ step = "assign" /\ PC!Next /\ step' = IF pc' = "done" THEN "done" ELSE "assign"
      /\ UNCHANGED <<vars, edgeAt, operand, pending, moves>>
  BY DEF Assign
<1>2. IInv' /\ Slotted' /\ Edge'
  BY <1>1, StepKeeps, SlottedStep, InputsKept DEF PInv, vars
<1>3. Stages' /\ Collected'
  BY <1>1 DEF PInv, Stages, Collected, Location, vars
<1>4. CopyInv'
  BY <1>1, CopyGoesOn DEF PInv, Called
<1> QED
  BY <1>1, <1>2, <1>3, <1>4 DEF PInv, Called

\* The remaining steps change the stage only.
LEMMA RestKeeps ==
  ASSUME PInv, Allocated \/ Generated \/ UNCHANGED allVars
  PROVE  PInv'
<1>1. /\ UNCHANGED <<vars, edgeAt, operand, pending, moves, copying>>
      /\ step' = step \/ (step = "allocate" /\ step' = "collect" /\ rest = {})
  BY DEF Allocated, Generated, allVars
<1>2. IInv' /\ Slotted' /\ Edge'
  BY <1>1, StepKeeps, SlottedStep, InputsKept DEF PInv, vars
<1>3. Stages' /\ Collected'
  BY <1>1 DEF PInv, Stages, Collected, Location, vars, copying
<1>4. CopyInv => CopyInv'
  <2>1. UNCHANGED PC!vars
    BY <1>1 DEF copying, PC!vars
  <2> QED
    BY <2>1, CopyGoesOn
<1>5. Called'
  <2>1. CASE step \in {"allocate", "collect"}
    BY <1>1, <2>1 DEF PInv, Called, copying
  <2>2. CASE step \notin {"allocate", "collect"}
    BY <1>1, <1>4, <2>2 DEF PInv, Called, copying
  <2> QED
    BY <2>1, <2>2
<1> QED
  BY <1>2, <1>3, <1>5 DEF PInv

LEMMA PInvStep == PInv /\ [PhiNext]_allVars => PInv'
  BY AllocateKeeps, CollectKeeps, CallKeeps, AssignKeeps, RestKeeps DEF PhiNext

LEMMA PInvInvariant == PhiSpec => []PInv
  BY PInvStart, PInvStep, PTL DEF PhiSpec

-----------------------------------------------------------------------------
\* What a place holds after the code at the end of the edge's source.
LEMMA AfterTheEdge ==
  ASSUME PInv, step = "done", NEW l \in PC!Storage
  PROVE  store[l] = IF l \in DOMAIN moves THEN moves[l] ELSE l
<1>1. CopyInv /\ pc = "done"
  BY DEF PInv, Stages, Called
<1> QED
  BY <1>1 DEF CopyInv, Ended, DoneRight

\* However many phis a block has and wherever the allocator put them, along the
\* edge each receives its operand, if constant_fold has left no dead ones.
THEOREM OperandsArrive ==
  ASSUME DeadPhis = FALSE
  PROVE  PhiSpec => []PhisReceiveOperands
<1>1. ASSUME PInv PROVE PhisReceiveOperands
  <2> SUFFICES ASSUME step = "done", NEW p \in Phis
               PROVE  store[mapping[p]] = Location(operand[p])
    BY DEF PhisReceiveOperands
  <2>1. pending = {} /\ rest = {} /\ p \in VRegs
    BY <1>1, EdgeAssumption DEF PInv, Stages
  <2>2. mapping[p] \in DOMAIN moves /\ moves[mapping[p]] = Location(operand[p])
    BY <1>1, <2>1 DEF PInv, Collected
  <2>3. mapping[p] \in PC!Storage
    BY <1>1, <2>1, PlacesAreStorage DEF PInv
  <2> QED
    BY <1>1, <2>2, <2>3, AfterTheEdge
<1> QED
  BY <1>1, PInvInvariant, PTL

\* The moves at the end of a block overwrite nothing that the target block, or
\* what follows it, still needs, dead phis or not.
THEOREM CrossingValuesSpared == PhiSpec => []CrossingValuesKept
<1>1. ASSUME PInv PROVE CrossingValuesKept
  <2> SUFFICES ASSUME step = "done", NEW v \in VRegs \ Phis,
                      iv[v].start <= JoinAt, iv[v].end >= FirstInst
               PROVE  store[mapping[v]] = mapping[v]
    BY DEF CrossingValuesKept
  <2>1. rest = {} /\ DOMAIN moves = {mapping[p] : p \in Phis}
    BY <1>1 DEF PInv, Stages, Collected
  <2>2. ASSUME NEW p \in Phis PROVE mapping[p] # mapping[v]
    <3>1. p \in VRegs /\ p # v
      BY EdgeAssumption
    <3>2. iv[p].start \in Int /\ JoinAt <= iv[p].start /\ iv[p].start < FirstInst
      BY <1>1, PhiStarts DEF PInv, Edge
    <3>3. iv[p].end = iv[p].start \/ iv[p].end >= FirstInst
      BY <1>1 DEF PInv, Edge, AroundEdge
    <3>4. FirstInst \in Int /\ JoinAt \in Int
      BY PhisFinite, EdgeAssumption DEF FirstInst
    <3>5. /\ iv[p].end \in Int
          /\ iv[v].start \in Int /\ iv[v].end \in Int
      BY <1>1, <3>1, IntervalFacts DEF PInv, IInv
    <3>6. Overlap(p, v)
      BY <3>2, <3>3, <3>4, <3>5 DEF Overlap
    <3> QED
      BY <1>1, <2>1, <3>1, <3>6, PlacesDiffer DEF PInv
  <2>3. mapping[v] \in PC!Storage /\ mapping[v] \notin DOMAIN moves
    BY <1>1, <2>1, <2>2, PlacesAreStorage DEF PInv
  <2> QED
    BY <1>1, <2>3, AfterTheEdge
<1> QED
  BY <1>1, PInvInvariant, PTL

\* What the comment of parallel_assignment takes for granted of its input holds
\* if no phi is dead: no place is a destination twice.
THEOREM DestinationsDiffer ==
  ASSUME DeadPhis = FALSE
  PROVE  PhiSpec => []OneDestinationPerPhi
<1>1. ASSUME PInv PROVE OneDestinationPerPhi
  BY <1>1, PhisApart DEF PInv, Stages, Edge, OneDestinationPerPhi
<1> QED
  BY <1>1, PInvInvariant, PTL

\* Types, with the allocator, the collection and the moves together; map::at
\* does not throw along an edge either.
THEOREM EdgeTypeCorrect == PhiSpec => [](PhiTypeOK /\ pc # "threw")
<1>1. ASSUME PInv PROVE PhiTypeOK /\ pc # "threw"
  <2>1. /\ TypeOK /\ pending \subseteq Phis
        /\ step \in {"allocate", "collect", "assign", "done"}
    BY <1>1 DEF PInv, IInv, Stages
  <2>2. DOMAIN moves \subseteq {mapping[v] : v \in DOMAIN mapping}
    <3>1. CASE step = "allocate"
      BY <1>1, <3>1 DEF PInv, Stages, Collected
    <3>2. CASE step # "allocate"
      BY <1>1, <3>2, EdgeAssumption DEF PInv, IInv, Stages, Collected, Placed
    <3> QED
      BY <3>1, <3>2
  <2>3. PC!TypeOK /\ pc # "threw"
    <3>1. CASE step \in {"allocate", "collect"}
      <4>1. {} \in SUBSET PC!Storage /\ todo \in [{} -> PC!Location]
        BY <1>1, <3>1 DEF PInv, Called
      <4>2. todo \in PC!Moves /\ moves \in PC!Moves
        BY <1>1, <4>1 DEF PInv, Collected, PC!Moves
      <4>3. store \in [PC!Places -> PC!Location \cup {Junk}]
        BY <1>1, <3>1 DEF PInv, Called, PC!Location
      <4> QED
        BY <1>1, <3>1, <4>2, <4>3 DEF PInv, Called, PC!TypeOK
    <3>2. CASE step \notin {"allocate", "collect"}
      BY <1>1, <3>2 DEF PInv, Called, CopyInv, Ended
    <3> QED
      BY <3>1, <3>2
  <2> QED
    BY <2>1, <2>2, <2>3 DEF PhiTypeOK
<1> QED
  BY <1>1, PInvInvariant, PTL
=============================================================================
