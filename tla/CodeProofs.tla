----------------------------- MODULE CodeProofs -----------------------------
(***************************************************************************)
(* The code that is emitted.                                               *)
(*                                                                         *)
(* A call, for frames of every size and any number of arguments: the areas *)
(* of AllocationResult are apart, the callee gives back what it has to,    *)
(* and the sequences of the caller and the callee implement CallSpec.      *)
(*                                                                         *)
(* Every other instruction, for words and immediates of every width and    *)
(* any number of registers and slots: the sequence it becomes can be       *)
(* encoded, computes what the instruction means and changes nothing else.  *)
(* The invariant says that what remains to be run leads from the present   *)
(* state of the machine to the right one.                                  *)
(***************************************************************************)
EXTENDS MCCode, ProofLibrary, SequenceTheorems

LEMMA ArgCount == Len(ArgRegs) \in Nat /\ DOMAIN ArgRegs = 1..Len(ArgRegs)
BY RegistersAssumption

\* The areas that lie below the local variables, in order.
LEMMA Ordered ==
  ASSUME NEW f, IsFrame(f)
  PROVE  /\ CallerSaveOffset(f) = f.spill
         /\ CalleeSaveOffset(f) \in Nat /\ LocalVarOffset(f) \in Nat
         /\ f.spill <= CalleeSaveOffset(f)
         /\ CallerSaveOffset(f) + 8 * f.maxSave = CalleeSaveOffset(f)
         /\ CalleeSaveOffset(f) <= LocalVarOffset(f)
<1>1. PICK s \in Nat : s = f.spill BY DEF IsFrame
<1>2. PICK m \in Nat : m = f.maxSave BY DEF IsFrame
<1>3. PICK c \in Nat : c = Len(f.saved) BY DEF IsFrame
<1>4. PICK r \in Nat : r = RaArea(f) BY DEF RaArea
<1>5. CalleeSaveOffset(f) = s + 8 * m
  BY <1>1, <1>2, Zenon DEF CalleeSaveOffset, CallerSaveOffset
<1>6. LocalVarOffset(f) = s + 8 * m + 8 * c + r
  BY <1>3, <1>4, <1>5, Zenon DEF LocalVarOffset, ReturnAddrOffset
<1>7. CallerSaveOffset(f) = s
  BY <1>1 DEF CallerSaveOffset
<1> QED
  BY <1>1, <1>2, <1>5, <1>6, <1>7

LEMMA RoundedUp ==
  ASSUME NEW n \in Nat
  PROVE  /\ ((n + 15) \div 16) * 16 \in Nat
         /\ (((n + 15) \div 16) * 16) % 16 = 0
         /\ n <= ((n + 15) \div 16) * 16
OBVIOUS

LEMMA StackArgsNat ==
  ASSUME NEW n \in Nat
  PROVE  StackArgs(n) \in Nat
BY ArgCount DEF StackArgs

LEMMA SizeFacts ==
  ASSUME NEW f, IsFrame(f)
  PROVE  /\ FrameSize(f) \in Nat
         /\ FrameSize(f) % 16 = 0
         /\ LocalVarOffset(f) + f.local + 8 * StackArgs(Len(f.params)) <= FrameSize(f)
<1>1. StackArgs(Len(f.params)) \in Nat
  BY StackArgsNat DEF IsFrame
<1>2. RaArea(f) \in Nat
  BY DEF RaArea
<1>3. f.spill \in Nat /\ f.local \in Nat /\ f.maxSave \in Nat /\ Len(f.saved) \in Nat
  BY DEF IsFrame
<1>4. LocalVarOffset(f) = f.spill + 8 * f.maxSave + 8 * Len(f.saved) + RaArea(f)
  BY DEF CallerSaveOffset, CalleeSaveOffset, ReturnAddrOffset, LocalVarOffset
<1> DEFINE size == f.spill + f.local + 8 * Len(f.saved) + 8 * f.maxSave
                     + RaArea(f) + 8 * StackArgs(Len(f.params))
<1> DEFINE used == f.spill + 8 * f.maxSave + 8 * Len(f.saved) + RaArea(f) + f.local
                     + 8 * StackArgs(Len(f.params))
<1>5. size \in Nat /\ used = size
  <2>1. PICK s \in Nat : s = f.spill BY <1>3
  <2>2. PICK l \in Nat : l = f.local BY <1>3
  <2>3. PICK m \in Nat : m = f.maxSave BY <1>3
  <2>4. PICK c \in Nat : c = Len(f.saved) BY <1>3
  <2>5. PICK r \in Nat : r = RaArea(f) BY <1>2
  <2>6. PICK k \in Nat : k = StackArgs(Len(f.params)) BY <1>1
  <2>7. size = s + l + 8 * c + 8 * m + r + 8 * k
    BY <2>1, <2>2, <2>3, <2>4, <2>5, <2>6, Zenon
  <2>8. used = s + 8 * m + 8 * c + r + l + 8 * k
    BY <2>1, <2>2, <2>3, <2>4, <2>5, <2>6, Zenon
  <2>9. /\ s + l + 8 * c + 8 * m + r + 8 * k \in Nat
        /\ s + 8 * m + 8 * c + r + l + 8 * k = s + l + 8 * c + 8 * m + r + 8 * k
    OBVIOUS
  <2> QED BY <2>7, <2>8, <2>9, Zenon
<1>7. LocalVarOffset(f) + f.local + 8 * StackArgs(Len(f.params)) = used
  BY <1>4, Zenon
<1>6. FrameSize(f) = ((size + 15) \div 16) * 16
  BY DEF FrameSize
<1> HIDE DEF size, used
<1> QED
  BY <1>5, <1>6, <1>7, RoundedUp

\* Whatever the sizes, the cells a callee's body may write (allocate_registers
\* hands them out as spill slots, save area of its own calls and local
\* variables) are below the caller's frame and the words passed to it, and
\* are none of those in which generate_prologue saved registers and ra.
THEOREM BodySparesSavedWords ==
  ASSUME IsFrame(callee), sp \in Int,
         NEW a \in Int, MayWriteCell(a)
  PROVE  /\ a - sp \notin CalleeSaveOffset(callee)..LocalVarOffset(callee) - 1
         /\ a - sp < SpillArgsOffset(callee)
         /\ SpillArgsOffset(callee) <= FrameSize(callee)
<1>1. /\ CallerSaveOffset(callee) = callee.spill
      /\ CalleeSaveOffset(callee) \in Nat /\ LocalVarOffset(callee) \in Nat
      /\ callee.spill <= CalleeSaveOffset(callee)
      /\ CallerSaveOffset(callee) + 8 * callee.maxSave = CalleeSaveOffset(callee)
      /\ CalleeSaveOffset(callee) <= LocalVarOffset(callee)
  BY Ordered
<1>2. callee.local \in Nat /\ callee.spill \in Nat
  BY DEF IsFrame
<1>3. PICK n \in Nat : n = StackArgs(Len(callee.params))
  BY StackArgsNat DEF IsFrame
<1>4. PICK z \in Nat : z = FrameSize(callee)
  BY SizeFacts
<1>5. SpillArgsOffset(callee) = z - 8 * n
  BY <1>3, <1>4, Zenon DEF SpillArgsOffset
<1>6. LocalVarOffset(callee) + callee.local <= SpillArgsOffset(callee)
  <2>1. LocalVarOffset(callee) + callee.local + 8 * n <= z
    BY <1>3, <1>4, SizeFacts, Zenon
  <2> QED BY <2>1, <1>1, <1>2, <1>5
<1>7. SpillArgsOffset(callee) <= FrameSize(callee) /\ SpillArgsOffset(callee) \in Int
  BY <1>4, <1>5
<1>8. /\ a - sp < LocalVarOffset(callee) + callee.local
      /\ a - sp \notin CalleeSaveOffset(callee)..LocalVarOffset(callee) - 1
  <2>0. a - sp \in Int
    OBVIOUS
  <2>1. CASE a - sp < 0
    BY <2>0, <2>1, <1>1, <1>2
  <2>2. CASE a - sp \in 0..callee.spill - 1
    BY <2>0, <2>2, <1>1, <1>2
  <2>3. CASE a - sp \in CallerSaveOffset(callee)..CallerSaveOffset(callee) + 8 * callee.maxSave - 1
    <3>1. PICK m \in Nat : m = callee.maxSave
      BY DEF IsFrame
    <3>2. PICK x \in Nat : x = CalleeSaveOffset(callee)
      BY <1>1
    <3>3. CallerSaveOffset(callee) \in Nat /\ CallerSaveOffset(callee) + 8 * m = x
      BY <1>1, <1>2, <3>1, <3>2
    <3>4. a - sp \in CallerSaveOffset(callee)..CallerSaveOffset(callee) + 8 * m - 1
      BY <2>3, <3>1
    <3>5. a - sp < x
      BY <2>0, <3>3, <3>4
    <3> QED BY <2>0, <3>2, <3>5, <1>1, <1>2
  <2>4. CASE a - sp \in LocalVarOffset(callee)..LocalVarOffset(callee) + callee.local - 1
    BY <2>0, <2>4, <1>1, <1>2
  <2>5. \/ a - sp < 0 \/ a - sp \in 0..callee.spill - 1
        \/ a - sp \in CallerSaveOffset(callee)..CallerSaveOffset(callee) + 8 * callee.maxSave - 1
        \/ a - sp \in LocalVarOffset(callee)..LocalVarOffset(callee) + callee.local - 1
    BY Zenon DEF MayWriteCell
  <2> QED BY <2>1, <2>2, <2>3, <2>4, <2>5, Zenon
<1> QED
  BY <1>1, <1>2, <1>6, <1>7, <1>8

\* The callee looks for an argument that has no register exactly where
\* generate_call stored it below the caller's sp, padding included; and the
\* address is a multiple of eight.
THEOREM ArgumentsMeet ==
  ASSUME IsFrame(callee), Len(ArgRegs) \in Nat,
         NEW callerSp \in Int, callerSp % 16 = 0,
         NEW k \in Nat, Len(ArgRegs) < k, k <= Len(callee.params)
  PROVE  LET n == StackArgs(Len(callee.params))
             stored == callerSp - 8 * n + 8 * (k - Len(ArgRegs) - 1)
         IN /\ ParamPlace(callee, k) = Spill(stored - (callerSp - FrameSize(callee)))
            /\ stored % 8 = 0
            /\ stored < callerSp
<1>1. PICK n \in Nat : n = StackArgs(Len(callee.params))
  BY StackArgsNat DEF IsFrame
<1>2. PICK z \in Nat : z = FrameSize(callee)
  BY SizeFacts
<1>3. PICK i \in Nat : i = k - Len(ArgRegs) - 1
  <2>1. k - Len(ArgRegs) - 1 \in Nat
    OBVIOUS
  <2> QED BY <2>1
<1>4. n = Len(callee.params) - Len(ArgRegs) /\ Len(callee.params) \in Nat
  BY <1>1, ArgCount DEF IsFrame, StackArgs
<1>5. i < n
  BY <1>3, <1>4
<1>6. ParamPlace(callee, k) = Spill((z - 8 * n) + 8 * i)
  <2>1. ~(k <= Len(ArgRegs))
    OBVIOUS
  <2> QED BY <2>1, <1>1, <1>2, <1>3, Zenon DEF ParamPlace, SpillArgsOffset
<1>7. /\ (z - 8 * n) + 8 * i = (callerSp - 8 * n + 8 * i) - (callerSp - z)
      /\ (callerSp - 8 * n + 8 * i) % 8 = 0
      /\ callerSp - 8 * n + 8 * i < callerSp
  BY <1>5
<1> QED
  BY <1>1, <1>2, <1>3, <1>6, <1>7, Zenon
-----------------------------------------------------------------------------
(* Cells, and what is stored in them and loaded from them                  *)

LEMMA DepthNat == Depth \in Nat
BY RegistersAssumption

LEMMA CellFacts ==
  /\ \A a \in Cells : a \in Int /\ a % 8 = 0 /\ -8 * Depth <= a /\ a < 8 * Depth
  /\ \A a \in Int : a % 8 = 0 /\ -8 * Depth <= a /\ a < 8 * Depth => a \in Cells
<1> Depth \in Nat
  BY DepthNat
<1>1. ASSUME NEW a \in Cells
      PROVE  a \in Int /\ a % 8 = 0 /\ -8 * Depth <= a /\ a < 8 * Depth
  BY DEF Cells
<1>2. ASSUME NEW a \in Int, a % 8 = 0, -8 * Depth <= a, a < 8 * Depth
      PROVE  a \in Cells
  <2>1. PICK k \in Int : a = 8 * k
    <3>1. a \div 8 \in Int /\ a = 8 * (a \div 8)
      BY <1>2
    <3> QED BY <3>1
  <2>2. k \in -Depth..Depth - 1
    BY <1>2, <2>1
  <2> QED BY <2>1, <2>2 DEF Cells
<1> QED BY <1>1, <1>2

LEMMA StoredApart ==
  ASSUME NEW m, NEW from \in Int, NEW ws, Len(ws) \in Nat, NEW a \in DOMAIN m, a \in Int,
         a < from \/ from + 8 * Len(ws) <= a
  PROVE  Stored(m, from, ws)[a] = m[a]
<1>1. (a - from) \div 8 \notin 0..Len(ws) - 1
  OBVIOUS
<1> QED BY <1>1 DEF Stored

LEMMA StoredWord ==
  ASSUME NEW m, NEW from \in Int, NEW ws, Len(ws) \in Nat, NEW k \in 1..Len(ws),
         from + 8 * (k - 1) \in DOMAIN m
  PROVE  Stored(m, from, ws)[from + 8 * (k - 1)] = ws[k]
<1> DEFINE a == from + 8 * (k - 1)
<1>1. (a - from) \div 8 = k - 1
  OBVIOUS
<1>2. (a - from) \div 8 \in 0..Len(ws) - 1 /\ ((a - from) \div 8) + 1 = k
  BY <1>1
<1>3. Stored(m, from, ws)[a] = ws[((a - from) \div 8) + 1]
  <2> HIDE DEF a
  <2> QED BY <1>2 DEF a, Stored
<1> QED BY <1>2, <1>3

LEMMA StoredDomain ==
  ASSUME NEW m, NEW from, NEW ws
  PROVE  DOMAIN Stored(m, from, ws) = DOMAIN m
BY DEF Stored

LEMMA LoadedWord ==
  ASSUME NEW g, NEW from, NEW rs, NEW r \in DOMAIN g, NEW j \in DOMAIN rs, rs[j] = r
  PROVE  \E k \in DOMAIN rs : rs[k] = r /\ Loaded(g, from, rs)[r] = mem[from + 8 * (k - 1)]
<1> DEFINE k == CHOOSE i \in DOMAIN rs : rs[i] = r
<1>1. k \in DOMAIN rs /\ rs[k] = r
  OBVIOUS
<1>2. Loaded(g, from, rs)[r] = mem[from + 8 * (k - 1)]
  BY DEF Loaded
<1> QED
  <2> HIDE DEF k
  <2> QED BY <1>1, <1>2

LEMMA LoadedApart ==
  ASSUME NEW g, NEW from, NEW rs, NEW r \in DOMAIN g, \A j \in DOMAIN rs : rs[j] # r
  PROVE  Loaded(g, from, rs)[r] = g[r]
BY DEF Loaded

LEMMA LoadedDomain ==
  ASSUME NEW g, NEW from, NEW rs
  PROVE  DOMAIN Loaded(g, from, rs) = DOMAIN g
BY DEF Loaded

-----------------------------------------------------------------------------
(* The inputs                                                              *)

LEMMA WithoutOne ==
  ASSUME NEW S, NEW s \in Seq(S), NEW i \in 1..Len(s)
  PROVE  /\ RemoveAt(s, i) \in Seq(S)
         /\ Len(RemoveAt(s, i)) = Len(s) - 1
         /\ \A k \in 1..Len(s) - 1 : RemoveAt(s, i)[k] = IF k < i THEN s[k] ELSE s[k + 1]
<1> DEFINE p == SubSeq(s, 1, i - 1)
           q == SubSeq(s, i + 1, Len(s))
<1>1. p \in Seq(S) /\ Len(p) = i - 1 /\ \A k \in 1..i - 1 : p[k] = s[k]
  OBVIOUS
<1>2. q \in Seq(S) /\ Len(q) = Len(s) - i /\ \A k \in 1..Len(s) - i : q[k] = s[i + k]
  OBVIOUS
<1>3. RemoveAt(s, i) = p \o q
  BY DEF RemoveAt
<1>4. Len(s) \in Nat
  OBVIOUS
<1> HIDE DEF p, q
<1>5. p \o q \in Seq(S) /\ Len(p \o q) = Len(s) - 1
  <2>1. Len(p \o q) = Len(p) + Len(q)
    BY <1>1, <1>2, ConcatProperties, Zenon
  <2>2. Len(p \o q) = (i - 1) + (Len(s) - i)
    BY <1>1, <1>2, <2>1
  <2> QED BY <1>1, <1>2, <1>4, <2>2
<1>6. ASSUME NEW k \in 1..Len(s) - 1
      PROVE  (p \o q)[k] = IF k < i THEN s[k] ELSE s[k + 1]
  <2>1. CASE k < i
    BY <1>1, <1>2, <1>4, <2>1
  <2>2. CASE ~(k < i)
    <3>1. (p \o q)[k] = q[k - Len(p)]
      BY <1>1, <1>2, <1>4, <2>2
    <3>2. k - Len(p) = k - i + 1 /\ k - i + 1 \in 1..Len(s) - i
      BY <1>1, <1>4, <2>2
    <3>3. q[k - i + 1] = s[i + (k - i + 1)]
      BY <1>2, <3>2
    <3>4. i + (k - i + 1) = k + 1
      OBVIOUS
    <3> QED BY <2>2, <3>1, <3>2, <3>3, <3>4
  <2> QED BY <2>1, <2>2
<1> QED BY <1>3, <1>5, <1>6

LEMMA OrderFacts ==
  ASSUME CallerInputs
  PROVE  /\ order \in Seq(CallerToSave) /\ Len(order) <= caller.maxSave
         /\ \A r \in CallerToSave : \E k \in 1..Len(order) : order[k] = r
<1> DEFINE n == Cardinality(CallerToSave)
<1>1. IsFiniteSet(CallerToSave)
  <2>1. CallerToSave \subseteq CallerSaved
    BY DEF CallerToSave
  <2> QED BY <2>1, RegistersAssumption, FS_Subset, Zenon
<1>2. n \in Nat
  BY <1>1, FS_CardinalityType
<1>3. /\ order \in [1..n -> CallerToSave]
      /\ \A i, j \in 1..n : i # j => order[i] # order[j]
  BY DEF CallerInputs, SetToSeqs
<1>4. order \in Seq(CallerToSave) /\ Len(order) = n
  BY <1>2, <1>3
<1>5. ASSUME NEW r \in CallerToSave, \A k \in 1..n : order[k] # r
      PROVE  FALSE
  <2> DEFINE T == CallerToSave \ {r}
  <2>1. IsFiniteSet(T) /\ Cardinality(T) = n - 1
    BY <1>1, FS_RemoveElement, Zenon
  <2>2. order \in [1..n -> T]
    BY <1>3, <1>5
  <2>3. IsFiniteSet(1..n) /\ Cardinality(1..n) = n
    BY <1>2, FS_Interval
  <2>4. Cardinality(T) < Cardinality(1..n)
    BY <1>2, <2>1, <2>3
  <2>5. \E x, y \in 1..n : x # y /\ order[x] = order[y]
    <3> HIDE DEF T, n
    <3> QED BY <2>1, <2>2, <2>3, <2>4, FS_PigeonHole, Zenon
  <2> QED BY <1>3, <2>5
<1> QED BY <1>4, <1>5 DEF CallerInputs

\* Around the call all registers to save are, but for that of the result, and
\* they fit in the area laid out for them.
LEMMA SavedFacts ==
  ASSUME CallerInputs
  PROVE  /\ Saved \in Seq(CallerToSave) /\ Len(Saved) <= caller.maxSave
         /\ \A r \in CallerToSave :
              (\A v \in dst : place[v] # InReg(r)) => \E k \in 1..Len(Saved) : Saved[k] = r
         /\ \A k \in 1..Len(Saved) : \A v \in dst : place[v] # InReg(Saved[k])
<1> DEFINE result == {k \in DOMAIN order : \E v \in dst : place[v] = InReg(order[k])}
<1>1. /\ order \in Seq(CallerToSave) /\ Len(order) <= caller.maxSave
      /\ \A r \in CallerToSave : \E k \in 1..Len(order) : order[k] = r
  BY OrderFacts
<1>2. Len(order) \in Nat /\ DOMAIN order = 1..Len(order) /\ caller.maxSave \in Nat
  BY <1>1, FramesAssumption DEF CallerInputs, IsFrame
<1>3. CASE result = {}
  <2>1. Saved = order
    BY <1>3 DEF Saved
  <2>2. \A k \in 1..Len(order) : \A v \in dst : place[v] # InReg(order[k])
    BY <1>2, <1>3
  <2> QED BY <1>1, <2>1, <2>2
<1>4. CASE result # {}
  <2> DEFINE i == CHOOSE k \in result : TRUE
  <2>1. i \in 1..Len(order) /\ \E v \in dst : place[v] = InReg(order[i])
    <3>1. i \in result
      BY <1>4
    <3> QED BY <3>1, <1>2
  <2>2. Saved = RemoveAt(order, i)
    BY <1>4 DEF Saved
  <2> HIDE DEF i, result
  <2>3. /\ Saved \in Seq(CallerToSave) /\ Len(Saved) = Len(order) - 1
        /\ \A k \in 1..Len(order) - 1 : Saved[k] = IF k < i THEN order[k] ELSE order[k + 1]
    BY <1>1, <2>1, <2>2, WithoutOne
  <2>4. \A u, v \in dst : u = v
    BY DEF CallerInputs
  <2>5. \A j, k \in 1..Len(order) : j # k => order[j] # order[k]
    BY <1>2 DEF CallerInputs, SetToSeqs
  <2>6. ASSUME NEW r \in CallerToSave, \A v \in dst : place[v] # InReg(r)
        PROVE  \E k \in 1..Len(Saved) : Saved[k] = r
    <3>1. PICK k \in 1..Len(order) : order[k] = r
      BY <1>1
    <3>2. k # i
      BY <2>1, <2>6, <3>1
    <3>3. CASE k < i
      <4>1. k \in 1..Len(Saved) /\ Saved[k] = r
        BY <1>2, <2>1, <2>3, <3>1, <3>3
      <4> QED BY <4>1
    <3>4. CASE i < k
      <4>1. k - 1 \in 1..Len(Saved) /\ Saved[k - 1] = r
        BY <1>2, <2>1, <2>3, <3>1, <3>4
      <4> QED BY <4>1
    <3> QED BY <1>2, <2>1, <3>2, <3>3, <3>4
  <2>7. ASSUME NEW k \in 1..Len(Saved), NEW v \in dst, place[v] = InReg(Saved[k])
        PROVE  FALSE
    <3>1. InReg(Saved[k]) = InReg(order[i])
      BY <2>1, <2>4, <2>7
    <3>2. Saved[k] = order[i]
      BY <3>1 DEF InReg
    <3>3. \E j \in 1..Len(order) : j # i /\ Saved[k] = order[j]
      <4>1. CASE k < i
        BY <1>2, <2>1, <2>3, <4>1
      <4>2. CASE ~(k < i)
        <5>1. k + 1 \in 1..Len(order) /\ k + 1 # i /\ Saved[k] = order[k + 1]
          BY <1>2, <2>1, <2>3, <4>2
        <5> QED BY <5>1
      <4> QED BY <4>1, <4>2
    <3> QED BY <2>1, <2>5, <3>2, <3>3
  <2> QED BY <1>1, <1>2, <2>3, <2>6, <2>7
<1> QED BY <1>3, <1>4
-----------------------------------------------------------------------------
(* The invariant                                                           *)

\* What virtual register v, and what argument a, holds before the call.
Held(v) == IF place[v][1] = "addr" THEN <<"address", place[v][2]>> ELSE ValueAt(v)
Given(a) == IF a[1] = "v" THEN Held(a[2]) ELSE a

InFrame == pc \in {"params", "pop"} \/ (pc = "body" /\ FrameSize(callee) > 0)

Typed ==
  /\ pc \in {"save", "stack_args", "reg_args", "call", "push", "params", "body",
             "pop", "return", "restore", "done"}
  /\ DOMAIN regs = Regs \cup {ra} /\ DOMAIN mem = Cells
  /\ pc \in {"push", "params", "pop"} => FrameSize(callee) > 0
  /\ sp = IF InFrame THEN -FrameSize(callee) ELSE 0

\* Nothing but the save area has changed in the stack from the caller's sp
\* upwards, and what was saved is in that area until it is restored.
UpperKept ==
  pc \notin {"restore", "done"} =>
    \A a \in Cells : a >= 0 /\ a \notin CallerSaveOffset(caller)..CalleeSaveOffset(caller) - 1
                       => mem[a] = CellAtStart(a)
WordsSaved ==
  pc \notin {"save", "done"} =>
    \A k \in 1..Len(Saved) :
      mem[CallerSaveOffset(caller) + 8 * (k - 1)] = RegAtStart(Saved[k])

\* Registers: all are as before until the arguments are passed, those that
\* belong to the caller longer; the callee restores the ones it uses.
RegsKept ==
  /\ pc \in {"save", "stack_args", "reg_args"} => \A r \in Regs : regs[r] = RegAtStart(r)
  /\ pc \notin {"restore", "done"} =>
       \A r \in CalleeSaved :
         (pc = "pop" => \A k \in 1..Len(callee.saved) : callee.saved[k] # r)
           => regs[r] = RegAtStart(r)
Linked ==
  /\ pc \in {"push", "params", "body", "return"} => regs[ra] = BackToCaller
  /\ pc = "pop" /\ callee.leaf => regs[ra] = BackToCaller
FrameWords ==
  InFrame =>
    /\ \A k \in 1..Len(callee.saved) :
         mem[sp + CalleeSaveOffset(callee) + 8 * (k - 1)] = RegAtStart(callee.saved[k])
    /\ ~callee.leaf => mem[sp + ReturnAddrOffset(callee)] = BackToCaller

\* Arguments, where the caller leaves them and where the callee finds them.
Passed ==
  /\ pc \in {"reg_args", "call", "push", "params", "body"} =>
       LET n == StackArgs(Len(args))
       IN \A k \in 1..n : mem[-8 * n + 8 * (k - 1)] = Given(args[Len(ArgRegs) + k])
  /\ pc \in {"call", "push", "params"} =>
       \A k \in DOMAIN args \cap DOMAIN ArgRegs : regs[ArgRegs[k]] = Given(args[k])
  /\ pc = "body" =>
       \A k \in DOMAIN args \cap DOMAIN ArgRegs : Read(callee.params[k]) = Given(args[k])

\* The result, and what lives across the call.
Survive ==
  /\ pc \in {"pop", "return"} => regs[ArgRegs[1]] = Result
  /\ pc \in {"restore", "done"} =>
       /\ \A v \in dst : Read(place[v]) = Result
       /\ \A v \in Across :
            pc = "done" \/ (\A k \in 1..Len(Saved) : place[v] # InReg(Saved[k]))
              => Read(place[v]) = Held(v)

IInv ==
  /\ CallerInputs /\ CalleeInputs /\ Typed
  /\ UpperKept /\ WordsSaved /\ RegsKept /\ Linked /\ FrameWords /\ Passed /\ Survive

LEMMA Rigid ==
  ASSUME UNCHANGED input
  PROVE  /\ CallerInputs => CallerInputs'
         /\ CalleeInputs => CalleeInputs'
         /\ \A r : RegAtStart(r)' = RegAtStart(r)
         /\ \A a : CellAtStart(a)' = CellAtStart(a)
         /\ \A v : Held(v)' = Held(v)
         /\ \A a : Given(a)' = Given(a)
         /\ Saved' = Saved /\ Across' = Across
         /\ caller' = caller /\ callee' = callee /\ place' = place /\ args' = args /\ dst' = dst
<1>1. /\ caller' = caller /\ callee' = callee /\ place' = place /\ iv' = iv
      /\ args' = args /\ dst' = dst /\ order' = order
  BY DEF input
<1>2. \A v : LiveBefore(v)' = LiveBefore(v)
  BY <1>1 DEF LiveBefore
<1>3. \A p, x : AtStart(p, x)' = AtStart(p, x)
  <2>1. \A p : LiveIn(p)' = LiveIn(p)
    BY <1>1, <1>2, Zenon DEF LiveIn
  <2> QED BY <2>1 DEF AtStart, ValueAt
<1>4. \A u, v : Interfere(u, v)' = Interfere(u, v)
  BY <1>1 DEF Interfere
<1>5. CallerToSave' = CallerToSave
  BY <1>1 DEF CallerToSave, Saves, InRegister
<1>6. Saved' = Saved
  BY <1>1 DEF Saved
<1>7. Across' = Across
  BY <1>1 DEF Across, LiveAfter
<1>8. CallerInputs => CallerInputs'
  BY <1>1, <1>4, <1>5 DEF CallerInputs
<1>9. CalleeInputs => CalleeInputs'
  BY <1>1, <1>2 DEF CalleeInputs
<1>10. \A v : Held(v)' = Held(v)
  BY <1>1 DEF Held
<1>11. \A a : Given(a)' = Given(a)
  BY <1>10 DEF Given
<1>12. (\A r : RegAtStart(r)' = RegAtStart(r)) /\ (\A a : CellAtStart(a)' = CellAtStart(a))
  BY <1>3 DEF RegAtStart, CellAtStart
<1> QED BY <1>1, <1>6, <1>7, <1>8, <1>9, <1>10, <1>11, <1>12

\* Where everything is in the two frames.
LEMMA CallerFrame ==
  ASSUME CallerInputs
  PROVE  /\ CallerSaveOffset(caller) = caller.spill
         /\ caller.spill \in Nat /\ caller.spill % 8 = 0 /\ caller.maxSave \in Nat
         /\ CalleeSaveOffset(caller) = caller.spill + 8 * caller.maxSave
         /\ CalleeSaveOffset(caller) <= 8 * Depth
<1>1. IsFrame(caller) /\ FrameSize(caller) <= 8 * Depth
  BY FramesAssumption DEF CallerInputs
<1>2. /\ caller.spill \in Nat /\ caller.spill % 8 = 0 /\ caller.maxSave \in Nat
      /\ caller.local \in Nat /\ Len(caller.params) \in Nat
  BY <1>1 DEF IsFrame
<1>3. /\ CallerSaveOffset(caller) = caller.spill
      /\ CalleeSaveOffset(caller) = caller.spill + 8 * caller.maxSave
  BY DEF CallerSaveOffset, CalleeSaveOffset
<1>4. PICK x \in Nat : x = CalleeSaveOffset(caller)
  BY <1>1, Ordered
<1>5. PICK y \in Nat : y = LocalVarOffset(caller) /\ x <= y
  BY <1>1, <1>4, Ordered
<1>6. PICK n \in Nat : n = StackArgs(Len(caller.params))
  BY <1>2, StackArgsNat
<1>7. PICK z \in Nat : z = FrameSize(caller) /\ y + caller.local + 8 * n <= z
  BY <1>1, <1>5, <1>6, SizeFacts
<1>8. x <= 8 * Depth
  BY <1>1, <1>2, <1>5, <1>7, RegistersAssumption
<1> QED BY <1>2, <1>3, <1>4, <1>8

LEMMA CalleeFrame ==
  ASSUME CalleeInputs
  PROVE  /\ IsFrame(callee)
         /\ FrameSize(callee) \in Nat /\ FrameSize(callee) % 16 = 0
         /\ FrameSize(callee) <= 8 * Depth
         /\ callee.spill \in Nat /\ callee.spill <= CalleeSaveOffset(callee)
         /\ CalleeSaveOffset(callee) \in Nat /\ CalleeSaveOffset(callee) % 8 = 0
         /\ callee.saved \in Seq(CalleeSaved) /\ Len(callee.saved) \in Nat
         /\ ReturnAddrOffset(callee) = CalleeSaveOffset(callee) + 8 * Len(callee.saved)
         /\ ReturnAddrOffset(callee) \in Nat
         /\ callee.leaf \in BOOLEAN
         /\ ~callee.leaf
              => ReturnAddrOffset(callee) + 8 + 8 * StackArgs(Len(args)) <= FrameSize(callee)
         /\ ReturnAddrOffset(callee) + 8 * StackArgs(Len(args)) <= FrameSize(callee)
         /\ LocalVarOffset(callee) = ReturnAddrOffset(callee) + RaArea(callee)
         /\ Len(args) = Len(callee.params) /\ Len(args) \in Nat
         /\ DOMAIN args = 1..Len(args) /\ DOMAIN callee.params = 1..Len(args)
         /\ StackArgs(Len(args)) \in Nat
         /\ 8 * StackArgs(Len(args)) <= FrameSize(callee)
<1>1. IsFrame(callee) /\ FrameSize(callee) <= 8 * Depth
  BY FramesAssumption DEF CalleeInputs
<1>2. /\ callee.spill \in Nat /\ callee.spill % 8 = 0 /\ callee.maxSave \in Nat
      /\ callee.local \in Nat /\ Len(callee.params) \in Nat
      /\ callee.saved \in Seq(CalleeSaved) /\ callee.leaf \in BOOLEAN
      /\ DOMAIN callee.params = 1..Len(callee.params)
  BY <1>1 DEF IsFrame
<1>3. Len(callee.saved) \in Nat
  BY <1>2
<1>4. PICK x \in Nat : x = CalleeSaveOffset(callee) /\ callee.spill <= x
  BY <1>1, Ordered
<1>5. x % 8 = 0
  <2>1. x = callee.spill + 8 * callee.maxSave
    BY <1>4 DEF CalleeSaveOffset, CallerSaveOffset
  <2>2. PICK s \in Nat, m \in Nat : s = callee.spill /\ m = callee.maxSave
    BY <1>2
  <2>3. s % 8 = 0 /\ x = s + 8 * m
    BY <1>2, <2>1, <2>2
  <2> QED BY <2>3
<1>6. PICK c \in Nat : c = Len(callee.saved)
  BY <1>3
<1>7. ReturnAddrOffset(callee) = x + 8 * c
  BY <1>4, <1>6 DEF ReturnAddrOffset
<1>8. PICK n \in Nat : n = StackArgs(Len(callee.params))
  BY <1>2, StackArgsNat
<1>9. PICK z \in Nat : z = FrameSize(callee)
  BY <1>1, SizeFacts
<1>10. z % 16 = 0 /\ LocalVarOffset(callee) + callee.local + 8 * n <= z
  BY <1>1, <1>8, <1>9, SizeFacts
<1>11. LocalVarOffset(callee) = x + 8 * c + RaArea(callee)
  BY <1>7 DEF LocalVarOffset
<1>12. /\ ~callee.leaf => x + 8 * c + 8 + 8 * n <= z
       /\ x + 8 * c + 8 * n <= z
       /\ 8 * n <= z
  <2>1. PICK l \in Nat : l = callee.local
    BY <1>1 DEF IsFrame
  <2>2. PICK q \in Nat : q = RaArea(callee) /\ (~callee.leaf => q = 8)
    BY DEF RaArea
  <2>3. x + 8 * c + q + l + 8 * n <= z
    BY <1>10, <1>11, <2>1, <2>2
  <2> QED BY <2>2, <2>3
<1>13. Len(args) = Len(callee.params) /\ DOMAIN args = 1..Len(callee.params)
  <2>1. DOMAIN args = 1..Len(callee.params)
    BY <1>2 DEF CalleeInputs
  <2> QED BY <1>2, <2>1 DEF CalleeInputs
<1>14. LocalVarOffset(callee) = ReturnAddrOffset(callee) + RaArea(callee)
  BY DEF LocalVarOffset
<1>15. /\ ReturnAddrOffset(callee) = CalleeSaveOffset(callee) + 8 * Len(callee.saved)
       /\ ReturnAddrOffset(callee) \in Nat
       /\ ~callee.leaf
            => ReturnAddrOffset(callee) + 8 + 8 * StackArgs(Len(args)) <= FrameSize(callee)
       /\ ReturnAddrOffset(callee) + 8 * StackArgs(Len(args)) <= FrameSize(callee)
  <2>1. ReturnAddrOffset(callee) = x + 8 * c /\ StackArgs(Len(args)) = n /\ FrameSize(callee) = z
    BY <1>7, <1>8, <1>9, <1>13
  <2>2. ReturnAddrOffset(callee) \in Nat
    BY <1>4, <2>1
  <2> QED BY <1>4, <1>6, <1>12, <2>1, <2>2
<1>16. /\ StackArgs(Len(args)) \in Nat
       /\ 8 * StackArgs(Len(args)) <= FrameSize(callee)
  BY <1>8, <1>9, <1>12, <1>13
<1>17. /\ FrameSize(callee) \in Nat /\ FrameSize(callee) % 16 = 0
       /\ CalleeSaveOffset(callee) \in Nat /\ CalleeSaveOffset(callee) % 8 = 0
       /\ callee.spill <= CalleeSaveOffset(callee)
  BY <1>4, <1>5, <1>9, <1>10
<1>18. /\ Len(args) = Len(callee.params) /\ Len(args) \in Nat
       /\ DOMAIN args = 1..Len(args) /\ DOMAIN callee.params = 1..Len(args)
  BY <1>2, <1>13
<1> QED BY <1>1, <1>2, <1>3, <1>14, <1>15, <1>16, <1>17, <1>18, Zenon

LEMMA ReadIs ==
  /\ \A r : Read(InReg(r)) = regs[r]
  /\ \A n : Read(Spill(n)) = mem[sp + n]
  /\ \A n : Read(Addr(n)) = <<"address", sp + n>>
BY DEF Read, InReg, Spill, Addr

\* A virtual register of the caller is in a register, in a word of the spill
\* area, or is the address of a local variable.
LEMMA Where ==
  ASSUME CallerInputs, NEW v \in VRegs
  PROVE  \/ \E r \in Regs : place[v] = InReg(r)
         \/ \E n \in Cells : /\ place[v] = Spill(n) /\ n \in Int /\ 0 <= n /\ n < caller.spill
                             /\ n \notin CallerSaveOffset(caller)..CalleeSaveOffset(caller) - 1
         \/ \E n \in Int : place[v] = Addr(n)
<1>1. place[v] \in Places(caller)
  BY DEF CallerInputs
<1>2. CASE \E r \in Regs : place[v] = InReg(r)
  BY <1>2
<1>3. CASE \E k \in 0..(caller.spill \div 8) - 1 : place[v] = Spill(8 * k)
  <2>1. PICK k \in 0..(caller.spill \div 8) - 1 : place[v] = Spill(8 * k)
    BY <1>3
  <2>2. PICK s \in Nat : s = caller.spill /\ s % 8 = 0
    BY CallerFrame
  <2>3. k \in Nat /\ k < s \div 8
    BY <2>1, <2>2
  <2>4. 8 * k \in Int /\ 0 <= 8 * k /\ 8 * k < s /\ (8 * k) % 8 = 0
    BY <2>2, <2>3
  <2>5. s <= 8 * Depth /\ CallerSaveOffset(caller) = s
    BY <2>2, CallerFrame, RegistersAssumption
  <2>6. 8 * k \in Cells
    BY <2>4, <2>5, CellFacts, RegistersAssumption
  <2>7. 8 * k \notin CallerSaveOffset(caller)..CalleeSaveOffset(caller) - 1
    BY <2>4, <2>5
  <2> QED BY <2>1, <2>2, <2>4, <2>6, <2>7
<1>4. CASE place[v] = Addr(LocalVarOffset(caller))
  <2>1. LocalVarOffset(caller) \in Int
    BY FramesAssumption, Ordered DEF CallerInputs
  <2> QED BY <1>4, <2>1
<1> QED
  <2>1. \/ \E r \in Regs : place[v] = InReg(r)
        \/ \E k \in 0..(caller.spill \div 8) - 1 : place[v] = Spill(8 * k)
        \/ place[v] = Addr(LocalVarOffset(caller))
    BY <1>1 DEF Places
  <2> QED BY <1>2, <1>3, <1>4, <2>1

\* No other register live at the call is where v is.
LEMMA HeldAtStart ==
  ASSUME CallerInputs, NEW v \in VRegs, LiveBefore(v)
  PROVE  \A x : AtStart(place[v], x) = ValueAt(v)
<1> DEFINE here == LiveIn(place[v])
<1>1. ASSUME NEW u \in here PROVE u = v
  <2> USE DEF LiveIn
  <2>1. iv[u].start < CallAt /\ CallAt <= iv[u].end /\ iv[v].start < CallAt /\ CallAt <= iv[v].end
    BY DEF LiveBefore
  <2>2. /\ iv[u].start \in Int /\ iv[u].end \in Int
        /\ iv[v].start \in Int /\ iv[v].end \in Int
    BY DEF CallerInputs, Spans, SpansOfDst, Interval, CallAt
  <2>3. iv[u].start <= iv[v].end /\ iv[v].start <= iv[u].end
    BY <2>1, <2>2 DEF CallAt
  <2>4. ~Interfere(u, v)
    BY DEF CallerInputs
  <2> QED BY <2>3, <2>4 DEF Interfere
<1>2. here = {v}
  BY <1>1 DEF LiveIn
<1>3. OneOf(here) = v
  BY <1>2 DEF OneOf
<1> QED BY <1>2, <1>3 DEF AtStart

-----------------------------------------------------------------------------
(* generate_call, up to the call                                           *)

LEMMA ReadNext ==
  /\ \A r : Read(InReg(r))' = regs'[r]
  /\ \A n : Read(Spill(n))' = mem'[sp' + n]
  /\ \A n : Read(Addr(n))' = <<"address", sp' + n>>
BY DEF Read, InReg, Spill, Addr

LEMMA ContentsAre ==
  ASSUME NEW S, NEW rs \in Seq(S)
  PROVE  Len(Contents(rs)) = Len(rs) /\ \A k \in 1..Len(rs) : Contents(rs)[k] = regs[rs[k]]
BY DEF Contents

LEMMA Starts == Init => IInv
<1> SUFFICES ASSUME Init PROVE IInv
  OBVIOUS
<1>1. CallerInputs /\ CalleeInputs /\ pc = "save" /\ sp = 0
  BY DEF Init, AtTheCall
<1>2. \A r \in Regs : regs[r] = RegAtStart(r)
  BY RegistersAssumption DEF Init, AtTheCall
<1>3. \A a \in Cells : mem[a] = CellAtStart(a)
  BY DEF Init, AtTheCall
<1>4. Typed
  BY <1>1 DEF Typed, InFrame, Init, AtTheCall
<1>5. RegsKept
  BY <1>1, <1>2 DEF RegsKept, Regs
<1> QED
  BY <1>1, <1>3, <1>4, <1>5
     DEF IInv, UpperKept, WordsSaved, Linked, FrameWords, InFrame, Passed, Survive

\* A word of the area where the caller saves registers.
LEMMA SaveArea ==
  ASSUME CallerInputs, NEW k \in 1..Len(Saved)
  PROVE  LET a == CallerSaveOffset(caller) + 8 * (k - 1)
         IN a \in Cells /\ a \in Int /\ caller.spill <= a /\ 0 <= a
<1> DEFINE a == CallerSaveOffset(caller) + 8 * (k - 1)
<1>1. Len(Saved) \in Nat /\ Len(Saved) <= caller.maxSave
  BY SavedFacts
<1>2. PICK s \in Nat, m \in Nat : /\ s = caller.spill /\ m = caller.maxSave /\ s % 8 = 0
                                  /\ CallerSaveOffset(caller) = s
                                  /\ CalleeSaveOffset(caller) = s + 8 * m
                                  /\ s + 8 * m <= 8 * Depth
  BY CallerFrame
<1>3. k \in Nat /\ 1 <= k /\ k <= m
  BY <1>1, <1>2
<1>4. a = s + 8 * (k - 1)
  BY <1>2
<1>5. a \in Int /\ s <= a /\ a < 8 * Depth /\ a % 8 = 0
  <2> HIDE DEF a
  <2>1. PICK d \in Nat : d = Depth
    BY DepthNat
  <2>2. s + 8 * m <= 8 * d
    BY <1>2, <2>1
  <2>3. s + 8 * (k - 1) \in Int /\ s <= s + 8 * (k - 1) /\ s + 8 * (k - 1) < 8 * d
    BY <1>3, <2>2
  <2>4. (s + 8 * (k - 1)) % 8 = 0
    <3>1. s % 8 = 0
      BY <1>2
    <3> QED BY <1>3, <3>1
  <2> QED BY <1>4, <2>1, <2>3, <2>4
<1>6. a \in Cells
  <2> HIDE DEF a
  <2>1. -8 * Depth <= a
    BY <1>5, DepthNat
  <2> QED BY <1>5, <2>1, CellFacts
<1> QED BY <1>2, <1>5, <1>6

LEMMA SaveKeeps == ASSUME IInv, Save PROVE IInv'
<1> DEFINE from == sp + CallerSaveOffset(caller)
           ws == Contents(Saved)
<1>1. CallerInputs /\ CalleeInputs /\ Typed /\ UpperKept /\ RegsKept
  BY DEF IInv
<1>2. /\ pc = "save" /\ pc' = "stack_args" /\ mem' = Stored(mem, from, ws)
      /\ UNCHANGED input /\ regs' = regs /\ sp' = sp
  BY DEF Save
<1>3. /\ CallerInputs' /\ CalleeInputs'
      /\ \A r : RegAtStart(r)' = RegAtStart(r)
      /\ \A a : CellAtStart(a)' = CellAtStart(a)
      /\ Saved' = Saved /\ caller' = caller /\ callee' = callee
  BY <1>1, <1>2, Rigid
<1>4. sp = 0 /\ DOMAIN mem = Cells /\ \A r \in Regs : regs[r] = RegAtStart(r)
  BY <1>1, <1>2 DEF Typed, InFrame, RegsKept
<1>5. PICK s \in Nat, m \in Nat : /\ s = caller.spill /\ m = caller.maxSave
                                  /\ CallerSaveOffset(caller) = s
                                  /\ CalleeSaveOffset(caller) = s + 8 * m
  BY <1>1, CallerFrame
<1>6. from = s /\ from \in Int
  BY <1>4, <1>5
<1>7. /\ Saved \in Seq(CallerToSave) /\ Len(Saved) \in Nat /\ Len(Saved) <= m
      /\ Len(ws) = Len(Saved) /\ \A k \in 1..Len(Saved) : ws[k] = regs[Saved[k]]
  BY <1>1, <1>5, SavedFacts, ContentsAre
<1> HIDE DEF from, ws
<1>8. Typed'
  BY <1>1, <1>2, <1>3, StoredDomain DEF Typed, InFrame
<1>9. UpperKept'
  <2> SUFFICES ASSUME NEW a \in Cells, a >= 0,
                      a \notin CallerSaveOffset(caller)..CalleeSaveOffset(caller) - 1
               PROVE  mem'[a] = CellAtStart(a)
    BY <1>2, <1>3 DEF UpperKept, CallerSaveOffset, CalleeSaveOffset
  <2>1. a \in Int
    BY CellFacts
  <2>2. a < from \/ from + 8 * Len(ws) <= a
    <3>1. a < s \/ s + 8 * m <= a
      BY <1>5, <2>1
    <3>2. Len(ws) \in Nat /\ Len(ws) <= m
      BY <1>7
    <3> QED BY <1>6, <2>1, <3>1, <3>2
  <2>3. mem'[a] = mem[a]
    BY <1>2, <1>4, <1>6, <1>7, <2>1, <2>2, StoredApart
  <2> QED BY <1>1, <1>2, <2>3 DEF UpperKept
<1>10. WordsSaved'
  <2> SUFFICES ASSUME NEW k \in 1..Len(Saved)
               PROVE  mem'[CallerSaveOffset(caller) + 8 * (k - 1)] = RegAtStart(Saved[k])
    BY <1>2, <1>3 DEF WordsSaved, CallerSaveOffset
  <2>1. CallerSaveOffset(caller) + 8 * (k - 1) = from + 8 * (k - 1)
    BY <1>5, <1>6
  <2>2. from + 8 * (k - 1) \in DOMAIN mem
    BY <1>1, <1>4, <2>1, SaveArea
  <2>3. mem'[from + 8 * (k - 1)] = ws[k]
    BY <1>2, <1>6, <1>7, <2>2, StoredWord
  <2>4. Saved[k] \in Regs
    BY <1>7 DEF CallerToSave, Regs
  <2> QED BY <1>4, <1>7, <2>1, <2>3, <2>4
<1>11. RegsKept'
  BY <1>1, <1>2, <1>3 DEF RegsKept
<1> QED
  BY <1>2, <1>3, <1>8, <1>9, <1>10, <1>11 DEF IInv, Linked, FrameWords, InFrame, Passed, Survive

\* Until the call, an argument is read where it was placed.
LEMMA ArgRead ==
  ASSUME CallerInputs, CalleeInputs, UpperKept, RegsKept, sp = 0,
         pc \in {"stack_args", "reg_args"}, NEW k \in 1..Len(args)
  PROVE  ArgValue(args[k]) = Given(args[k])
<1>1. DOMAIN args = 1..Len(args) /\ DOMAIN callee.params = 1..Len(args)
  BY CalleeFrame
<1>2. args[k] = <<"imm", 0>> \/ \E v \in VRegs : LiveBefore(v) /\ args[k] = <<"v", v>>
  BY <1>1 DEF CalleeInputs
<1>3. CASE args[k] = <<"imm", 0>>
  BY <1>3 DEF ArgValue, Given
<1>4. CASE \E v \in VRegs : LiveBefore(v) /\ args[k] = <<"v", v>>
  <2>1. PICK v \in VRegs : LiveBefore(v) /\ args[k] = <<"v", v>>
    BY <1>4
  <2>2. ArgValue(args[k]) = Read(place[v]) /\ Given(args[k]) = Held(v)
    BY <2>1 DEF ArgValue, Given
  <2>3. \A x : AtStart(place[v], x) = ValueAt(v)
    BY <2>1, HeldAtStart
  <2>4. ASSUME NEW r \in Regs, place[v] = InReg(r) PROVE Read(place[v]) = Held(v)
    <3>1. Read(place[v]) = RegAtStart(r)
      BY <2>4, ReadIs DEF RegsKept
    <3>2. RegAtStart(r) = ValueAt(v)
      BY <2>3, <2>4 DEF RegAtStart
    <3> QED BY <2>4, <3>1, <3>2 DEF Held, InReg
  <2>5. ASSUME NEW n \in Cells, place[v] = Spill(n), n \in Int, 0 <= n,
               n \notin CallerSaveOffset(caller)..CalleeSaveOffset(caller) - 1
        PROVE  Read(place[v]) = Held(v)
    <3>1. Read(place[v]) = mem[n]
      BY <2>5, ReadIs
    <3>2. mem[n] = CellAtStart(n)
      BY <2>5 DEF UpperKept
    <3>3. CellAtStart(n) = ValueAt(v)
      BY <2>3, <2>5 DEF CellAtStart
    <3> QED BY <2>5, <3>1, <3>2, <3>3 DEF Held, Spill
  <2>6. ASSUME NEW n \in Int, place[v] = Addr(n) PROVE Read(place[v]) = Held(v)
    BY <2>6, ReadIs DEF Held, Addr
  <2> QED BY <2>2, <2>4, <2>5, <2>6, Where
<1> QED BY <1>2, <1>3, <1>4

\* A word passed on the stack.
LEMMA ArgArea ==
  ASSUME CalleeInputs, NEW n, n = StackArgs(Len(args)), NEW k \in 1..n
  PROVE  LET a == -8 * n + 8 * (k - 1)
         IN a \in Cells /\ a \in Int /\ a < 0 /\ -8 * n <= a
<1> DEFINE a == -8 * n + 8 * (k - 1)
<1>1. n \in Nat /\ 8 * n <= 8 * Depth /\ Depth \in Nat
  BY CalleeFrame, RegistersAssumption
<1>2. a \in Int /\ a % 8 = 0 /\ -8 * n <= a /\ a < 0
  BY <1>1
<1>3. -8 * Depth <= a /\ a < 8 * Depth
  <2> HIDE DEF a
  <2> QED BY <1>1, <1>2
<1>4. a \in Cells
  <2> HIDE DEF a
  <2> QED BY <1>2, <1>3, CellFacts
<1> QED BY <1>2, <1>4

LEMMA StackArgsKeep == ASSUME IInv, PassStackArgs PROVE IInv'
<1> DEFINE n == StackArgs(Len(args))
           from == sp - 8 * n
           ws == [k \in 1..n |-> ArgValue(args[Len(ArgRegs) + k])]
<1>1. CallerInputs /\ CalleeInputs /\ Typed /\ UpperKept /\ WordsSaved /\ RegsKept
  BY DEF IInv
<1>2. /\ pc = "stack_args" /\ pc' = "reg_args" /\ mem' = Stored(mem, from, ws)
      /\ UNCHANGED input /\ regs' = regs /\ sp' = sp
  BY DEF PassStackArgs
<1>3. /\ CallerInputs' /\ CalleeInputs'
      /\ \A r : RegAtStart(r)' = RegAtStart(r)
      /\ \A a : CellAtStart(a)' = CellAtStart(a)
      /\ \A a : Given(a)' = Given(a)
      /\ Saved' = Saved /\ caller' = caller /\ callee' = callee /\ args' = args
  BY <1>1, <1>2, Rigid
<1>4. sp = 0 /\ DOMAIN mem = Cells
  BY <1>1, <1>2 DEF Typed, InFrame
<1>5. n \in Nat /\ Len(args) \in Nat
  BY <1>1, CalleeFrame
<1>6. Len(ws) = n /\ \A k \in 1..n : ws[k] = ArgValue(args[Len(ArgRegs) + k])
  BY <1>5
<1>7. from = -8 * n /\ from \in Int
  BY <1>4, <1>5
<1> HIDE DEF from, ws
<1>8. ASSUME NEW a \in Cells, a >= 0 PROVE mem'[a] = mem[a]
  <2>1. a \in Int /\ from + 8 * Len(ws) <= a
    BY <1>5, <1>6, <1>7, <1>8, CellFacts
  <2> QED BY <1>2, <1>4, <1>5, <1>6, <1>7, <2>1, StoredApart
<1>9. Typed'
  BY <1>1, <1>2, <1>3, StoredDomain DEF Typed, InFrame
<1>10. UpperKept'
  BY <1>1, <1>2, <1>3, <1>8 DEF UpperKept, CallerSaveOffset, CalleeSaveOffset
<1>11. WordsSaved'
  BY <1>1, <1>2, <1>3, <1>8, SaveArea DEF WordsSaved, CallerSaveOffset
<1>12. RegsKept'
  BY <1>1, <1>2, <1>3 DEF RegsKept
<1>13. Passed'
  <2> SUFFICES ASSUME NEW k \in 1..n
               PROVE  mem'[-8 * n + 8 * (k - 1)] = Given(args[Len(ArgRegs) + k])
    BY <1>2, <1>3 DEF Passed
  <2>1. -8 * n + 8 * (k - 1) = from + 8 * (k - 1)
    BY <1>7
  <2>2. from + 8 * (k - 1) \in DOMAIN mem
    BY <1>1, <1>4, <2>1, ArgArea
  <2>3. mem'[from + 8 * (k - 1)] = ws[k]
    BY <1>2, <1>5, <1>6, <1>7, <2>2, StoredWord
  <2>4. Len(ArgRegs) + k \in 1..Len(args)
    BY <1>5, ArgCount DEF StackArgs
  <2>5. ArgValue(args[Len(ArgRegs) + k]) = Given(args[Len(ArgRegs) + k])
    BY <1>1, <1>2, <1>4, <2>4, ArgRead
  <2> QED BY <1>6, <2>1, <2>3, <2>5
<1> QED
  BY <1>2, <1>3, <1>9, <1>10, <1>11, <1>12, <1>13 DEF IInv, Linked, FrameWords, InFrame, Survive

LEMMA ArgRegsFacts ==
  /\ \A k \in DOMAIN ArgRegs : ArgRegs[k] \in CallerSaved /\ ArgRegs[k] \in Regs /\ ArgRegs[k] # ra
  /\ \A j, k \in DOMAIN ArgRegs : ArgRegs[j] = ArgRegs[k] => j = k
  /\ \A k \in DOMAIN ArgRegs : (CHOOSE j \in DOMAIN ArgRegs : ArgRegs[j] = ArgRegs[k]) = k
  /\ \A r \in CalleeSaved : r \in Regs /\ r # ra /\ r \notin CallerSaved
  /\ 1 \in DOMAIN ArgRegs
<1>1. \A k \in DOMAIN ArgRegs : ArgRegs[k] \in CallerSaved /\ ArgRegs[k] \in Regs /\ ArgRegs[k] # ra
  BY RegistersAssumption DEF Regs
<1>2. \A j, k \in DOMAIN ArgRegs : ArgRegs[j] = ArgRegs[k] => j = k
  BY RegistersAssumption DEF IsInjective
<1>3. \A k \in DOMAIN ArgRegs : (CHOOSE j \in DOMAIN ArgRegs : ArgRegs[j] = ArgRegs[k]) = k
  BY <1>2
<1>4. \A r \in CalleeSaved : r \in Regs /\ r # ra /\ r \notin CallerSaved
  BY RegistersAssumption DEF Regs
<1>5. 1 \in DOMAIN ArgRegs
  BY RegistersAssumption
<1> QED BY <1>1, <1>2, <1>3, <1>4, <1>5

LEMMA RegArgsKeep == ASSUME IInv, PassRegArgs PROVE IInv'
<1>1. CallerInputs /\ CalleeInputs /\ Typed /\ UpperKept /\ WordsSaved /\ RegsKept /\ Passed
  BY DEF IInv
<1>2. pc = "reg_args" /\ pc' = "call" /\ UNCHANGED input /\ mem' = mem /\ sp' = sp
  BY DEF PassRegArgs
<1>3. /\ CallerInputs' /\ CalleeInputs'
      /\ \A r : RegAtStart(r)' = RegAtStart(r)
      /\ \A a : CellAtStart(a)' = CellAtStart(a)
      /\ \A a : Given(a)' = Given(a)
      /\ Saved' = Saved /\ caller' = caller /\ callee' = callee /\ args' = args
  BY <1>1, <1>2, Rigid
<1>4. sp = 0 /\ DOMAIN regs = Regs \cup {ra} /\ DOMAIN args = 1..Len(args)
  BY <1>1, <1>2, CalleeFrame DEF Typed, InFrame
<1>5. ASSUME NEW r \in DOMAIN regs, \A k \in DOMAIN ArgRegs : ArgRegs[k] # r
      PROVE  regs'[r] = regs[r]
  BY <1>5 DEF PassRegArgs
<1>6. ASSUME NEW k \in DOMAIN args \cap DOMAIN ArgRegs
      PROVE  regs'[ArgRegs[k]] = Given(args[k])
  <2>1. ArgRegs[k] \in DOMAIN regs /\ (CHOOSE j \in DOMAIN ArgRegs : ArgRegs[j] = ArgRegs[k]) = k
    BY <1>4, ArgRegsFacts
  <2>2. regs'[ArgRegs[k]] = ArgValue(args[k])
    BY <2>1 DEF PassRegArgs
  <2> QED BY <1>1, <1>2, <1>4, <2>2, ArgRead
<1>7. DOMAIN regs' = DOMAIN regs
  BY DEF PassRegArgs
<1>8. Typed'
  BY <1>1, <1>2, <1>3, <1>7 DEF Typed, InFrame
<1>9. RegsKept'
  <2>1. ASSUME NEW r \in CalleeSaved PROVE regs'[r] = RegAtStart(r)
    <3>1. r \in Regs /\ \A k \in DOMAIN ArgRegs : ArgRegs[k] # r
      BY ArgRegsFacts
    <3> QED BY <1>1, <1>2, <1>4, <1>5, <3>1 DEF RegsKept
  <2> QED BY <1>2, <1>3, <2>1 DEF RegsKept
<1>10. UpperKept' /\ WordsSaved'
  BY <1>1, <1>2, <1>3 DEF UpperKept, WordsSaved, CallerSaveOffset, CalleeSaveOffset
<1>11. Passed'
  BY <1>1, <1>2, <1>3, <1>6 DEF Passed
<1> QED
  BY <1>2, <1>3, <1>8, <1>9, <1>10, <1>11 DEF IInv, Linked, FrameWords, InFrame, Survive

\* Without a frame, a function has nothing in it.
LEMMA NoFrame ==
  ASSUME CalleeInputs, FrameSize(callee) = 0
  PROVE  /\ callee.leaf /\ Len(callee.saved) = 0 /\ StackArgs(Len(args)) = 0
         /\ \A k \in DOMAIN args \cap DOMAIN ArgRegs : callee.params[k] = InReg(ArgRegs[k])
<1>0. PICK x \in Nat, c \in Nat, m \in Nat, s \in Nat :
        /\ x = CalleeSaveOffset(callee) /\ c = Len(callee.saved) /\ m = StackArgs(Len(args))
        /\ s = callee.spill /\ s <= x /\ ReturnAddrOffset(callee) = x + 8 * c
        /\ x + 8 * c + 8 * m <= 0 /\ (~callee.leaf => x + 8 * c + 8 + 8 * m <= 0)
  BY CalleeFrame
<1>1. callee.leaf /\ Len(callee.saved) = 0 /\ StackArgs(Len(args)) = 0
  <2>1. x + 8 * c + 8 * m <= 0 /\ (~callee.leaf => x + 8 * c + 8 + 8 * m <= 0)
    BY <1>0
  <2>2. c = 0 /\ m = 0 /\ ~(x + 8 * c + 8 + 8 * m <= 0)
    BY <2>1
  <2> QED BY <1>0, <2>1, <2>2
<1>2. callee.spill = 0
  <2>1. s <= x /\ x + 8 * c + 8 * m <= 0 /\ s = callee.spill
    BY <1>0
  <2>2. s = 0
    BY <2>1
  <2> QED BY <2>1, <2>2
<1>3. ASSUME NEW k \in DOMAIN args \cap DOMAIN ArgRegs
      PROVE  callee.params[k] = InReg(ArgRegs[k])
  <2>1. k \in DOMAIN callee.params \cap DOMAIN ArgRegs /\ IsFrame(callee)
    BY CalleeFrame
  <2>2. \/ callee.params[k] = InReg(ArgRegs[k])
        \/ \E n \in 0..callee.spill - 1 : n % 8 = 0 /\ callee.params[k] = Spill(n)
    BY <2>1 DEF IsFrame
  <2> QED BY <1>2, <2>2
<1> QED BY <1>1, <1>3

LEMMA CallKeeps == ASSUME IInv, Call PROVE IInv'
<1>1. CallerInputs /\ CalleeInputs /\ Typed /\ UpperKept /\ WordsSaved /\ RegsKept /\ Passed
  BY DEF IInv
<1>2. /\ pc = "call" /\ pc' = IF FrameSize(callee) > 0 THEN "push" ELSE "body"
      /\ UNCHANGED input /\ mem' = mem /\ sp' = sp /\ regs' = [regs EXCEPT ![ra] = BackToCaller]
  BY DEF Call
<1>3. /\ CallerInputs' /\ CalleeInputs'
      /\ \A r : RegAtStart(r)' = RegAtStart(r)
      /\ \A a : CellAtStart(a)' = CellAtStart(a)
      /\ \A a : Given(a)' = Given(a)
      /\ Saved' = Saved /\ caller' = caller /\ callee' = callee /\ args' = args
      /\ FrameSize(callee)' = FrameSize(callee)
  BY <1>1, <1>2, Rigid DEF FrameSize, RaArea, StackArgs
<1>4. sp = 0 /\ DOMAIN regs = Regs \cup {ra}
  BY <1>1, <1>2 DEF Typed, InFrame
<1>5. FrameSize(callee) \in Nat
  BY <1>1, CalleeFrame
<1>6. regs'[ra] = BackToCaller /\ \A r \in Regs : regs'[r] = regs[r]
  BY <1>2, <1>4, RegistersAssumption
<1>7. Typed'
  BY <1>1, <1>2, <1>3, <1>4, <1>5 DEF Typed, InFrame
<1>8. RegsKept'
  <2>1. ASSUME NEW r \in CalleeSaved PROVE regs'[r] = RegAtStart(r)
    BY <1>1, <1>2, <1>6, ArgRegsFacts DEF RegsKept
  <2> QED BY <1>2, <1>3, <2>1 DEF RegsKept
<1>9. UpperKept' /\ WordsSaved'
  BY <1>1, <1>2, <1>3 DEF UpperKept, WordsSaved, CallerSaveOffset, CalleeSaveOffset
<1>10. ASSUME NEW k \in DOMAIN args \cap DOMAIN ArgRegs
       PROVE  regs'[ArgRegs[k]] = Given(args[k])
  BY <1>1, <1>2, <1>6, ArgRegsFacts DEF Passed
<1>11. Passed'
  <2>1. pc' = "body" =>
          \A k \in DOMAIN args \cap DOMAIN ArgRegs : Read(callee.params[k])' = Given(args[k])
    <3> SUFFICES ASSUME pc' = "body", NEW k \in DOMAIN args \cap DOMAIN ArgRegs
                 PROVE  Read(callee.params[k])' = Given(args[k])
      OBVIOUS
    <3>1. callee'.params[k] = InReg(ArgRegs[k])
      BY <1>1, <1>2, <1>3, <1>5, NoFrame
    <3> QED BY <1>10, <3>1, ReadNext
  <2> QED BY <1>1, <1>2, <1>3, <1>10, <2>1 DEF Passed
<1>12. FrameWords' /\ Linked' /\ Survive'
  BY <1>2, <1>3, <1>5, <1>6 DEF FrameWords, InFrame, Linked, Survive
<1> QED BY <1>3, <1>7, <1>8, <1>9, <1>11, <1>12 DEF IInv

-----------------------------------------------------------------------------
(* The callee                                                              *)

\* The callee's frame and the stack, in words.
LEMMA Numbers ==
  ASSUME CalleeInputs
  PROVE  \E i, c, n, s, j, d \in Nat :
           /\ CalleeSaveOffset(callee) = 8 * i /\ Len(callee.saved) = c
           /\ StackArgs(Len(args)) = n /\ callee.spill = s /\ FrameSize(callee) = 8 * j
           /\ ReturnAddrOffset(callee) = 8 * (i + c) /\ Depth = d
           /\ s <= 8 * i /\ j <= d /\ i + c + n <= j /\ (~callee.leaf => i + c + 1 + n <= j)
<1>1. PICK d \in Nat : d = Depth
  BY DepthNat
<1>2. PICK z \in Nat : z = FrameSize(callee) /\ z % 16 = 0 /\ z <= 8 * d
  BY <1>1, CalleeFrame
<1>3. PICK x \in Nat : x = CalleeSaveOffset(callee) /\ x % 8 = 0
  BY CalleeFrame
<1>4. PICK c, n, s \in Nat : c = Len(callee.saved) /\ n = StackArgs(Len(args)) /\ s = callee.spill
  BY CalleeFrame
<1>5. /\ ReturnAddrOffset(callee) = x + 8 * c /\ s <= x
      /\ x + 8 * c + 8 * n <= z /\ (~callee.leaf => x + 8 * c + 8 + 8 * n <= z)
  BY <1>2, <1>3, <1>4, CalleeFrame
<1>6. PICK i \in Nat : x = 8 * i
  <2>1. x \div 8 \in Nat /\ x = 8 * (x \div 8)
    BY <1>3
  <2> QED BY <2>1
<1>7. PICK j \in Nat : z = 8 * j
  <2>1. z \div 8 \in Nat /\ z = 8 * (z \div 8)
    BY <1>2
  <2> QED BY <2>1
<1>8. /\ j <= d /\ i + c + n <= j /\ (~callee.leaf => i + c + 1 + n <= j)
      /\ ReturnAddrOffset(callee) = 8 * (i + c)
  BY <1>2, <1>5, <1>6, <1>7
<1>9. s <= 8 * i /\ CalleeSaveOffset(callee) = 8 * i /\ FrameSize(callee) = 8 * j
  BY <1>2, <1>3, <1>5, <1>6, <1>7
<1> QED BY <1>1, <1>4, <1>8, <1>9

LEMMA WordIsCell ==
  ASSUME NEW w \in Int, -Depth <= w, w < Depth
  PROVE  8 * w \in Cells /\ 8 * w \in Int
<1>1. w \in -Depth..Depth - 1
  BY DepthNat
<1> QED BY <1>1 DEF Cells

LEMMA PushKeeps == ASSUME IInv, Push PROVE IInv'
<1>1. CallerInputs /\ CalleeInputs /\ Typed /\ UpperKept /\ WordsSaved /\ RegsKept /\ Linked
        /\ Passed
  BY DEF IInv
<1>2. /\ pc = "push" /\ pc' = "params" /\ UNCHANGED input /\ regs' = regs
      /\ sp' = sp - FrameSize(callee)
  BY DEF Push
<1>3. /\ CallerInputs' /\ CalleeInputs'
      /\ \A r : RegAtStart(r)' = RegAtStart(r)
      /\ \A a : CellAtStart(a)' = CellAtStart(a)
      /\ \A a : Given(a)' = Given(a)
      /\ Saved' = Saved /\ caller' = caller /\ callee' = callee /\ args' = args
      /\ FrameSize(callee)' = FrameSize(callee)
  BY <1>1, <1>2, Rigid DEF FrameSize, RaArea, StackArgs
<1>4. /\ sp = 0 /\ DOMAIN mem = Cells /\ DOMAIN regs = Regs \cup {ra}
      /\ regs[ra] = BackToCaller /\ \A r \in CalleeSaved : regs[r] = RegAtStart(r)
  BY <1>1, <1>2 DEF Typed, InFrame, Linked, RegsKept
<1>5. PICK i, c, n, s, j, d \in Nat :
        /\ CalleeSaveOffset(callee) = 8 * i /\ Len(callee.saved) = c
        /\ StackArgs(Len(args)) = n /\ callee.spill = s /\ FrameSize(callee) = 8 * j
        /\ ReturnAddrOffset(callee) = 8 * (i + c) /\ Depth = d
        /\ s <= 8 * i /\ j <= d /\ i + c + n <= j /\ (~callee.leaf => i + c + 1 + n <= j)
  BY <1>1, Numbers
<1> DEFINE from == sp' + CalleeSaveOffset(callee)
           top == sp' + ReturnAddrOffset(callee)
           ws == Contents(callee.saved)
           kept == Stored(mem, from, ws)
<1>6. mem' = IF callee.leaf THEN kept ELSE Stored(kept, top, <<regs[ra]>>)
  BY DEF Push
<1>7. from = 8 * (i - j) /\ top = 8 * (i + c - j) /\ from \in Int /\ top \in Int
  <2>1. sp' = -(8 * j)
    BY <1>2, <1>4, <1>5
  <2>2. CalleeSaveOffset(callee) = 8 * i /\ ReturnAddrOffset(callee) = 8 * (i + c)
    BY <1>5
  <2> QED BY <2>1, <2>2
<1>8. /\ Len(ws) = c /\ \A k \in 1..c : ws[k] = regs[callee.saved[k]]
      /\ \A k \in 1..c : callee.saved[k] \in CalleeSaved
  <2>1. callee.saved \in Seq(CalleeSaved)
    BY <1>1, CalleeFrame
  <2> QED BY <1>5, <2>1, ContentsAre
<1> HIDE DEF from, top, ws
<1>9. DOMAIN kept = Cells
  BY <1>4, StoredDomain
<1>10. ASSUME NEW a \in Cells, a < from \/ from + 8 * c <= a
       PROVE  kept[a] = mem[a]
  BY <1>4, <1>7, <1>8, <1>10, CellFacts, StoredApart
<1>11. ASSUME NEW k \in 1..c
       PROVE  /\ from + 8 * (k - 1) \in Cells /\ from + 8 * (k - 1) < top
              /\ kept[from + 8 * (k - 1)] = regs[callee.saved[k]]
  <2>1. from + 8 * (k - 1) = 8 * (i - j + k - 1)
    BY <1>7
  <2>2. -d <= i - j + k - 1 /\ i - j + k - 1 < d /\ i - j + k - 1 < i + c - j
    BY <1>5
  <2>3. from + 8 * (k - 1) \in Cells
    <3>1. i - j + k - 1 \in Int
      OBVIOUS
    <3> QED BY <1>5, <2>1, <2>2, <3>1, WordIsCell
  <2>4. kept[from + 8 * (k - 1)] = ws[k]
    BY <1>4, <1>7, <1>8, <2>3, StoredWord
  <2> QED BY <1>7, <1>8, <2>1, <2>2, <2>3, <2>4
<1> HIDE DEF kept
<1>12. ASSUME NEW a \in Cells, a < top \/ callee.leaf \/ top + 8 <= a
       PROVE  mem'[a] = kept[a]
  <2>1. CASE callee.leaf
    BY <1>6, <2>1
  <2>2. CASE ~callee.leaf
    <3> DEFINE one == <<regs[ra]>>
    <3>1. Len(one) = 1
      OBVIOUS
    <3> HIDE DEF one
    <3>2. a \in Int /\ Len(one) \in Nat /\ (a < top \/ top + 8 * Len(one) <= a)
      BY <1>12, <2>2, <3>1, CellFacts
    <3>3. Stored(kept, top, one)[a] = kept[a]
      BY <1>7, <1>9, <3>2, StoredApart
    <3> QED BY <1>6, <2>2, <3>3 DEF one
  <2> QED BY <2>1, <2>2
<1>13. ~callee.leaf => mem'[top] = BackToCaller
  <2> SUFFICES ASSUME ~callee.leaf PROVE mem'[top] = BackToCaller
    OBVIOUS
  <2>1. top \in Cells
    <3>1. i + c - j \in Int /\ -d <= i + c - j /\ i + c - j < d
      BY <1>5
    <3> QED BY <1>5, <1>7, <3>1, WordIsCell
  <2>2. top + 8 * (1 - 1) = top
    BY <1>7
  <2>3. Stored(kept, top, <<regs[ra]>>)[top + 8 * (1 - 1)] = <<regs[ra]>>[1]
    <3> DEFINE one == <<regs[ra]>>
    <3>1. Len(one) \in Nat /\ 1 \in 1..Len(one)
      OBVIOUS
    <3> HIDE DEF one
    <3>2. Stored(kept, top, one)[top + 8 * (1 - 1)] = one[1]
      BY <1>7, <1>9, <2>1, <2>2, <3>1, StoredWord
    <3> QED BY <3>2 DEF one
  <2> QED BY <1>4, <1>6, <2>2, <2>3
<1>14. ASSUME NEW a \in Cells, -8 * n <= a PROVE mem'[a] = mem[a]
  <2>1. a \in Int
    BY CellFacts
  <2>2. from + 8 * c = 8 * (i + c - j) /\ i + c - j <= -n /\ (~callee.leaf => i + c - j + 1 <= -n)
    BY <1>5, <1>7
  <2>3. from + 8 * c <= a /\ (~callee.leaf => top + 8 <= a)
    BY <1>7, <1>14, <2>1, <2>2
  <2>4. mem'[a] = kept[a]
    BY <1>12, <2>3
  <2> QED BY <1>10, <2>3, <2>4
<1>15. \A a \in Cells : a >= 0 => mem'[a] = mem[a]
  <2>1. \A a \in Cells : a >= 0 => -8 * n <= a
    BY CellFacts
  <2> QED BY <1>14, <2>1
<1>16. Typed'
  <2>1. DOMAIN mem' = Cells
    BY <1>6, <1>9, StoredDomain
  <2> QED BY <1>1, <1>2, <1>3, <1>4, <2>1, CalleeFrame DEF Typed, InFrame
<1>17. UpperKept' /\ WordsSaved'
  BY <1>1, <1>2, <1>3, <1>15, SaveArea DEF UpperKept, WordsSaved, CallerSaveOffset, CalleeSaveOffset
<1>18. RegsKept' /\ Linked'
  BY <1>1, <1>2, <1>3, <1>4 DEF RegsKept, Linked
<1>19. Passed'
  <2>1. ASSUME NEW k \in 1..n
        PROVE  mem'[-8 * n + 8 * (k - 1)] = Given(args[Len(ArgRegs) + k])
    <3>1. -8 * n + 8 * (k - 1) \in Cells /\ -8 * n <= -8 * n + 8 * (k - 1)
      BY <1>1, <1>5, ArgArea
    <3>2. mem[-8 * n + 8 * (k - 1)] = Given(args[Len(ArgRegs) + k])
      BY <1>1, <1>2, <1>5 DEF Passed
    <3> QED BY <1>14, <3>1, <3>2
  <2>2. StackArgs(Len(args)) = n
    BY <1>5
  <2> QED BY <1>1, <1>2, <1>3, <2>1, <2>2 DEF Passed
<1>20. FrameWords'
  <2>1. ASSUME NEW k \in 1..c
        PROVE  mem'[from + 8 * (k - 1)] = RegAtStart(callee.saved[k])
    <3>1. mem'[from + 8 * (k - 1)] = kept[from + 8 * (k - 1)]
      BY <1>11, <1>12
    <3> QED BY <1>4, <1>8, <1>11, <3>1
  <2>2. CalleeSaveOffset(callee)' = CalleeSaveOffset(callee)
        /\ ReturnAddrOffset(callee)' = ReturnAddrOffset(callee)
    BY <1>3 DEF CalleeSaveOffset, ReturnAddrOffset, CallerSaveOffset
  <2>3. Len(callee.saved) = c
    BY <1>5
  <2> QED BY <1>3, <1>13, <2>1, <2>2, <2>3 DEF FrameWords, from, top
<1> QED BY <1>2, <1>3, <1>16, <1>17, <1>18, <1>19, <1>20 DEF IInv, Survive

LEMMA ParamsKeep == ASSUME IInv, MoveParams PROVE IInv'
<1> DEFINE moved == {k \in DOMAIN callee.params : k <= Len(ArgRegs)}
           source(p) == regs[ArgRegs[CHOOSE k \in moved : ParamPlace(callee, k) = p]]
           places == {ParamPlace(callee, k) : k \in moved}
<1>1. /\ CallerInputs /\ CalleeInputs /\ Typed /\ UpperKept /\ WordsSaved /\ RegsKept /\ Linked
      /\ FrameWords /\ Passed
  BY DEF IInv
<1>2. /\ pc = "params" /\ pc' = "body" /\ UNCHANGED input /\ sp' = sp
      /\ regs' = [r \in DOMAIN regs |-> IF InReg(r) \in places THEN source(InReg(r)) ELSE regs[r]]
      /\ mem' = [a \in Cells |-> IF Spill(a - sp) \in places THEN source(Spill(a - sp)) ELSE mem[a]]
  BY DEF MoveParams
<1>3. /\ CallerInputs' /\ CalleeInputs'
      /\ \A r : RegAtStart(r)' = RegAtStart(r)
      /\ \A a : CellAtStart(a)' = CellAtStart(a)
      /\ \A a : Given(a)' = Given(a)
      /\ Saved' = Saved /\ caller' = caller /\ callee' = callee /\ args' = args
      /\ FrameSize(callee)' = FrameSize(callee)
  BY <1>1, <1>2, Rigid DEF FrameSize, RaArea, StackArgs
<1>4. PICK i, c, n, s, j, d \in Nat :
        /\ CalleeSaveOffset(callee) = 8 * i /\ Len(callee.saved) = c
        /\ StackArgs(Len(args)) = n /\ callee.spill = s /\ FrameSize(callee) = 8 * j
        /\ ReturnAddrOffset(callee) = 8 * (i + c) /\ Depth = d
        /\ s <= 8 * i /\ j <= d /\ i + c + n <= j /\ (~callee.leaf => i + c + 1 + n <= j)
  BY <1>1, Numbers
<1>5. sp = 8 * (0 - j) /\ DOMAIN regs = Regs \cup {ra} /\ DOMAIN mem = Cells
        /\ FrameSize(callee) > 0
  <2>1. sp = -FrameSize(callee) /\ DOMAIN regs = Regs \cup {ra} /\ DOMAIN mem = Cells
        /\ FrameSize(callee) > 0
    BY <1>1, <1>2 DEF Typed, InFrame
  <2> QED BY <1>4, <2>1
<1>6. /\ moved = DOMAIN args \cap DOMAIN ArgRegs
      /\ \A k \in moved : k \in DOMAIN callee.params \cap DOMAIN ArgRegs
      /\ \A k \in moved : ParamPlace(callee, k) = callee.params[k]
  <2>1. DOMAIN args = 1..Len(args) /\ DOMAIN callee.params = 1..Len(args) /\ Len(args) \in Nat
    BY <1>1, CalleeFrame
  <2>2. moved = DOMAIN args \cap DOMAIN ArgRegs
    BY <2>1, ArgCount
  <2>3. \A k \in moved : ParamPlace(callee, k) = callee.params[k]
    BY DEF ParamPlace
  <2> QED BY <2>1, <2>2, <2>3
<1>7. ASSUME NEW k \in moved
      PROVE  /\ \/ callee.params[k] = InReg(ArgRegs[k])
                \/ \E m \in 0..s - 1 : m % 8 = 0 /\ callee.params[k] = Spill(m)
             /\ source(callee.params[k]) = regs[ArgRegs[k]]
  <2>1. IsFrame(callee) /\ k \in DOMAIN callee.params \cap DOMAIN ArgRegs
    BY <1>1, <1>6, CalleeFrame
  <2>2. \/ callee.params[k] = InReg(ArgRegs[k])
        \/ \E m \in 0..s - 1 : m % 8 = 0 /\ callee.params[k] = Spill(m)
    BY <1>4, <2>1 DEF IsFrame
  <2>3. \A l \in moved : callee.params[l] = callee.params[k] => l = k
    BY <1>6, <2>1 DEF IsFrame
  <2>4. (CHOOSE l \in moved : ParamPlace(callee, l) = callee.params[k]) = k
    <3> HIDE DEF moved
    <3> QED BY <1>6, <2>3
  <2> QED BY <2>2, <2>4
<1>8. \A p \in places : \E k \in moved : p = callee.params[k]
  <2> HIDE DEF moved
  <2> QED BY <1>6
<1>9. \A k \in moved : callee.params[k] \in places
  <2> HIDE DEF moved
  <2> QED BY <1>6
<1> HIDE DEF moved, source, places
<1>10. ASSUME NEW r, r \in CalleeSaved \/ r = ra PROVE regs'[r] = regs[r]
  <2>1. r \in DOMAIN regs /\ \A k \in DOMAIN ArgRegs : ArgRegs[k] # r
    BY <1>5, <1>10, ArgRegsFacts
  <2>2. InReg(r) \notin places
    <3> SUFFICES ASSUME InReg(r) \in places PROVE FALSE
      OBVIOUS
    <3>1. PICK k \in moved : InReg(r) = callee.params[k]
      BY <1>8
    <3>2. callee.params[k] = InReg(ArgRegs[k])
      BY <1>7, <3>1 DEF InReg, Spill
    <3> QED BY <1>6, <2>1, <3>1, <3>2 DEF InReg
  <2> QED BY <1>2, <2>1, <2>2
<1>11. ASSUME NEW a \in Cells, a - sp \notin 0..s - 1 PROVE mem'[a] = mem[a]
  <2>1. Spill(a - sp) \notin places
    <3> SUFFICES ASSUME Spill(a - sp) \in places PROVE FALSE
      OBVIOUS
    <3>1. PICK k \in moved : Spill(a - sp) = callee.params[k]
      BY <1>8
    <3>2. PICK m \in 0..s - 1 : callee.params[k] = Spill(m)
      BY <1>7, <3>1 DEF InReg, Spill
    <3> QED BY <1>11, <3>1, <3>2 DEF Spill
  <2> QED BY <1>2, <2>1
<1>12. ASSUME NEW a \in Cells, -8 * n <= a PROVE mem'[a] = mem[a]
  <2>1. a \in Int
    BY CellFacts
  <2>2. s <= 8 * j - 8 * n
    BY <1>4
  <2>3. a - sp \notin 0..s - 1
    BY <1>5, <1>12, <2>1, <2>2
  <2> QED BY <1>11, <2>3
<1>13. \A a \in Cells : a >= 0 => mem'[a] = mem[a]
  <2>1. \A a \in Cells : a >= 0 => -8 * n <= a
    BY CellFacts
  <2> QED BY <1>12, <2>1
<1>14. Typed'
  <2>1. DOMAIN mem' = Cells /\ DOMAIN regs' = DOMAIN regs
    BY <1>2
  <2> QED BY <1>1, <1>2, <1>3, <1>5, <2>1 DEF Typed, InFrame
<1>15. UpperKept' /\ WordsSaved'
  BY <1>1, <1>2, <1>3, <1>13, SaveArea DEF UpperKept, WordsSaved, CallerSaveOffset, CalleeSaveOffset
<1>16. RegsKept' /\ Linked'
  BY <1>1, <1>2, <1>3, <1>10 DEF RegsKept, Linked
<1>17. FrameWords'
  <2>1. ASSUME NEW k \in 1..c
        PROVE  mem'[sp + 8 * i + 8 * (k - 1)] = RegAtStart(callee.saved[k])
    <3>1. sp + 8 * i + 8 * (k - 1) = 8 * (i - j + k - 1)
      BY <1>5
    <3>2. 8 * (i - j + k - 1) \in Cells
      <4>1. i - j + k - 1 \in Int /\ -d <= i - j + k - 1 /\ i - j + k - 1 < d
        BY <1>4
      <4> QED BY <1>4, <4>1, WordIsCell
    <3>3. 8 * (i - j + k - 1) - sp \notin 0..s - 1
      BY <1>4, <1>5
    <3>4. mem[sp + 8 * i + 8 * (k - 1)] = RegAtStart(callee.saved[k])
      BY <1>1, <1>2, <1>4 DEF FrameWords, InFrame
    <3> QED BY <1>11, <3>1, <3>2, <3>3, <3>4
  <2>2. ~callee.leaf => mem'[sp + 8 * (i + c)] = BackToCaller
    <3> SUFFICES ASSUME ~callee.leaf PROVE mem'[sp + 8 * (i + c)] = BackToCaller
      OBVIOUS
    <3>1. sp + 8 * (i + c) = 8 * (i + c - j)
      BY <1>5
    <3>2. 8 * (i + c - j) \in Cells
      <4>1. i + c - j \in Int /\ -d <= i + c - j /\ i + c - j < d
        BY <1>4
      <4> QED BY <1>4, <4>1, WordIsCell
    <3>3. 8 * (i + c - j) - sp \notin 0..s - 1
      BY <1>4, <1>5
    <3>4. mem[sp + 8 * (i + c)] = BackToCaller
      BY <1>1, <1>2, <1>4 DEF FrameWords, InFrame
    <3> QED BY <1>11, <3>1, <3>2, <3>3, <3>4
  <2>3. CalleeSaveOffset(callee)' = 8 * i /\ ReturnAddrOffset(callee)' = 8 * (i + c)
    BY <1>3, <1>4 DEF CalleeSaveOffset, ReturnAddrOffset, CallerSaveOffset
  <2>4. Len(callee.saved) = c
    BY <1>4
  <2> QED BY <1>2, <1>3, <2>1, <2>2, <2>3, <2>4 DEF FrameWords
<1>18. ASSUME NEW k \in moved PROVE Read(callee.params[k])' = Given(args[k])
  <2>1. regs[ArgRegs[k]] = Given(args[k])
    BY <1>1, <1>2, <1>6 DEF Passed
  <2>2. CASE callee.params[k] = InReg(ArgRegs[k])
    <3>1. ArgRegs[k] \in DOMAIN regs
      BY <1>5, <1>6, ArgRegsFacts
    <3>2. regs'[ArgRegs[k]] = source(InReg(ArgRegs[k]))
      BY <1>2, <1>9, <2>2, <3>1
    <3> QED BY <1>3, <1>7, <2>1, <2>2, <3>2, ReadNext
  <2>3. CASE \E m \in 0..s - 1 : m % 8 = 0 /\ callee.params[k] = Spill(m)
    <3>1. PICK m \in 0..s - 1 : m % 8 = 0 /\ callee.params[k] = Spill(m)
      BY <2>3
    <3>2. PICK w \in Int : m = 8 * w
      <4>1. m \div 8 \in Int /\ m = 8 * (m \div 8)
        BY <3>1
      <4> QED BY <4>1
    <3>3. sp + m = 8 * (w - j) /\ w - j \in Int
      BY <1>5, <3>2
    <3>4. -d <= w - j /\ w - j < d
      <4>1. 0 <= 8 * w /\ 8 * w < 8 * i
        BY <1>4, <3>1, <3>2
      <4>2. 0 <= w /\ w < i
        BY <4>1
      <4> QED BY <1>4, <4>2
    <3>5. sp + m \in Cells
      BY <1>4, <3>3, <3>4, WordIsCell
    <3>6. Spill((sp + m) - sp) = Spill(m)
      <4>1. sp \in Int /\ m \in Int
        BY <1>4, <1>5
      <4>2. (sp + m) - sp = m
        BY <4>1
      <4> QED BY <4>2
    <3>7. Spill((sp + m) - sp) \in places
      BY <1>9, <3>1, <3>6
    <3>8. mem'[sp + m] = source(Spill((sp + m) - sp))
      <4>1. \A a \in Cells : Spill(a - sp) \in places => mem'[a] = source(Spill(a - sp))
        BY <1>2, Zenon
      <4> QED BY <3>5, <3>7, <4>1, Zenon
    <3>9. mem'[sp + m] = source(callee.params[k])
      BY <3>1, <3>6, <3>8
    <3>10. sp' = sp /\ callee' = callee /\ args' = args
      BY <1>2, <1>3
    <3>11. Read(callee.params[k])' = mem'[sp' + m]
      BY <3>1, <3>10, ReadNext
    <3>12. Read(callee.params[k])' = source(callee.params[k])
      BY <3>9, <3>10, <3>11
    <3> QED BY <1>3, <1>7, <2>1, <3>12
  <2> QED BY <1>7, <2>2, <2>3
<1>19. Passed'
  <2>1. ASSUME NEW k \in 1..n
        PROVE  mem'[-8 * n + 8 * (k - 1)] = Given(args[Len(ArgRegs) + k])
    <3>1. -8 * n + 8 * (k - 1) \in Cells /\ -8 * n <= -8 * n + 8 * (k - 1)
      BY <1>1, <1>4, ArgArea
    <3>2. mem[-8 * n + 8 * (k - 1)] = Given(args[Len(ArgRegs) + k])
      BY <1>1, <1>2, <1>4 DEF Passed
    <3> QED BY <1>12, <3>1, <3>2
  <2>2. StackArgs(Len(args)) = n
    BY <1>4
  <2> QED BY <1>1, <1>2, <1>3, <1>6, <1>18, <2>1, <2>2 DEF Passed
<1> QED BY <1>2, <1>3, <1>14, <1>15, <1>16, <1>17, <1>19 DEF IInv, Survive

\* The cells the body leaves alone.
LEMMA Spared ==
  ASSUME CalleeInputs, sp = -FrameSize(callee), NEW a \in Cells,
         \/ a >= 0
         \/ a - sp \in CalleeSaveOffset(callee)..LocalVarOffset(callee) - 1
  PROVE  ~MayWriteCell(a)
<1> SUFFICES ASSUME MayWriteCell(a) PROVE FALSE
  OBVIOUS
<1>1. IsFrame(callee) /\ a \in Int /\ sp \in Int
  BY CalleeFrame, CellFacts
<1>2. /\ a - sp \notin CalleeSaveOffset(callee)..LocalVarOffset(callee) - 1
      /\ a - sp < SpillArgsOffset(callee)
      /\ SpillArgsOffset(callee) <= FrameSize(callee)
  BY <1>1, BodySparesSavedWords
<1>3. SpillArgsOffset(callee) \in Int /\ FrameSize(callee) \in Nat
  BY CalleeFrame DEF SpillArgsOffset
<1>4. a - sp < FrameSize(callee)
  BY <1>1, <1>2, <1>3
<1> QED BY <1>1, <1>2, <1>3, <1>4

LEMMA BodyKeeps == ASSUME IInv, Body PROVE IInv'
<1>1. /\ CallerInputs /\ CalleeInputs /\ Typed /\ UpperKept /\ WordsSaved /\ RegsKept /\ Linked
      /\ FrameWords
  BY DEF IInv
<1>2. /\ pc = "body" /\ pc' = IF FrameSize(callee) > 0 THEN "pop" ELSE "return"
      /\ UNCHANGED input /\ sp' = sp
      /\ mem' = [a \in Cells |-> IF MayWriteCell(a) THEN Junk ELSE mem[a]]
  BY DEF Body
<1>3. /\ CallerInputs' /\ CalleeInputs'
      /\ \A r : RegAtStart(r)' = RegAtStart(r)
      /\ \A a : CellAtStart(a)' = CellAtStart(a)
      /\ Saved' = Saved /\ caller' = caller /\ callee' = callee /\ args' = args
      /\ FrameSize(callee)' = FrameSize(callee)
  BY <1>1, <1>2, Rigid DEF FrameSize, RaArea, StackArgs
<1>4. PICK i, c, n, s, j, d \in Nat :
        /\ CalleeSaveOffset(callee) = 8 * i /\ Len(callee.saved) = c
        /\ StackArgs(Len(args)) = n /\ callee.spill = s /\ FrameSize(callee) = 8 * j
        /\ ReturnAddrOffset(callee) = 8 * (i + c) /\ Depth = d
        /\ s <= 8 * i /\ j <= d /\ i + c + n <= j /\ (~callee.leaf => i + c + 1 + n <= j)
  BY <1>1, Numbers
<1>5. sp = -FrameSize(callee) /\ sp = 8 * (0 - j) /\ DOMAIN regs = Regs \cup {ra} /\ DOMAIN mem
        = Cells
  <2>1. DOMAIN regs = Regs \cup {ra} /\ DOMAIN mem = Cells
    BY <1>1 DEF Typed
  <2>2. sp = IF FrameSize(callee) > 0 THEN -FrameSize(callee) ELSE 0
    BY <1>1, <1>2 DEF Typed, InFrame
  <2>3. FrameSize(callee) \in Nat
    BY <1>1, CalleeFrame
  <2>4. sp = -FrameSize(callee)
    BY <2>2, <2>3
  <2> QED BY <1>4, <2>1, <2>4
<1>6. \A a \in Cells : ~MayWriteCell(a) => mem'[a] = mem[a]
  BY <1>2
<1>7. \A a \in Cells : a >= 0 => mem'[a] = mem[a]
  BY <1>1, <1>5, <1>6, Spared
<1>8. DOMAIN regs' = DOMAIN regs /\ regs'[ArgRegs[1]] = Result
  <2>1. /\ ArgRegs[1] \in DOMAIN regs /\ ArgRegs[1] # ra
        /\ \A r \in CalleeSaved : r # ArgRegs[1]
    BY <1>5, ArgRegsFacts
  <2>2. ArgRegs[1] \notin Range(callee.saved)
    <3>1. callee.saved \in Seq(CalleeSaved)
      BY <1>1, CalleeFrame
    <3> QED BY <2>1, <3>1 DEF Range
  <2>3. PICK g : g = ArgRegs[1]
    OBVIOUS
  <2>4. regs'[g] = Result
    BY <2>1, <2>2, <2>3 DEF Body
  <2>5. DOMAIN regs' = DOMAIN regs
    BY DEF Body
  <2> QED BY <2>3, <2>4, <2>5
<1>9. callee.leaf => regs'[ra] = regs[ra]
  <2> SUFFICES ASSUME callee.leaf PROVE regs'[ra] = regs[ra]
    OBVIOUS
  <2>1. ra \in DOMAIN regs /\ ra # ArgRegs[1] /\ ra \notin CallerSaved
    BY <1>5, ArgRegsFacts, RegistersAssumption DEF Regs
  <2>2. ra \notin Range(callee.saved)
    <3>1. callee.saved \in Seq(CalleeSaved)
      BY <1>1, CalleeFrame
    <3> QED BY <3>1, ArgRegsFacts DEF Range
  <2> QED BY <2>1, <2>2 DEF Body
<1>10. ASSUME NEW r \in CalleeSaved, \A k \in 1..c : callee.saved[k] # r
       PROVE  regs'[r] = regs[r]
  <2>1. r \in DOMAIN regs /\ r # ra /\ r \notin CallerSaved /\ r # ArgRegs[1]
    BY <1>5, ArgRegsFacts
  <2>2. r \notin Range(callee.saved)
    <3>1. callee.saved \in Seq(CalleeSaved)
      BY <1>1, CalleeFrame
    <3> QED BY <1>4, <1>10, <3>1 DEF Range
  <2> QED BY <2>1, <2>2 DEF Body
<1>11. FrameSize(callee) = 0 => callee.leaf /\ c = 0
  BY <1>1, <1>4, NoFrame
<1>12. FrameSize(callee) \in Nat
  BY <1>1, CalleeFrame
<1>13. Typed'
  BY <1>1, <1>2, <1>3, <1>5, <1>8, <1>12 DEF Typed, InFrame
<1>14. UpperKept' /\ WordsSaved'
  BY <1>1, <1>2, <1>3, <1>7, SaveArea DEF UpperKept, WordsSaved, CallerSaveOffset, CalleeSaveOffset
<1>15. RegsKept'
  <2>1. \A r \in CalleeSaved : regs[r] = RegAtStart(r)
    BY <1>1, <1>2 DEF RegsKept
  <2>2. ASSUME NEW r \in CalleeSaved, pc' = "pop"
                 => \A k \in 1..Len(callee.saved) : callee.saved[k] # r
        PROVE  regs'[r] = RegAtStart(r)
    <3>1. \A k \in 1..c : callee.saved[k] # r
      <4>1. CASE FrameSize(callee) = 0
        BY <1>11, <4>1
      <4>2. CASE FrameSize(callee) # 0
        BY <1>2, <1>4, <1>12, <2>2, <4>2
      <4> QED BY <4>1, <4>2
    <3> QED BY <1>10, <2>1, <3>1
  <2> QED BY <1>2, <1>3, <2>2 DEF RegsKept
<1>16. Linked'
  BY <1>1, <1>2, <1>3, <1>9, <1>11, <1>12 DEF Linked
<1>17. FrameWords'
  <2> SUFFICES ASSUME pc' = "pop" PROVE FrameWords'
    BY <1>2, <1>3, <1>12 DEF FrameWords, InFrame
  <2>0. FrameSize(callee) > 0 /\ InFrame
    BY <1>2 DEF InFrame
  <2>1. PICK v \in Nat : LocalVarOffset(callee) = 8 * (i + c) + v /\ (~callee.leaf => v = 8)
    <3>1. LocalVarOffset(callee) = 8 * (i + c) + RaArea(callee)
      BY <1>1, <1>4, CalleeFrame
    <3> QED BY <3>1 DEF RaArea
  <2>2. ASSUME NEW k \in 1..c
        PROVE  mem'[sp + 8 * i + 8 * (k - 1)] = RegAtStart(callee.saved[k])
    <3>1. sp + 8 * i + 8 * (k - 1) = 8 * (i - j + k - 1)
      BY <1>5
    <3>2. 8 * (i - j + k - 1) \in Cells
      <4>1. i - j + k - 1 \in Int /\ -d <= i - j + k - 1 /\ i - j + k - 1 < d
        BY <1>4
      <4> QED BY <1>4, <4>1, WordIsCell
    <3>3. 8 * (i - j + k - 1) - sp \in 8 * i..8 * (i + c) + v - 1
      BY <1>5
    <3>4. mem[sp + 8 * i + 8 * (k - 1)] = RegAtStart(callee.saved[k])
      BY <1>1, <1>4, <2>0 DEF FrameWords
    <3>5. ~MayWriteCell(8 * (i - j + k - 1))
      BY <1>1, <1>4, <1>5, <2>1, <3>2, <3>3, Spared
    <3> QED BY <1>6, <3>1, <3>2, <3>4, <3>5
  <2>3. ~callee.leaf => mem'[sp + 8 * (i + c)] = BackToCaller
    <3> SUFFICES ASSUME ~callee.leaf PROVE mem'[sp + 8 * (i + c)] = BackToCaller
      OBVIOUS
    <3>1. sp + 8 * (i + c) = 8 * (i + c - j)
      BY <1>5
    <3>2. 8 * (i + c - j) \in Cells
      <4>1. i + c - j \in Int /\ -d <= i + c - j /\ i + c - j < d
        BY <1>4
      <4> QED BY <1>4, <4>1, WordIsCell
    <3>3. 8 * (i + c - j) - sp \in 8 * i..8 * (i + c) + v - 1
      BY <1>5, <2>1
    <3>4. mem[sp + 8 * (i + c)] = BackToCaller
      BY <1>1, <1>4, <2>0 DEF FrameWords
    <3>5. ~MayWriteCell(8 * (i + c - j))
      BY <1>1, <1>4, <1>5, <2>1, <3>2, <3>3, Spared
    <3> QED BY <1>6, <3>1, <3>2, <3>4, <3>5
  <2>4. CalleeSaveOffset(callee)' = 8 * i /\ ReturnAddrOffset(callee)' = 8 * (i + c)
    BY <1>3, <1>4 DEF CalleeSaveOffset, ReturnAddrOffset, CallerSaveOffset
  <2>5. Len(callee.saved) = c
    BY <1>4
  <2> QED BY <1>2, <1>3, <2>2, <2>3, <2>4, <2>5 DEF FrameWords
<1>18. Passed' /\ Survive'
  BY <1>2, <1>8 DEF Passed, Survive
<1> QED BY <1>3, <1>13, <1>14, <1>15, <1>16, <1>17, <1>18 DEF IInv

LEMMA PopKeeps == ASSUME IInv, Pop PROVE IInv'
<1>1. /\ CallerInputs /\ CalleeInputs /\ Typed /\ UpperKept /\ WordsSaved /\ RegsKept /\ Linked
      /\ FrameWords /\ Survive
  BY DEF IInv
<1> DEFINE top == sp + ReturnAddrOffset(callee)
           from == sp + CalleeSaveOffset(callee)
           back == IF callee.leaf THEN regs ELSE Loaded(regs, top, <<ra>>)
<1>2. /\ pc = "pop" /\ pc' = "return" /\ UNCHANGED input /\ sp' = sp + FrameSize(callee)
      /\ mem' = mem /\ regs' = Loaded(back, from, callee.saved)
  BY DEF Pop
<1>3. /\ CallerInputs' /\ CalleeInputs'
      /\ \A r : RegAtStart(r)' = RegAtStart(r)
      /\ \A a : CellAtStart(a)' = CellAtStart(a)
      /\ Saved' = Saved /\ caller' = caller /\ callee' = callee
  BY <1>1, <1>2, Rigid
<1>4. /\ sp = -FrameSize(callee) /\ FrameSize(callee) \in Nat
      /\ DOMAIN regs = Regs \cup {ra} /\ DOMAIN mem = Cells
  BY <1>1, <1>2, CalleeFrame DEF Typed, InFrame
<1>5. /\ \A k \in 1..Len(callee.saved) : mem[from + 8 * (k - 1)] = RegAtStart(callee.saved[k])
      /\ ~callee.leaf => mem[top] = BackToCaller
  BY <1>1, <1>2 DEF FrameWords, InFrame
<1>6. /\ DOMAIN callee.saved = 1..Len(callee.saved) /\ callee.leaf \in BOOLEAN
      /\ \A k \in DOMAIN callee.saved : callee.saved[k] \in CalleeSaved
  <2>1. callee.saved \in Seq(CalleeSaved)
    BY <1>1, CalleeFrame
  <2>2. callee.leaf \in BOOLEAN
    BY <1>1, CalleeFrame, Zenon
  <2> QED BY <2>1, <2>2
<1> HIDE DEF from
<1>7. DOMAIN back = DOMAIN regs /\ \A r \in Regs : back[r] = regs[r]
  <2>1. \A r \in Regs : r # ra
    BY RegistersAssumption
  <2>2. ASSUME NEW r \in Regs, ~callee.leaf PROVE Loaded(regs, top, <<ra>>)[r] = regs[r]
    <3> DEFINE one == <<ra>>
    <3>1. \A k \in DOMAIN one : one[k] # r
      BY <2>1
    <3> HIDE DEF one, top
    <3>2. Loaded(regs, top, one)[r] = regs[r]
      BY <1>4, <3>1, LoadedApart
    <3> QED BY <3>2 DEF one
  <2> QED BY <2>2, LoadedDomain
<1>8. back[ra] = BackToCaller
  <2>1. CASE callee.leaf
    BY <1>1, <1>2, <2>1 DEF Linked
  <2>2. CASE ~callee.leaf
    <3> DEFINE one == <<ra>>
    <3>1. 1 \in DOMAIN one /\ one[1] = ra /\ \A k \in DOMAIN one : k = 1
      OBVIOUS
    <3>2. top + 8 * (1 - 1) = top
      BY <1>1, <1>4, CalleeFrame
    <3> HIDE DEF one, top
    <3>3. Loaded(regs, top, one)[ra] = mem[top + 8 * (1 - 1)]
      BY <1>4, <3>1, LoadedWord
    <3> QED BY <1>5, <2>2, <3>2, <3>3 DEF one, top
  <2> QED BY <2>1, <2>2
<1> HIDE DEF back, top
<1>9. DOMAIN regs' = DOMAIN regs
  BY <1>2, <1>7, LoadedDomain
<1>10. ASSUME NEW r \in DOMAIN regs, \A k \in DOMAIN callee.saved : callee.saved[k] # r
       PROVE  regs'[r] = back[r]
  BY <1>2, <1>7, <1>10, LoadedApart
<1>11. ASSUME NEW r \in CalleeSaved PROVE regs'[r] = RegAtStart(r)
  <2>1. r \in Regs
    BY ArgRegsFacts
  <2>2. CASE \E k \in DOMAIN callee.saved : callee.saved[k] = r
    <3>1. PICK k \in DOMAIN callee.saved :
            callee.saved[k] = r /\ regs'[r] = mem[from + 8 * (k - 1)]
      BY <1>2, <1>4, <1>7, <2>1, <2>2, LoadedWord
    <3> QED BY <1>5, <1>6, <3>1
  <2>3. CASE \A k \in DOMAIN callee.saved : callee.saved[k] # r
    <3>1. regs'[r] = regs[r]
      BY <1>4, <1>7, <1>10, <2>1, <2>3
    <3>2. regs[r] = RegAtStart(r)
      BY <1>1, <1>2, <1>6, <2>3 DEF RegsKept
    <3> QED BY <3>1, <3>2
  <2> QED BY <2>2, <2>3
<1>12. regs'[ra] = BackToCaller
  BY <1>4, <1>6, <1>8, <1>10, ArgRegsFacts
<1>13. regs'[ArgRegs[1]] = Result
  <2>1. ArgRegs[1] \in Regs /\ \A k \in DOMAIN callee.saved : callee.saved[k] # ArgRegs[1]
    BY <1>6, ArgRegsFacts
  <2>2. regs'[ArgRegs[1]] = regs[ArgRegs[1]]
    BY <1>4, <1>7, <1>10, <2>1
  <2> QED BY <1>1, <1>2, <2>2 DEF Survive
<1>14. Typed'
  <2>1. sp' = 0
    BY <1>2, <1>4
  <2> QED BY <1>2, <1>4, <1>9, <2>1 DEF Typed, InFrame
<1>15. UpperKept' /\ WordsSaved'
  BY <1>1, <1>2, <1>3 DEF UpperKept, WordsSaved, CallerSaveOffset, CalleeSaveOffset
<1>16. RegsKept' /\ Linked' /\ FrameWords' /\ Passed' /\ Survive'
  BY <1>2, <1>3, <1>11, <1>12, <1>13 DEF RegsKept, Linked, FrameWords, InFrame, Passed, Survive
<1> QED BY <1>3, <1>14, <1>15, <1>16 DEF IInv

-----------------------------------------------------------------------------
(* generate_call, from the call on                                         *)

\* What lives across the call lives before it, and not where the result goes.
LEMMA AcrossFacts ==
  ASSUME CallerInputs, NEW v \in Across
  PROVE  v \in VRegs /\ LiveBefore(v) /\ \A u \in dst : u \in VRegs /\ place[u] # place[v]
<1>1. /\ v \in VRegs /\ v \notin dst /\ iv[v].start <= CallAt /\ CallAt < iv[v].end
      /\ iv[v] \in Spans
  BY DEF Across, LiveAfter, CallerInputs
<1>2. /\ iv[v].start \in Int /\ iv[v].end \in Int /\ (CallAt < iv[v].end => iv[v].start # CallAt)
  BY <1>1 DEF Spans, Interval, CallAt
<1>3. LiveBefore(v)
  BY <1>1, <1>2 DEF LiveBefore, CallAt
<1>4. ASSUME NEW u \in dst PROVE u \in VRegs /\ place[u] # place[v]
  <2>1. u \in VRegs /\ iv[u] \in SpansOfDst
    BY DEF CallerInputs
  <2>2. iv[u].start = CallAt /\ iv[u].end \in Int /\ CallAt <= iv[u].end
    BY <2>1 DEF SpansOfDst, Interval, CallAt
  <2>3. iv[u].start <= iv[v].end /\ iv[v].start <= iv[u].end /\ u # v
    BY <1>1, <1>2, <2>2 DEF CallAt
  <2>4. ~Interfere(u, v)
    BY <1>1, <2>1 DEF CallerInputs
  <2> QED BY <2>1, <2>3, <2>4 DEF Interfere
<1> QED BY <1>1, <1>3, <1>4

\* A register that lives across the call in a caller-saved register has it
\* saved: no other one that was given that register has started since.
LEMMA AcrossSaved ==
  ASSUME CallerInputs, NEW v \in Across, NEW r \in CallerSaved, place[v] = InReg(r)
  PROVE  \E k \in 1..Len(Saved) : Saved[k] = r
<1>1. /\ v \in VRegs /\ iv[v].start <= CallAt /\ CallAt < iv[v].end
  BY DEF Across, LiveAfter
<1>2. \A u \in VRegs : iv[u].start \in Int /\ iv[u].end \in Int /\ iv[u].start <= iv[u].end
  BY DEF CallerInputs, Spans, SpansOfDst, Interval, CallAt
<1>3. ASSUME NEW u \in InRegister(r), iv[u].start <= CallAt
      PROVE  iv[u].start <= iv[v].start
  <2>1. u \in VRegs /\ place[u] = InReg(r)
    BY DEF InRegister
  <2>2. ~Interfere(u, v)
    BY <1>1, <2>1 DEF CallerInputs
  <2>3. u = v \/ ~(iv[u].start <= iv[v].end) \/ ~(iv[v].start <= iv[u].end)
    BY <2>1, <2>2 DEF Interfere
  <2> QED BY <1>1, <1>2, <1>3, <2>1, <2>3 DEF CallAt
<1>4. r \in CallerToSave
  <2>1. v \in InRegister(r) /\ CallAt <= iv[v].end
    BY <1>1, <1>2 DEF InRegister, CallAt
  <2> QED BY <1>1, <1>3, <2>1 DEF CallerToSave, Saves
<1>5. \A u \in dst : place[u] # InReg(r)
  BY AcrossFacts
<1> QED BY <1>4, <1>5, SavedFacts

LEMMA ResultKeeps == ASSUME IInv, TakeResult PROVE IInv'
<1>1. /\ CallerInputs /\ CalleeInputs /\ Typed /\ UpperKept /\ WordsSaved /\ RegsKept /\ Survive
  BY DEF IInv
<1>2. /\ pc = "return" /\ pc' = "restore" /\ UNCHANGED input /\ sp' = sp
      /\ regs' = [r \in DOMAIN regs |->
                    IF \E v \in dst : place[v] = InReg(r) THEN regs[ArgRegs[1]] ELSE regs[r]]
      /\ mem' = [a \in Cells |->
                   IF \E v \in dst : place[v] = Spill(a - sp) THEN regs[ArgRegs[1]] ELSE mem[a]]
  BY DEF TakeResult
<1>3. /\ CallerInputs' /\ CalleeInputs'
      /\ \A r : RegAtStart(r)' = RegAtStart(r)
      /\ \A v : Held(v)' = Held(v)
      /\ Saved' = Saved /\ Across' = Across /\ caller' = caller /\ callee' = callee
      /\ place' = place /\ dst' = dst
  BY <1>1, <1>2, Rigid
<1>4. /\ sp = 0 /\ DOMAIN regs = Regs \cup {ra} /\ DOMAIN mem = Cells
      /\ regs[ArgRegs[1]] = Result
  BY <1>1, <1>2 DEF Typed, InFrame, Survive
<1>5. \A a \in Cells : a - sp = a
  BY <1>4, CellFacts
<1>6. \A u \in dst : u \in VRegs
  BY <1>1 DEF CallerInputs
<1>7. Typed'
  BY <1>2, <1>4 DEF Typed, InFrame
<1>8. WordsSaved'
  <2> SUFFICES ASSUME NEW k \in 1..Len(Saved)
               PROVE  mem'[CallerSaveOffset(caller) + 8 * (k - 1)] = RegAtStart(Saved[k])
    BY <1>2, <1>3 DEF WordsSaved, CallerSaveOffset
  <2>1. PICK a \in Cells : /\ a = CallerSaveOffset(caller) + 8 * (k - 1)
                           /\ a \in Int /\ caller.spill <= a
    BY <1>1, SaveArea
  <2>2. \A u \in dst : place[u] # Spill(a)
    <3> SUFFICES ASSUME NEW u \in dst, place[u] = Spill(a) PROVE FALSE
      OBVIOUS
    <3>1. PICK m \in Int : place[u] = Spill(m) /\ m < caller.spill
      BY <1>1, <1>6, Where DEF InReg, Spill, Addr
    <3>2. m = a
      BY <3>1 DEF Spill
    <3> QED BY <1>1, <2>1, <3>1, <3>2, CallerFrame
  <2>3. mem'[a] = mem[a]
    BY <1>2, <1>5, <2>2
  <2> QED BY <1>1, <1>2, <2>1, <2>3 DEF WordsSaved
<1>9. ASSUME NEW u \in dst PROVE Read(place[u])' = Result
  <2>1. place[u][1] # "addr"
    BY <1>1 DEF CallerInputs
  <2>2. CASE \E r \in Regs : place[u] = InReg(r)
    <3>1. PICK r \in Regs : place[u] = InReg(r)
      BY <2>2
    <3>2. regs'[r] = Result
      BY <1>2, <1>4, <3>1
    <3> QED BY <1>3, <3>1, <3>2, ReadNext
  <2>3. CASE \E m \in Cells : place[u] = Spill(m) /\ m \in Int
    <3>1. PICK m \in Cells : place[u] = Spill(m) /\ m \in Int
      BY <2>3
    <3>2. mem'[m] = Result
      BY <1>2, <1>4, <1>5, <3>1
    <3>3. sp' + m = m
      BY <1>2, <1>4, <3>1
    <3> QED BY <1>3, <3>1, <3>2, <3>3, ReadNext
  <2> QED BY <1>1, <1>6, <2>1, <2>2, <2>3, Where DEF Addr
<1>10. ASSUME NEW v \in Across, \A k \in 1..Len(Saved) : place[v] # InReg(Saved[k])
       PROVE  Read(place[v])' = Held(v)
  <2>1. v \in VRegs /\ LiveBefore(v) /\ \A u \in dst : place[u] # place[v]
    BY <1>1, AcrossFacts
  <2>2. \A x : AtStart(place[v], x) = ValueAt(v)
    BY <1>1, <2>1, HeldAtStart
  <2>3. ASSUME NEW r \in Regs, place[v] = InReg(r) PROVE Read(place[v])' = Held(v)
    <3>1. regs'[r] = regs[r]
      BY <1>2, <1>4, <2>1, <2>3
    <3>2. r \in CalleeSaved
      <4>1. r \notin CallerSaved
        BY <1>1, <1>10, <2>3, AcrossSaved
      <4> QED BY <4>1 DEF Regs
    <3>3. regs[r] = RegAtStart(r)
      BY <1>1, <1>2, <3>2 DEF RegsKept
    <3>4. RegAtStart(r) = ValueAt(v)
      BY <2>2, <2>3 DEF RegAtStart
    <3>5. Held(v) = ValueAt(v)
      BY <2>3 DEF Held, InReg
    <3> QED BY <1>3, <2>3, <3>1, <3>3, <3>4, <3>5, ReadNext
  <2>4. ASSUME NEW m \in Cells, place[v] = Spill(m), m \in Int, 0 <= m,
               m \notin CallerSaveOffset(caller)..CalleeSaveOffset(caller) - 1
        PROVE  Read(place[v])' = Held(v)
    <3>1. mem'[m] = mem[m]
      BY <1>2, <1>5, <2>1, <2>4
    <3>2. mem[m] = CellAtStart(m)
      BY <1>1, <1>2, <2>4 DEF UpperKept
    <3>3. CellAtStart(m) = ValueAt(v) /\ Held(v) = ValueAt(v)
      BY <2>2, <2>4 DEF CellAtStart, Held, Spill
    <3>4. sp' + m = m
      BY <1>2, <1>4, <2>4
    <3> QED BY <1>3, <2>4, <3>1, <3>2, <3>3, <3>4, ReadNext
  <2>5. ASSUME NEW m \in Int, place[v] = Addr(m) PROVE Read(place[v])' = Held(v)
    <3>1. sp' + m = m
      BY <1>2, <1>4
    <3>2. Held(v) = <<"address", m>>
      BY <2>5 DEF Held, Addr
    <3> QED BY <1>3, <2>5, <3>1, <3>2, ReadNext
  <2> QED BY <1>1, <2>1, <2>3, <2>4, <2>5, Where
<1>11. Survive'
  BY <1>2, <1>3, <1>9, <1>10 DEF Survive
<1> QED
  BY <1>2, <1>3, <1>7, <1>8, <1>11
     DEF IInv, UpperKept, RegsKept, Linked, FrameWords, InFrame, Passed

LEMMA RestoreKeeps == ASSUME IInv, Restore PROVE IInv'
<1>1. CallerInputs /\ CalleeInputs /\ Typed /\ WordsSaved /\ Survive
  BY DEF IInv
<1> DEFINE from == sp + CallerSaveOffset(caller)
<1>2. /\ pc = "restore" /\ pc' = "done" /\ UNCHANGED input /\ sp' = sp /\ mem' = mem
      /\ regs' = Loaded(regs, from, Saved)
  BY DEF Restore
<1>3. /\ CallerInputs' /\ CalleeInputs'
      /\ \A v : Held(v)' = Held(v)
      /\ Saved' = Saved /\ Across' = Across /\ place' = place /\ dst' = dst
  BY <1>1, <1>2, Rigid
<1>4. sp = 0 /\ DOMAIN regs = Regs \cup {ra} /\ DOMAIN mem = Cells
  BY <1>1, <1>2 DEF Typed, InFrame
<1>5. from = CallerSaveOffset(caller)
  BY <1>1, <1>4, CallerFrame
<1> HIDE DEF from
<1>6. DOMAIN Saved = 1..Len(Saved) /\ \A k \in 1..Len(Saved) : Saved[k] \in Regs
  <2>1. Saved \in Seq(CallerToSave)
    BY <1>1, SavedFacts
  <2> QED BY <2>1 DEF CallerToSave, Regs
<1>7. Typed'
  BY <1>2, <1>4, LoadedDomain DEF Typed, InFrame
<1>8. ASSUME NEW v \in VRegs, \A k \in 1..Len(Saved) : place[v] # InReg(Saved[k])
      PROVE  Read(place[v])' = Read(place[v])
  <2>1. ASSUME NEW r \in Regs, place[v] = InReg(r) PROVE Read(place[v])' = Read(place[v])
    <3>1. \A k \in DOMAIN Saved : Saved[k] # r
      BY <1>6, <1>8, <2>1
    <3>2. regs'[r] = regs[r]
      BY <1>2, <1>4, <3>1, LoadedApart
    <3> QED BY <1>3, <2>1, <3>2, ReadIs, ReadNext
  <2>2. ASSUME NEW m, place[v] = Spill(m) PROVE Read(place[v])' = Read(place[v])
    BY <1>2, <1>3, <2>2, ReadIs, ReadNext
  <2>3. ASSUME NEW m, place[v] = Addr(m) PROVE Read(place[v])' = Read(place[v])
    BY <1>2, <1>3, <2>3, ReadIs, ReadNext
  <2> QED BY <1>1, <2>1, <2>2, <2>3, Where
<1>9. ASSUME NEW u \in dst PROVE Read(place[u])' = Result
  <2>1. u \in VRegs /\ \A k \in 1..Len(Saved) : place[u] # InReg(Saved[k])
    BY <1>1, SavedFacts DEF CallerInputs
  <2>2. Read(place[u]) = Result
    BY <1>1, <1>2 DEF Survive
  <2> QED BY <1>8, <2>1, <2>2
<1>10. ASSUME NEW v \in Across PROVE Read(place[v])' = Held(v)
  <2>1. v \in VRegs /\ LiveBefore(v)
    BY <1>1, AcrossFacts
  <2>2. CASE \A k \in 1..Len(Saved) : place[v] # InReg(Saved[k])
    <3>1. Read(place[v]) = Held(v)
      BY <1>1, <1>2, <2>2 DEF Survive
    <3> QED BY <1>8, <2>1, <2>2, <3>1
  <2>3. CASE \E k \in 1..Len(Saved) : place[v] = InReg(Saved[k])
    <3>1. PICK j \in 1..Len(Saved) : place[v] = InReg(Saved[j])
      BY <2>3
    <3>2. PICK r \in Regs : r = Saved[j]
      BY <1>6
    <3>3. PICK k \in DOMAIN Saved : Saved[k] = r /\ regs'[r] = mem[from + 8 * (k - 1)]
      <4>1. r \in DOMAIN regs /\ j \in DOMAIN Saved /\ Saved[j] = r
        <5>1. r \in DOMAIN regs BY <1>4, Zenon
        <5>2. j \in DOMAIN Saved BY <1>6, Zenon
        <5> QED BY <3>2, <5>1, <5>2
      <4>2. \E k \in DOMAIN Saved :
               Saved[k] = r /\ Loaded(regs, from, Saved)[r] = mem[from + 8 * (k - 1)]
        BY <4>1, LoadedWord
      <4> QED BY <1>2, <4>2, Zenon
    <3>4. regs'[r] = RegAtStart(r)
      BY <1>1, <1>2, <1>5, <1>6, <3>3 DEF WordsSaved
    <3>5. RegAtStart(r) = ValueAt(v)
      BY <1>1, <2>1, <3>1, <3>2, HeldAtStart DEF RegAtStart
    <3>6. Held(v) = ValueAt(v)
      BY <3>1 DEF Held, InReg
    <3> QED BY <1>3, <3>1, <3>2, <3>4, <3>5, <3>6, ReadNext
  <2> QED BY <2>2, <2>3
<1>11. Survive'
  BY <1>2, <1>3, <1>9, <1>10 DEF Survive
<1> QED
  BY <1>2, <1>3, <1>7, <1>11
     DEF IInv, UpperKept, WordsSaved, RegsKept, Linked, FrameWords, InFrame, Passed

LEMMA StutterKeeps == ASSUME IInv, UNCHANGED vars PROVE IInv'
<1>1. UNCHANGED input /\ regs' = regs /\ mem' = mem /\ sp' = sp /\ pc' = pc
  BY DEF vars
<1>2. /\ CallerInputs => CallerInputs'
      /\ CalleeInputs => CalleeInputs'
      /\ \A r : RegAtStart(r)' = RegAtStart(r)
      /\ \A a : CellAtStart(a)' = CellAtStart(a)
      /\ \A v : Held(v)' = Held(v)
      /\ \A a : Given(a)' = Given(a)
      /\ Saved' = Saved /\ Across' = Across
      /\ caller' = caller /\ callee' = callee /\ place' = place /\ args' = args /\ dst' = dst
  BY <1>1, Rigid
<1>3. FrameSize(callee)' = FrameSize(callee) /\ InFrame' = InFrame
  BY <1>1, <1>2 DEF InFrame, FrameSize, RaArea, StackArgs
<1>4. \A p : Read(p)' = Read(p)
  BY <1>1 DEF Read
<1>5. CallerInputs' /\ CalleeInputs'
  BY <1>2 DEF IInv
<1>6. Typed' /\ UpperKept' /\ WordsSaved'
  BY <1>1, <1>2, <1>3
     DEF IInv, Typed, UpperKept, WordsSaved, CallerSaveOffset, CalleeSaveOffset
<1>7. RegsKept' /\ Linked'
  BY <1>1, <1>2 DEF IInv, RegsKept, Linked
<1>8. FrameWords'
  BY <1>1, <1>2, <1>3 DEF IInv, FrameWords, CallerSaveOffset, CalleeSaveOffset, ReturnAddrOffset
<1>9. Passed' /\ Survive'
  BY <1>1, <1>2, <1>4 DEF IInv, Passed, Survive, StackArgs
<1> QED BY <1>5, <1>6, <1>7, <1>8, <1>9 DEF IInv

LEMMA StepKeeps == ASSUME IInv, [Next]_vars PROVE IInv'
<1>1. CASE UNCHANGED vars
  BY <1>1, StutterKeeps
<1>2. CASE Next
  BY <1>2, SaveKeeps, StackArgsKeep, RegArgsKeep, CallKeeps, PushKeeps, ParamsKeep, BodyKeeps,
     PopKeeps, ResultKeeps, RestoreKeeps, StutterKeeps
     DEF Next, Returned
<1> QED BY <1>1, <1>2

LEMMA Invariance == Spec => []IInv
<1>1. Init => IInv
  BY Starts
<1>2. IInv /\ [Next]_vars => IInv'
  BY StepKeeps
<1> QED BY <1>1, <1>2, PTL DEF Spec

LEMMA AreasAligned ==
  ASSUME NEW f, IsFrame(f)
  PROVE  /\ CalleeSaveOffset(f) % 8 = 0 /\ ReturnAddrOffset(f) % 8 = 0
         /\ SpillArgsOffset(f) % 8 = 0
<1>1. PICK s, m, c, n, z \in Nat :
        /\ s = f.spill /\ m = f.maxSave /\ c = Len(f.saved) /\ s % 8 = 0
        /\ n = StackArgs(Len(f.params)) /\ z = FrameSize(f) /\ z % 16 = 0
  <2>1. f.spill \in Nat /\ f.maxSave \in Nat /\ Len(f.saved) \in Nat /\ f.spill % 8 = 0
        /\ Len(f.params) \in Nat
    BY DEF IsFrame
  <2> QED BY <2>1, StackArgsNat, SizeFacts
<1>2. /\ CalleeSaveOffset(f) = s + 8 * m
      /\ ReturnAddrOffset(f) = s + 8 * m + 8 * c
      /\ SpillArgsOffset(f) = z - 8 * n
  BY <1>1, Zenon DEF CalleeSaveOffset, CallerSaveOffset, ReturnAddrOffset, SpillArgsOffset
<1>3. (s + 8 * m) % 8 = 0 /\ (s + 8 * m + 8 * c) % 8 = 0 /\ (z - 8 * n) % 8 = 0
  <2>1. s % 8 = 0 /\ z % 16 = 0
    BY <1>1
  <2> QED BY <2>1
<1> QED BY <1>2, <1>3

LEMMA TypeCorrect == IInv => TypeOK
<1> SUFFICES ASSUME IInv PROVE TypeOK
  OBVIOUS
<1>1. CallerInputs /\ CalleeInputs /\ Typed
  BY DEF IInv
<1>2. ASSUME NEW f \in Callers \cup Callees
      PROVE  /\ CalleeSaveOffset(f) % 8 = 0 /\ ReturnAddrOffset(f) % 8 = 0
             /\ SpillArgsOffset(f) % 8 = 0
  BY FramesAssumption, AreasAligned
<1>3. FrameSize(callee) \in Nat /\ FrameSize(callee) % 16 = 0
  BY <1>1, CalleeFrame
<1>4. sp \in {0, -FrameSize(callee)} /\ sp % 16 = 0
  <2>1. sp = 0 \/ sp = -FrameSize(callee)
    BY <1>1 DEF Typed
  <2>2. PICK z \in Nat : z = FrameSize(callee) /\ z % 16 = 0
    BY <1>3
  <2>3. (-z) % 16 = 0 /\ 0 % 16 = 0
    BY <2>2
  <2> QED BY <2>1, <2>2, <2>3
<1>5. caller \in Callers /\ callee \in Callees
  BY <1>1 DEF CallerInputs, CalleeInputs
<1> QED BY <1>1, <1>2, <1>4, <1>5 DEF TypeOK, Typed

\* The types of TypeOK: sp is aligned to 16 and every area starts at a multiple
\* of eight, which RISC-V's calling convention and sd/ld ask for.
THEOREM Aligned == Spec => []TypeOK
BY TypeCorrect, Invariance, PTL

\* When the callee returns, sp, ra and the callee-saved registers are what they
\* were at the call, and so is the caller's stack but for the save area, for
\* every pair of frames, allocation and number of arguments.
THEOREM ContractKept == Spec => []CalleeContract
<1>1. IInv => CalleeContract
  BY DEF IInv, Typed, InFrame, UpperKept, RegsKept, Linked, CalleeContract
<1> QED BY <1>1, Invariance, PTL

-----------------------------------------------------------------------------
(* The call, as the caller's virtual registers see it, is one of CallSpec  *)

\* In its body the callee finds every argument where it looks for it.
Arrived ==
  pc = "body" => \A k \in DOMAIN callee.params : Read(ParamPlace(callee, k)) = Given(args[k])

LEMMA ArgumentsArrive == IInv => Arrived
<1> SUFFICES ASSUME IInv, pc = "body", NEW k \in DOMAIN callee.params
             PROVE  Read(ParamPlace(callee, k)) = Given(args[k])
  BY DEF Arrived
<1>1. CallerInputs /\ CalleeInputs /\ Typed /\ Passed
  BY DEF IInv
<1>2. /\ IsFrame(callee) /\ Len(args) = Len(callee.params) /\ Len(args) \in Nat
      /\ DOMAIN args = 1..Len(args) /\ DOMAIN callee.params = 1..Len(args)
  BY <1>1, CalleeFrame
<1>3. k \in Nat /\ 1 <= k /\ k <= Len(args)
  BY <1>2
<1>4. CASE k <= Len(ArgRegs)
  <2>1. k \in DOMAIN args \cap DOMAIN ArgRegs
    BY <1>2, <1>3, <1>4, ArgCount
  <2>2. ParamPlace(callee, k) = callee.params[k]
    BY <1>4 DEF ParamPlace
  <2> QED BY <1>1, <2>1, <2>2 DEF Passed
<1>5. CASE Len(ArgRegs) < k
  <2>1. PICK m \in Nat : m = Len(ArgRegs)
    BY ArgCount
  <2>2. PICK n \in Nat : n = StackArgs(Len(args))
    BY <1>1, CalleeFrame
  <2>3. PICK z \in Nat : z = FrameSize(callee)
    BY <1>1, CalleeFrame
  <2>4. PICK j \in Nat : j = k - m /\ 1 <= j
    <3>1. k - m \in Nat /\ 1 <= k - m
      BY <1>3, <1>5, <2>1
    <3> QED BY <3>1
  <2>5. j \in 1..n /\ k = m + j
    <3>1. n = Len(args) - m
      BY <1>2, <1>3, <1>5, <2>1, <2>2 DEF StackArgs
    <3> QED BY <1>2, <1>3, <2>1, <2>4, <3>1
  <2>6. mem[-8 * n + 8 * (j - 1)] = Given(args[k])
    BY <1>1, <2>1, <2>2, <2>5 DEF Passed
  <2>7. ParamPlace(callee, k) = Spill((0 - 8 * n + 8 * (k - m - 1)) - (0 - z))
    <3>1. 0 % 16 = 0
      OBVIOUS
    <3> HIDE DEF Spill
    <3>2. /\ Len(ArgRegs) \in Nat /\ k \in Nat /\ k <= Len(callee.params) /\ 0 \in Int
      BY <1>2, <1>3, ArgCount
    <3>3. LET stored == 0 - 8 * n + 8 * (k - m - 1)
          IN ParamPlace(callee, k) = Spill(stored - (0 - z))
      BY <1>2, <1>5, <2>1, <2>2, <2>3, <3>1, <3>2, ArgumentsMeet
    <3> QED BY <3>3
  <2>8. sp = -z
    BY <1>1, <2>3 DEF Typed, InFrame
  <2>9. Read(ParamPlace(callee, k)) = mem[sp + ((0 - 8 * n + 8 * (k - m - 1)) - (0 - z))]
    BY <2>7, ReadIs
  <2>10. sp + ((0 - 8 * n + 8 * (k - m - 1)) - (0 - z)) = -8 * n + 8 * (j - 1)
    BY <2>4, <2>8, <1>3
  <2> QED BY <2>6, <2>9, <2>10
<1> QED BY <1>3, <1>4, <1>5, ArgCount

LEMMA Beginning == Init => Seen!Init
BY DEF Init, AtTheCall, Seen!Init, Phase, Received

\* Until the call is over, the environment is what it was before it.
LEMMA EnvBefore ==
  pc # "done" => Env = [v \in {u \in VRegs : LiveBefore(u)} |-> Held(v)]
BY DEF Env, Held

LEMMA EnvStays ==
  ASSUME UNCHANGED input, pc # "done", pc' # "done"
  PROVE  Env' = Env
<1>1. place' = place /\ iv' = iv /\ dst' = dst
  BY DEF input
<1>2. \A v : LiveBefore(v)' = LiveBefore(v)
  BY <1>1 DEF LiveBefore
<1> QED BY <1>1, <1>2 DEF Env, ValueAt

\* What the abstract call hands over, in terms of the places.
LEMMA HandedOver ==
  ASSUME CalleeInputs, pc # "done", NEW k \in DOMAIN callee.params
  PROVE  ArgIn(Env, args[k]) = Given(args[k])
<1>1. args[k] \in {<<"imm", 0>>} \cup {<<"v", v>> : v \in {u \in VRegs : LiveBefore(u)}}
  BY DEF CalleeInputs
<1>2. CASE args[k] = <<"imm", 0>>
  BY <1>2 DEF ArgIn, Given
<1>3. CASE \E v \in VRegs : LiveBefore(v) /\ args[k] = <<"v", v>>
  <2>1. PICK v \in VRegs : LiveBefore(v) /\ args[k] = <<"v", v>>
    BY <1>3
  <2>2. ArgIn(Env, args[k]) = Env[v] /\ Given(args[k]) = Held(v)
    BY <2>1 DEF ArgIn, Given
  <2>3. Env[v] = Held(v)
    BY <2>1, EnvBefore
  <2> QED BY <2>2, <2>3
<1> QED BY <1>1, <1>2, <1>3

LEMMA Entered ==
  ASSUME IInv, Arrived', UNCHANGED input, Phase = "before", pc # "done", pc' = "body"
  PROVE  Seen!Enter
<1>1. CalleeInputs /\ callee' = callee /\ args' = args /\ dst' = dst /\ Across' = Across
  BY Rigid DEF IInv
<1>2. Phase' = "entered"
  BY DEF Phase
<1>3. Env' = Env
  BY EnvStays
<1>4. Received' = [k \in DOMAIN args |-> ArgIn(Env, args[k])]
  <2>1. DOMAIN args = DOMAIN callee.params
    BY <1>1 DEF CalleeInputs
  <2>2. Received' = [k \in DOMAIN callee.params |-> Read(ParamPlace(callee, k))']
    BY <1>1 DEF Received
  <2>3. ASSUME NEW k \in DOMAIN callee.params
        PROVE  Read(ParamPlace(callee, k))' = ArgIn(Env, args[k])
    <3>1. Read(ParamPlace(callee, k))' = Given(args[k])'
      BY <1>1 DEF Arrived
    <3>2. Given(args[k])' = Given(args[k])
      BY <1>1, Rigid
    <3> QED BY <1>1, <3>1, <3>2, HandedOver
  <2> QED BY <2>1, <2>2, <2>3
<1> QED BY <1>1, <1>2, <1>3, <1>4 DEF Seen!Enter

LEMMA Worked ==
  ASSUME IInv, Body
  PROVE  Seen!Work
<1>1. pc = "body" /\ pc' \in {"pop", "return"} /\ UNCHANGED input
  BY DEF Body
<1>2. Phase = "entered" /\ Phase' = "returning" /\ Received' = <<>>
  BY <1>1 DEF Phase, Received
<1>3. Env' = Env /\ args' = args /\ Across' = Across /\ dst' = dst
  BY <1>1, EnvStays, Rigid
<1> QED BY <1>2, <1>3 DEF Seen!Work

LEMMA GivenBack ==
  ASSUME IInv, IInv', Restore
  PROVE  Seen!Return
<1>1. pc = "restore" /\ pc' = "done" /\ UNCHANGED input
  BY DEF Restore
<1>2. args' = args /\ Across' = Across /\ dst' = dst /\ place' = place
      /\ \A v : Held(v)' = Held(v)
  BY <1>1, Rigid
<1>3. Phase = "returning" /\ Phase' = "after" /\ Received = <<>> /\ Received' = <<>>
  BY <1>1 DEF Phase, Received
<1>4. CallerInputs /\ Survive'
  BY DEF IInv
<1>5. Env' = [v \in Across \cup dst |-> Read(place[v])']
  BY <1>1, <1>2 DEF Env
<1>6. ASSUME NEW v \in Across \cup dst
      PROVE  Read(place[v])' = IF v \in dst THEN Result ELSE Env[v]
  <2>1. CASE v \in dst
    BY <1>1, <1>2, <1>4, <2>1 DEF Survive, Result
  <2>2. CASE v \notin dst
    <3>1. v \in Across /\ v \in VRegs /\ LiveBefore(v)
      BY <1>4, <2>2, AcrossFacts
    <3>2. Read(place[v])' = Held(v)
      BY <1>1, <1>2, <1>4, <3>1 DEF Survive
    <3>3. Env[v] = Held(v)
      BY <1>1, <3>1, EnvBefore
    <3> QED BY <2>2, <3>2, <3>3
  <2> QED BY <2>1, <2>2
<1> QED BY <1>2, <1>3, <1>5, <1>6 DEF Seen!Return

LEMMA Unseen ==
  ASSUME IInv, UNCHANGED input, pc # "done", pc' # "done", pc # "body", pc' # "body",
         Phase' = Phase
  PROVE  UNCHANGED Seen!callVars
<1>1. Env' = Env /\ args' = args /\ Across' = Across /\ dst' = dst
  BY EnvStays, Rigid
<1>2. Received = <<>> /\ Received' = <<>>
  BY DEF Received
<1> QED BY <1>1, <1>2 DEF Seen!callVars

LEMMA Stays ==
  ASSUME UNCHANGED vars
  PROVE  UNCHANGED Seen!callVars
<1>1. /\ caller' = caller /\ callee' = callee /\ place' = place /\ iv' = iv
      /\ args' = args /\ dst' = dst /\ order' = order
      /\ regs' = regs /\ mem' = mem /\ sp' = sp /\ pc' = pc
  BY DEF vars, input
<1>2. \A v : LiveBefore(v)' = LiveBefore(v)
  BY <1>1 DEF LiveBefore
<1>3. \A p : Read(p)' = Read(p)
  BY <1>1 DEF Read
<1>4. Across' = Across
  BY <1>1 DEF Across, LiveAfter
<1>5. Env' = Env
  BY <1>1, <1>2, <1>3, <1>4 DEF Env, ValueAt
<1>6. Received' = Received
  BY <1>1, <1>3 DEF Received
<1>7. Phase' = Phase
  BY <1>1 DEF Phase
<1> QED BY <1>1, <1>4, <1>5, <1>6, <1>7 DEF Seen!callVars

\* generate_call, the prologue and the epilogue together are one call of
\* CallSpec: the callee gets the arguments, the destination the result, and no
\* register that lives on changes, whatever the frames, the places that the
\* allocator chose and the number of arguments.
THEOREM CallImplemented == Spec => ImplementsCallSpec
<1>1. Init => Seen!Init
  BY Beginning
<1>2. ASSUME IInv, IInv', Arrived', [Next]_vars
      PROVE  [Seen!Enter \/ Seen!Work \/ Seen!Return]_(Seen!callVars)
  <2>1. CASE Save
    BY <1>2, <2>1, Unseen DEF Save, Phase
  <2>2. CASE PassStackArgs
    BY <1>2, <2>2, Unseen DEF PassStackArgs, Phase
  <2>3. CASE PassRegArgs
    BY <1>2, <2>3, Unseen DEF PassRegArgs, Phase
  <2>4. CASE Call
    <3>1. pc = "call" /\ UNCHANGED input /\ pc' \in {"push", "body"}
      BY <2>4 DEF Call
    <3>2. CASE pc' = "push"
      BY <1>2, <3>1, <3>2, Unseen DEF Phase
    <3>3. CASE pc' = "body"
      BY <1>2, <3>1, <3>3, Entered DEF Phase
    <3> QED BY <3>1, <3>2, <3>3
  <2>5. CASE Push
    BY <1>2, <2>5, Unseen DEF Push, Phase
  <2>6. CASE MoveParams
    <3>1. pc = "params" /\ pc' = "body" /\ UNCHANGED input
      BY <2>6 DEF MoveParams
    <3> QED BY <1>2, <3>1, Entered DEF Phase
  <2>7. CASE Body
    BY <1>2, <2>7, Worked
  <2>8. CASE Pop
    BY <1>2, <2>8, Unseen DEF Pop, Phase
  <2>9. CASE TakeResult
    BY <1>2, <2>9, Unseen DEF TakeResult, Phase
  <2>10. CASE Restore
    BY <1>2, <2>10, GivenBack
  <2>11. CASE Returned \/ UNCHANGED vars
    BY <2>11, Stays DEF Returned
  <2> QED
    BY <1>2, <2>1, <2>2, <2>3, <2>4, <2>5, <2>6, <2>7, <2>8, <2>9, <2>10, <2>11 DEF Next
<1>3. Spec => []IInv
  BY Invariance
<1>4. IInv => Arrived
  BY ArgumentsArrive
<1> QED BY <1>1, <1>2, <1>3, <1>4, PTL DEF Spec, ImplementsCallSpec, Seen!Spec

-----------------------------------------------------------------------------
(* Lowering: an instruction runs as what it means, for words and immediates *)
(* of every width.                                                         *)

(* Powers of two                                                           *)

LEMMA PowersExist ==
  /\ LW!Pow2 \in [0..XLen -> Nat \ {0}] /\ LW!Pow2[0] = 1
  /\ \A k \in 1..XLen : LW!Pow2[k] = 2 * LW!Pow2[k - 1]
<1> DEFINE N == Nat \ {0}
           step == [k \in 1..XLen |-> [x \in N |-> 2 * x]]
           Is(f) == f = [n \in 0..XLen |-> IF n = 0 THEN 1 ELSE 2 * f[n - 1]]
<1>1. XLen \in Nat
  BY LoweringAssumption DEF LW!IsConfiguration
<1>2. step \in Steps(XLen, N) /\ 1 \in N
  BY <1>1 DEF Steps
<1>3. PICK f : IsRecursion(f, XLen, N, 1, step)
  <2> HIDE DEF step, N
  <2> QED
    BY <1>1, <1>2, Recursion
<1>4. f \in [0..XLen -> N] /\ f[0] = 1
  BY <1>3 DEF IsRecursion
<1>5. \A k \in 1..XLen : f[k] = 2 * f[k - 1]
  <2>1. \A k \in 1..XLen : k - 1 \in 0..XLen /\ f[k - 1] \in N
    BY <1>1, <1>4
  <2>2. \A k \in 1..XLen : f[k] = step[k][f[k - 1]]
    BY <1>3 DEF IsRecursion
  <2> QED
    BY <2>1, <2>2
<1>6. Is(f)
  BY <1>1, <1>4, <1>5
<1>7. Is(LW!Pow2)
  <2> HIDE DEF Is
  <2>1. LW!Pow2 = CHOOSE g : Is(g)
    BY DEF LW!Pow2, Is
  <2> QED
    BY <1>6, <2>1, Zenon
<1>8. LW!Pow2[0] = 1 /\ \A k \in 1..XLen : LW!Pow2[k] = 2 * LW!Pow2[k - 1]
  BY <1>1, <1>7
<1> DEFINE D == {n \in 0..XLen : LW!Pow2[n] \in N}
<1>9. \A n \in 0..XLen : n \in D
  <2>1. 0 \in D
    BY <1>1, <1>8
  <2>2. ASSUME NEW n \in 0..XLen - 1, n \in D PROVE n + 1 \in D
    BY <1>1, <1>8, <2>2
  <2> HIDE DEF D
  <2> QED
    BY <1>1, <2>1, <2>2, AllUpTo
<1>10. DOMAIN LW!Pow2 = 0..XLen
  BY <1>7
<1> HIDE DEF Is
<1>11. LW!Pow2 \in [0..XLen -> N]
  <2>1. LW!Pow2 = [n \in 0..XLen |-> LW!Pow2[n]]
    BY <1>7 DEF Is
  <2> QED
    BY <1>9, <2>1
<1> QED
  BY <1>8, <1>11

LEMMA Grow ==
  /\ \A n \in 0..XLen : n < LW!Pow2[n]
  /\ \A m, n \in 0..XLen : m < n => LW!Pow2[m] < LW!Pow2[n]
  /\ \A m, n \in 0..XLen : m <= n => \E q \in Nat \ {0} : LW!Pow2[n] = LW!Pow2[m] * q
<1>1. XLen \in Nat
  BY LoweringAssumption DEF LW!IsConfiguration
<1>2. \A n \in 0..XLen : n < LW!Pow2[n]
  <2> DEFINE D == {n \in 0..XLen : n < LW!Pow2[n]}
  <2>1. 0 \in D
    BY <1>1, PowersExist
  <2>2. ASSUME NEW n \in 0..XLen - 1, n \in D PROVE n + 1 \in D
    <3>1. n + 1 \in 1..XLen /\ (n + 1) - 1 = n
      BY <1>1
    <3> QED
      BY <1>1, PowersExist, <2>2, <3>1
  <2> HIDE DEF D
  <2>3. \A n \in 0..XLen : n \in D
    BY <1>1, <2>1, <2>2, AllUpTo
  <2> QED
    BY <2>3 DEF D
<1>3. ASSUME NEW m \in 0..XLen
      PROVE  \A n \in 0..XLen : m <= n =>
               /\ m < n => LW!Pow2[m] < LW!Pow2[n]
               /\ \E q \in Nat \ {0} : LW!Pow2[n] = LW!Pow2[m] * q
  <2> DEFINE Q(n) == /\ m < n => LW!Pow2[m] < LW!Pow2[n]
                     /\ \E q \in Nat \ {0} : LW!Pow2[n] = LW!Pow2[m] * q
             D == {n \in 0..XLen : m <= n => Q(n)}
  <2>1. Q(m)
    <3>1. 1 \in Nat \ {0} /\ LW!Pow2[m] = LW!Pow2[m] * 1 /\ ~(m < m)
      BY PowersExist
    <3> QED
      BY <3>1
  <2>2. 0 \in D
    <3>1. 0 \in 0..XLen /\ (m <= 0 => m = 0)
      BY <1>1
    <3> HIDE DEF Q
    <3> QED
      BY <2>1, <3>1
  <2>3. ASSUME NEW n \in 0..XLen - 1, n \in D PROVE n + 1 \in D
    <3>1. n + 1 \in 1..XLen /\ (n + 1) - 1 = n /\ n + 1 \in 0..XLen /\ n \in 0..XLen
      BY <1>1
    <3>2. CASE n + 1 <= m
      <4>1. m <= n + 1 => n + 1 = m
        BY <3>1, <3>2
      <4> HIDE DEF Q
      <4> QED
        BY <2>1, <3>1, <4>1
    <3>3. CASE m <= n
      <4>1. PICK q \in Nat \ {0} : LW!Pow2[n] = LW!Pow2[m] * q
        BY <2>3, <3>3
      <4>2. LW!Pow2[n + 1] = 2 * LW!Pow2[n]
        BY PowersExist, <3>1
      <4>3. LW!Pow2[n] \in Nat \ {0} /\ LW!Pow2[m] \in Nat \ {0}
        BY PowersExist, <3>1
      <4>4. LW!Pow2[m] <= LW!Pow2[n]
        BY <2>3, <3>1, <3>3, <4>3
      <4>5. LW!Pow2[m] < LW!Pow2[n + 1]
        BY <4>2, <4>3, <4>4
      <4>6. 2 * q \in Nat \ {0} /\ LW!Pow2[n + 1] = LW!Pow2[m] * (2 * q)
        BY <4>1, <4>2, <4>3
      <4>7. Q(n + 1)
        BY <4>5, <4>6
      <4> HIDE DEF Q
      <4> QED
        BY <3>1, <4>7
    <3> QED
      BY <3>1, <3>2, <3>3
  <2> HIDE DEF D
  <2>4. \A n \in 0..XLen : n \in D
    BY <1>1, <2>2, <2>3, AllUpTo
  <2> QED
    BY <2>4 DEF D
<1> QED
  BY <1>2, <1>3

-----------------------------------------------------------------------------
(* Words: residues, and their signed reading                               *)

LEMMA Division ==
  ASSUME NEW W \in Nat \ {0}, NEW a \in Int
  PROVE  a % W \in 0..W - 1 /\ a \div W \in Int /\ a = W * (a \div W) + (a % W)
OBVIOUS

LEMMA OneDivision ==
  ASSUME NEW W \in Nat \ {0}, NEW q \in Int, NEW r \in 0..W - 1,
         NEW p \in Int, NEW s \in 0..W - 1, W * q + r = W * p + s
  PROVE  q = p /\ r = s
<1>1. ~(q < p)
  <2> SUFFICES ASSUME q < p PROVE FALSE
    OBVIOUS
  <2>1. q + 1 <= p
    OBVIOUS
  <2>2. W * (q + 1) <= W * p
    BY <2>1
  <2> QED
    BY <2>2
<1>2. ~(p < q)
  <2> SUFFICES ASSUME p < q PROVE FALSE
    OBVIOUS
  <2>1. p + 1 <= q
    OBVIOUS
  <2>2. W * (p + 1) <= W * q
    BY <2>1
  <2> QED
    BY <2>2
<1>3. q = p
  BY <1>1, <1>2
<1> QED
  BY <1>3

LEMMA Remaining ==
  ASSUME NEW W \in Nat \ {0}, NEW q \in Int, NEW r \in 0..W - 1
  PROVE  (W * q + r) % W = r /\ (W * q + r) \div W = q
<1> DEFINE a == W * q + r
<1>1. a \in Int
  OBVIOUS
<1> HIDE DEF a
<1>2. a % W \in 0..W - 1 /\ a \div W \in Int /\ a = W * (a \div W) + (a % W)
  BY <1>1, Division
<1>3. a \div W = q /\ a % W = r
  BY <1>2, OneDivision DEF a
<1> QED
  BY <1>3 DEF a

LEMMA WordType ==
  /\ LW!Pow2[XLen] \in Nat \ {0} /\ LW!Halfword \in Nat \ {0} /\ LW!Pow2[XLen] = 2 * LW!Halfword
  /\ \A n \in Int : LW!Word(n) \in LW!Words
  /\ \A w \in LW!Words : w \in Nat /\ LW!Word(w) = w
<1>1. XLen \in 0..XLen /\ XLen - 1 \in 0..XLen /\ XLen \in 1..XLen
  BY LoweringAssumption DEF LW!IsConfiguration
<1>2. /\ LW!Pow2[XLen] \in Nat \ {0} /\ LW!Halfword \in Nat \ {0} /\ LW!Pow2[XLen] = 2 * LW!Halfword
  BY <1>1, PowersExist DEF LW!Halfword
<1>3. \A n \in Int : LW!Word(n) \in LW!Words
  BY <1>2, Division DEF LW!Word, LW!Words
<1>4. ASSUME NEW w \in LW!Words PROVE w \in Nat /\ LW!Word(w) = w
  <2>1. LW!Pow2[XLen] * 0 + w = w /\ w \in 0..LW!Pow2[XLen] - 1
    BY <1>2 DEF LW!Words
  <2> QED
    BY <1>2, <2>1, Remaining DEF LW!Word
<1> QED
  BY <1>2, <1>3, <1>4

LEMMA Congruent ==
  ASSUME NEW a \in Int, NEW b \in Int
  PROVE  /\ LW!Word(a) = LW!Word(b) => \E k \in Int : a = b + LW!Pow2[XLen] * k
         /\ (\E k \in Int : a = b + LW!Pow2[XLen] * k) => LW!Word(a) = LW!Word(b)
<1> DEFINE W == LW!Pow2[XLen]
<1>1. W \in Nat \ {0}
  BY WordType
<1> HIDE DEF W
<1>2. a % W \in 0..W - 1 /\ a \div W \in Int /\ a = W * (a \div W) + (a % W)
  BY <1>1, Division
<1>3. b % W \in 0..W - 1 /\ b \div W \in Int /\ b = W * (b \div W) + (b % W)
  BY <1>1, Division
<1>4. ASSUME a % W = b % W PROVE \E k \in Int : a = b + W * k
  <2>1. (a \div W) - (b \div W) \in Int
    BY <1>2, <1>3
  <2>2. a = b + W * ((a \div W) - (b \div W))
    BY <1>1, <1>2, <1>3, <1>4
  <2> QED
    BY <2>1, <2>2
<1>5. ASSUME NEW k \in Int, a = b + W * k PROVE a % W = b % W
  <2>1. W * (a \div W) + (a % W) = W * ((b \div W) + k) + (b % W)
    BY <1>1, <1>2, <1>3, <1>5
  <2>2. (b \div W) + k \in Int
    BY <1>3
  <2> QED
    BY <1>1, <1>2, <1>3, <2>1, <2>2, OneDivision
<1> QED
  BY <1>4, <1>5 DEF LW!Word, W

LEMMA WordOps ==
  ASSUME NEW a \in Int, NEW b \in Int, NEW c \in Int, NEW d \in Int,
         LW!Word(a) = LW!Word(c), LW!Word(b) = LW!Word(d)
  PROVE  /\ LW!Word(a + b) = LW!Word(c + d) /\ LW!Word(a - b) = LW!Word(c - d)
         /\ LW!Word(a * b) = LW!Word(c * d)
<1> DEFINE W == LW!Pow2[XLen]
<1>1. W \in Int
  BY WordType
<1>2. PICK k \in Int : a = c + W * k
  BY Congruent
<1>3. PICK m \in Int : b = d + W * m
  BY Congruent
<1> HIDE DEF W
<1>4. a + b = (c + d) + W * (k + m) /\ a - b = (c - d) + W * (k - m)
  BY <1>1, <1>2, <1>3
<1>5. a * b = c * d + W * (k * d + c * m + k * (W * m))
  BY <1>1, <1>2, <1>3
<1>6. /\ a + b \in Int /\ a - b \in Int /\ a * b \in Int /\ c + d \in Int /\ c - d \in Int
      /\ c * d \in Int /\ k + m \in Int /\ k - m \in Int /\ (k * d + c * m + k * (W * m)) \in Int
  BY <1>1
<1>7. LW!Word(a + b) = LW!Word(c + d) /\ LW!Word(a - b) = LW!Word(c - d)
  BY <1>4, <1>6, Congruent DEF W
<1>8. LW!Word(a * b) = LW!Word(c * d)
  BY <1>5, <1>6, Congruent DEF W
<1> QED
  BY <1>7, <1>8

LEMMA SignedType ==
  ASSUME NEW w \in LW!Words
  PROVE  LW!Signed(w) \in -LW!Halfword..LW!Halfword - 1 /\ LW!Word(LW!Signed(w)) = w
<1>1. w \in Nat /\ w % LW!Pow2[XLen] = w /\ w < LW!Pow2[XLen]
  <2>1. LW!Word(w) = w /\ w \in Nat
    BY WordType
  <2>2. w % LW!Pow2[XLen] = w
    BY <2>1 DEF LW!Word
  <2> QED
    BY <2>1, <2>2, WordType DEF LW!Words
<1>2. LW!Signed(w) = IF w < LW!Halfword THEN w ELSE w - LW!Pow2[XLen]
  BY <1>1 DEF LW!Signed, LW!Extended, LW!Halfword
<1>3. LW!Signed(w) \in -LW!Halfword..LW!Halfword - 1
  BY <1>1, <1>2, WordType
<1>4. LW!Signed(w) \in Int /\ \E k \in Int : LW!Signed(w) = w + LW!Pow2[XLen] * k
  <2>1. CASE w < LW!Halfword
    <3>1. LW!Signed(w) = w + LW!Pow2[XLen] * 0
      BY <1>1, <1>2, <2>1, WordType
    <3> QED
      BY <1>3, <3>1
  <2>2. CASE ~(w < LW!Halfword)
    <3>1. LW!Signed(w) = w + LW!Pow2[XLen] * (-1)
      BY <1>1, <1>2, <2>2, WordType
    <3>2. -1 \in Int
      OBVIOUS
    <3> QED
      BY <1>2, <1>3, <3>1, <3>2
  <2> QED
    BY <2>1, <2>2
<1>5. LW!Word(LW!Signed(w)) = LW!Word(w)
  BY <1>1, <1>4, Congruent
<1> QED
  BY <1>3, <1>5, WordType

-----------------------------------------------------------------------------
(* Words bit by bit                                                        *)

LEMMA BitType ==
  ASSUME NEW w \in LW!Words, NEW k \in 0..XLen
  PROVE  LW!Bit(w, k) \in {0, 1} /\ w \div LW!Pow2[k] \in Int
<1>1. w \in Int /\ LW!Pow2[k] \in Nat \ {0}
  BY WordType, PowersExist
<1>2. w \div LW!Pow2[k] \in Int
  BY <1>1, Division
<1>3. (w \div LW!Pow2[k]) % 2 \in 0..2 - 1
  <2> DEFINE x == w \div LW!Pow2[k]
  <2> HIDE DEF x
  <2>1. x \in Int
    BY <1>2 DEF x
  <2>2. x % 2 \in 0..1
    BY <2>1
  <2> QED
    BY <2>2 DEF x
<1> QED
  BY <1>2, <1>3 DEF LW!Bit

Tables == [{0, 1} -> [{0, 1} -> {0, 1}]]
\* f is the number made of the bits up to each place.
Joins(f, table, a, b) ==
  /\ f \in [0..XLen -> Nat] /\ f[0] = 0
  /\ \A k \in 1..XLen :
       /\ f[k] = f[k - 1] + LW!Pow2[k - 1] * table[LW!Bit(a, k - 1)][LW!Bit(b, k - 1)]
       /\ table[LW!Bit(a, k - 1)][LW!Bit(b, k - 1)] \in {0, 1}
       /\ f[k] < LW!Pow2[k]

LEMMA BitsJoined ==
  ASSUME NEW table \in Tables, NEW a \in LW!Words, NEW b \in LW!Words
  PROVE  \E f : Joins(f, table, a, b) /\ f[XLen] = LW!BitByBit(table, a, b)
<1> DEFINE T(k) == table[LW!Bit(a, k)][LW!Bit(b, k)]
           step == [k \in 1..XLen |-> [x \in Nat |-> x + LW!Pow2[k - 1] * T(k - 1)]]
           Is(f) == f = [n \in 0..XLen |-> IF n = 0 THEN 0
             ELSE f[n - 1] + LW!Pow2[n - 1] * T(n - 1)]
<1>1. XLen \in Nat
  BY LoweringAssumption DEF LW!IsConfiguration
<1>2. \A k \in 0..XLen : T(k) \in {0, 1} /\ LW!Pow2[k] \in Nat \ {0}
  BY BitType, PowersExist DEF Tables
<1> HIDE DEF T
<1>3. \A k \in 1..XLen : k - 1 \in 0..XLen /\ LW!Pow2[k - 1] * T(k - 1) \in Nat
  <2> SUFFICES ASSUME NEW k \in 1..XLen PROVE k - 1 \in 0..XLen /\ LW!Pow2[k - 1] * T(k - 1) \in Nat
    OBVIOUS
  <2>1. k - 1 \in 0..XLen
    BY <1>1
  <2>2. T(k - 1) \in {0, 1} /\ LW!Pow2[k - 1] \in Nat \ {0}
    BY <1>2, <2>1
  <2> QED
    BY <2>1, <2>2
<1>4. step \in Steps(XLen, Nat)
  <2>1. \A k \in 1..XLen : [x \in Nat |-> x + LW!Pow2[k - 1] * T(k - 1)] \in [Nat -> Nat]
    BY <1>3
  <2> QED
    BY <2>1 DEF Steps
<1>5. PICK f : IsRecursion(f, XLen, Nat, 0, step)
  <2> HIDE DEF step
  <2> QED
    BY <1>1, <1>4, Recursion
<1>6. f \in [0..XLen -> Nat] /\ f[0] = 0
  BY <1>5 DEF IsRecursion
<1>7. \A k \in 1..XLen : f[k] = f[k - 1] + LW!Pow2[k - 1] * T(k - 1)
  <2>1. \A k \in 1..XLen : k - 1 \in 0..XLen /\ f[k - 1] \in Nat
    BY <1>1, <1>6
  <2>2. \A k \in 1..XLen : f[k] = step[k][f[k - 1]]
    BY <1>5 DEF IsRecursion
  <2> QED
    BY <2>1, <2>2
<1>8. Is(f)
  BY <1>1, <1>6, <1>7
<1> DEFINE upTo == CHOOSE g : Is(g)
<1>9. Is(upTo)
  <2> HIDE DEF Is
  <2> QED
    BY <1>8, Zenon
<1>10. LW!BitByBit(table, a, b) = upTo[XLen]
  BY DEF LW!BitByBit, T
<1> HIDE DEF upTo
<1>11. upTo[0] = 0 /\ \A k \in 1..XLen : upTo[k] = upTo[k - 1] + LW!Pow2[k - 1] * T(k - 1)
  BY <1>1, <1>9
<1> HIDE DEF Is
<1> DEFINE D == {n \in 0..XLen : upTo[n] = f[n] /\ f[n] < LW!Pow2[n]}
<1>12. \A n \in 0..XLen : n \in D
  <2>1. 0 \in D
    BY <1>1, <1>6, <1>11, PowersExist
  <2>2. ASSUME NEW n \in 0..XLen - 1, n \in D PROVE n + 1 \in D
    <3>1. n + 1 \in 1..XLen /\ (n + 1) - 1 = n /\ n \in 0..XLen
      BY <1>1
    <3>2. f[n + 1] = f[n] + LW!Pow2[n] * T(n) /\ upTo[n + 1] = upTo[n] + LW!Pow2[n] * T(n)
      BY <1>7, <1>11, <3>1
    <3>3. T(n) \in {0, 1} /\ LW!Pow2[n] \in Nat \ {0} /\ f[n] \in Nat /\ LW!Pow2[n + 1]
            = 2 * LW!Pow2[n]
      BY <1>2, <1>6, <3>1, PowersExist
    <3>4. LW!Pow2[n] * T(n) <= LW!Pow2[n]
      BY <3>3
    <3>5. f[n + 1] < LW!Pow2[n + 1]
      BY <2>2, <3>2, <3>3
    <3> QED
      BY <2>2, <3>1, <3>2, <3>5
  <2> HIDE DEF D
  <2> QED
    BY <1>1, <2>1, <2>2, AllUpTo
<1>13. \A n \in 0..XLen : upTo[n] = f[n] /\ f[n] < LW!Pow2[n]
  BY <1>12
<1>14. Joins(f, table, a, b)
  <2>1. \A k \in 1..XLen : k - 1 \in 0..XLen /\ k \in 0..XLen
    BY <1>1
  <2>2. \A k \in 1..XLen : T(k - 1) \in {0, 1} /\ f[k] < LW!Pow2[k]
    BY <1>2, <1>13, <2>1
  <2> QED
    BY <1>6, <1>7, <2>2 DEF Joins, T
<1>15. f[XLen] = LW!BitByBit(table, a, b)
  BY <1>1, <1>10, <1>13
<1> QED
  BY <1>14, <1>15

LEMMA BitByBitType ==
  ASSUME NEW table \in Tables, NEW a \in LW!Words, NEW b \in LW!Words
  PROVE  LW!BitByBit(table, a, b) \in LW!Words
<1>1. PICK f : Joins(f, table, a, b) /\ f[XLen] = LW!BitByBit(table, a, b)
  BY BitsJoined
<1>2. XLen \in 1..XLen /\ XLen \in 0..XLen
  BY LoweringAssumption DEF LW!IsConfiguration
<1> QED
  BY <1>1, <1>2, WordType DEF Joins, LW!Words

LEMMA BitsCommute ==
  ASSUME NEW table \in Tables, NEW a \in LW!Words, NEW b \in LW!Words,
         \A x, y \in {0, 1} : table[x][y] = table[y][x]
  PROVE  LW!BitByBit(table, a, b) = LW!BitByBit(table, b, a)
<1>1. PICK f : Joins(f, table, a, b) /\ f[XLen] = LW!BitByBit(table, a, b)
  BY BitsJoined
<1>2. PICK g : Joins(g, table, b, a) /\ g[XLen] = LW!BitByBit(table, b, a)
  BY BitsJoined
<1>3. XLen \in Nat
  BY LoweringAssumption DEF LW!IsConfiguration
<1> DEFINE D == {n \in 0..XLen : f[n] = g[n]}
<1>4. \A n \in 0..XLen : n \in D
  <2>1. 0 \in D
    BY <1>1, <1>2, <1>3 DEF Joins
  <2>2. ASSUME NEW n \in 0..XLen - 1, n \in D PROVE n + 1 \in D
    <3>1. n + 1 \in 1..XLen /\ (n + 1) - 1 = n /\ n \in 0..XLen
      BY <1>3
    <3>2. /\ f[n + 1] = f[n] + LW!Pow2[n] * table[LW!Bit(a, n)][LW!Bit(b, n)]
          /\ g[n + 1] = g[n] + LW!Pow2[n] * table[LW!Bit(b, n)][LW!Bit(a, n)]
      BY <1>1, <1>2, <3>1 DEF Joins
    <3>3. table[LW!Bit(a, n)][LW!Bit(b, n)] = table[LW!Bit(b, n)][LW!Bit(a, n)]
      BY <3>1, BitType
    <3> QED
      BY <2>2, <3>1, <3>2, <3>3
  <2> HIDE DEF D
  <2> QED
    BY <1>3, <2>1, <2>2, AllUpTo
<1>5. f[XLen] = g[XLen]
  BY <1>3, <1>4
<1> QED
  BY <1>1, <1>2, <1>5

LEMMA BitOps ==
  ASSUME NEW a \in LW!Words, NEW b \in LW!Words
  PROVE  /\ LW!And(a, b) \in LW!Words /\ LW!And(a, b) = LW!And(b, a)
         /\ LW!Or(a, b) \in LW!Words /\ LW!Or(a, b) = LW!Or(b, a)
         /\ LW!Xor(a, b) \in LW!Words /\ LW!Xor(a, b) = LW!Xor(b, a)
<1> DEFINE A == [x \in {0, 1} |-> [y \in {0, 1} |-> LW!Truth(x = 1 /\ y = 1)]]
           O == [x \in {0, 1} |-> [y \in {0, 1} |-> LW!Truth(x = 1 \/ y = 1)]]
           X == [x \in {0, 1} |-> [y \in {0, 1} |-> LW!Truth(x # y)]]
<1>1. A \in Tables /\ O \in Tables /\ X \in Tables
  BY DEF Tables, LW!Truth
<1>2. \A x, y \in {0, 1} : A[x][y] = A[y][x] /\ O[x][y] = O[y][x] /\ X[x][y] = X[y][x]
  BY DEF LW!Truth
<1> HIDE DEF A, O, X
<1>3. /\ LW!BitByBit(A, a, b) \in LW!Words /\ LW!BitByBit(A, a, b) = LW!BitByBit(A, b, a)
      /\ LW!BitByBit(O, a, b) \in LW!Words /\ LW!BitByBit(O, a, b) = LW!BitByBit(O, b, a)
      /\ LW!BitByBit(X, a, b) \in LW!Words /\ LW!BitByBit(X, a, b) = LW!BitByBit(X, b, a)
  BY <1>1, <1>2, BitByBitType, BitsCommute
<1> QED
  BY <1>3 DEF LW!And, LW!Or, LW!Xor, A, O, X

LEMMA XorBits ==
  ASSUME NEW a \in LW!Words, NEW b \in LW!Words
  PROVE  \E f \in [0..XLen -> Nat] :
           /\ f[0] = 0 /\ f[XLen] = LW!Xor(a, b)
           /\ \A k \in 1..XLen :
                f[k] = f[k - 1] + LW!Pow2[k - 1] * LW!Truth(LW!Bit(a, k - 1) # LW!Bit(b, k - 1))
<1> DEFINE X == [x \in {0, 1} |-> [y \in {0, 1} |-> LW!Truth(x # y)]]
<1>1. X \in Tables
  BY DEF Tables, LW!Truth
<1>2. \A x, y \in {0, 1} : X[x][y] = LW!Truth(x # y)
  OBVIOUS
<1>3. LW!Xor(a, b) = LW!BitByBit(X, a, b)
  BY DEF LW!Xor
<1> HIDE DEF X
<1>4. PICK f : Joins(f, X, a, b) /\ f[XLen] = LW!BitByBit(X, a, b)
  BY <1>1, BitsJoined
<1>5. \A k \in 1..XLen : X[LW!Bit(a, k - 1)][LW!Bit(b, k - 1)]
        = LW!Truth(LW!Bit(a, k - 1) # LW!Bit(b, k - 1))
  <2> SUFFICES ASSUME NEW k \in 1..XLen
               PROVE  X[LW!Bit(a, k - 1)][LW!Bit(b, k - 1)]
                        = LW!Truth(LW!Bit(a, k - 1) # LW!Bit(b, k - 1))
    OBVIOUS
  <2>1. k - 1 \in 0..XLen
    BY LoweringAssumption DEF LW!IsConfiguration
  <2>2. LW!Bit(a, k - 1) \in {0, 1} /\ LW!Bit(b, k - 1) \in {0, 1}
    BY <2>1, BitType
  <2> QED
    BY <1>2, <2>2
<1> QED
  BY <1>3, <1>4, <1>5 DEF Joins

\* One more bit of w.
LEMMA LowBits ==
  ASSUME NEW w \in LW!Words, NEW n \in 0..XLen - 1
  PROVE  w % LW!Pow2[n + 1] = LW!Pow2[n] * LW!Bit(w, n) + (w % LW!Pow2[n])
<1> DEFINE W == LW!Pow2[n]
           q == w \div W
           r == w % W
<1>1. n \in 0..XLen /\ n + 1 \in 1..XLen /\ (n + 1) - 1 = n /\ w \in Int
  BY WordType, LoweringAssumption DEF LW!IsConfiguration
<1>2. W \in Nat \ {0} /\ LW!Pow2[n + 1] = 2 * W
  BY <1>1, PowersExist
<1>3. LW!Bit(w, n) = q % 2
  BY DEF LW!Bit
<1> HIDE DEF W
<1>4. r \in 0..W - 1 /\ q \in Int /\ w = W * q + r
  BY <1>1, <1>2, Division
<1> HIDE DEF q, r
<1>5. q % 2 \in 0..1 /\ q \div 2 \in Int /\ q = 2 * (q \div 2) + (q % 2)
  BY <1>4
<1> DEFINE h == q \div 2
           t == q % 2
<1>6. h \in Int /\ t \in 0..1 /\ q = 2 * h + t
  BY <1>5
<1> HIDE DEF h, t
<1>7. w = (2 * W) * h + (W * t + r)
  BY <1>2, <1>4, <1>6
<1>8. W * t + r \in 0..2 * W - 1
  <2>1. t = 0 \/ t = 1
    BY <1>6
  <2> QED
    BY <1>2, <1>4, <2>1
<1>9. 2 * W \in Nat \ {0}
  BY <1>2
<1>10. w % (2 * W) = W * t + r
  BY <1>6, <1>7, <1>8, <1>9, Remaining
<1> QED
  BY <1>2, <1>3, <1>10 DEF t, r, W

LEMMA XorZero ==
  ASSUME NEW a \in LW!Words, NEW b \in LW!Words
  PROVE  LW!Xor(a, b) = 0 <=> a = b
<1>1. PICK f \in [0..XLen -> Nat] :
        /\ f[0] = 0 /\ f[XLen] = LW!Xor(a, b)
        /\ \A k \in 1..XLen :
             f[k] = f[k - 1] + LW!Pow2[k - 1] * LW!Truth(LW!Bit(a, k - 1) # LW!Bit(b, k - 1))
  BY XorBits
<1>2. XLen \in Nat
  BY LoweringAssumption DEF LW!IsConfiguration
<1>3. \A n \in 0..XLen - 1 :
        /\ n \in 0..XLen /\ f[n] \in Nat /\ f[n + 1] \in Nat /\ LW!Pow2[n] \in Nat \ {0}
        /\ LW!Bit(a, n) = LW!Bit(b, n) => f[n + 1] = f[n]
        /\ LW!Bit(a, n) # LW!Bit(b, n) => f[n + 1] = f[n] + LW!Pow2[n]
  <2> SUFFICES ASSUME NEW n \in 0..XLen - 1
               PROVE  /\ n \in 0..XLen /\ f[n] \in Nat /\ f[n + 1] \in Nat
                           /\ LW!Pow2[n] \in Nat \ {0}
                      /\ LW!Bit(a, n) = LW!Bit(b, n) => f[n + 1] = f[n]
                      /\ LW!Bit(a, n) # LW!Bit(b, n) => f[n + 1] = f[n] + LW!Pow2[n]
    OBVIOUS
  <2>1. n + 1 \in 1..XLen /\ (n + 1) - 1 = n /\ n \in 0..XLen /\ n + 1 \in 0..XLen
    BY <1>2
  <2>2. f[n] \in Nat /\ f[n + 1] \in Nat /\ LW!Pow2[n] \in Nat \ {0}
    BY <2>1, PowersExist
  <2>3. f[n + 1] = f[n] + LW!Pow2[n] * LW!Truth(LW!Bit(a, n) # LW!Bit(b, n))
    BY <1>1, <2>1
  <2> QED
    BY <2>1, <2>2, <2>3 DEF LW!Truth
<1>4. ASSUME a = b PROVE LW!Xor(a, b) = 0
  <2> DEFINE D == {n \in 0..XLen : f[n] = 0}
  <2>1. 0 \in D
    BY <1>1, <1>2
  <2>2. \A n \in 0..XLen - 1 : n \in D => n + 1 \in D
    BY <1>2, <1>3, <1>4
  <2> HIDE DEF D
  <2>3. \A n \in 0..XLen : n \in D
    BY <1>2, <2>1, <2>2, AllUpTo
  <2> QED
    BY <1>1, <1>2, <2>3 DEF D
<1>5. ASSUME LW!Xor(a, b) = 0 PROVE a = b
  <2> DEFINE D == {n \in 0..XLen : f[n] = 0 => a % LW!Pow2[n] = b % LW!Pow2[n]}
  <2>1. 0 \in D
    <3>1. LW!Pow2[0] = 1 /\ a \in Int /\ b \in Int
      BY WordType, PowersExist
    <3>2. a % 1 = b % 1
      BY <3>1
    <3> QED
      BY <1>2, <3>1, <3>2
  <2>2. ASSUME NEW n \in 0..XLen - 1, n \in D PROVE n + 1 \in D
    <3>1. CASE f[n + 1] = 0
      <4>1. f[n] = 0 /\ LW!Bit(a, n) = LW!Bit(b, n)
        BY <1>3, <3>1
      <4>2. a % LW!Pow2[n] = b % LW!Pow2[n]
        BY <2>2, <4>1
      <4>3. a % LW!Pow2[n + 1] = b % LW!Pow2[n + 1]
        BY <4>1, <4>2, LowBits
      <4> QED
        BY <1>2, <4>3
    <3> QED
      BY <1>2, <3>1
  <2> HIDE DEF D
  <2>3. \A n \in 0..XLen : n \in D
    BY <1>2, <2>1, <2>2, AllUpTo
  <2>4. LW!Word(a) = LW!Word(b)
    BY <1>1, <1>2, <1>5, <2>3 DEF D, LW!Word
  <2> QED
    BY <2>4, WordType
<1> QED
  BY <1>4, <1>5

LEMMA XorOne ==
  ASSUME NEW t \in {0, 1}
  PROVE  LW!Xor(t, 1) = 1 - t /\ 0 \in LW!Words /\ 1 \in LW!Words
<1>1. XLen \in Nat /\ 1 \in 1..XLen
  BY LoweringAssumption DEF LW!IsConfiguration
<1>2. 0 \in LW!Words /\ 1 \in LW!Words /\ t \in LW!Words
  BY WordType DEF LW!Words
<1>3. PICK f \in [0..XLen -> Nat] :
        /\ f[0] = 0 /\ f[XLen] = LW!Xor(t, 1)
        /\ \A k \in 1..XLen :
             f[k] = f[k - 1] + LW!Pow2[k - 1] * LW!Truth(LW!Bit(t, k - 1) # LW!Bit(1, k - 1))
  BY <1>2, XorBits
<1>4. LW!Bit(t, 0) = t /\ LW!Bit(1, 0) = 1
  BY PowersExist DEF LW!Bit
<1>5. f[1] = 1 - t
  <2>1. f[1] = f[0] + LW!Pow2[0] * LW!Truth(LW!Bit(t, 0) # LW!Bit(1, 0))
    BY <1>1, <1>3
  <2> QED
    BY <1>3, <1>4, <2>1, PowersExist DEF LW!Truth
<1> DEFINE D == {n \in 0..XLen : n = 0 \/ f[n] = 1 - t}
<1>6. 0 \in D
  BY <1>1
<1>7. ASSUME NEW n \in 0..XLen - 1, n \in D PROVE n + 1 \in D
  <2>1. n + 1 \in 1..XLen /\ (n + 1) - 1 = n /\ n \in 0..XLen /\ n + 1 \in 0..XLen
    BY <1>1
  <2>2. CASE n = 0
    BY <1>5, <2>1, <2>2
  <2>3. CASE n # 0
    <3>1. 0 \in 0..XLen /\ 0 < n
      BY <1>1, <2>3
    <3>2. LW!Pow2[0] < LW!Pow2[n] /\ LW!Pow2[0] = 1 /\ LW!Pow2[n] \in Nat \ {0}
      BY <2>1, <3>1, Grow, PowersExist
    <3>3. \A x \in {0, 1} : x \div LW!Pow2[n] = 0
      <4> DEFINE W == LW!Pow2[n]
      <4> HIDE DEF W
      <4>1. W \in Nat \ {0} /\ W > 1
        BY <3>2 DEF W
      <4>2. \A x \in {0, 1} : x \in 0..W - 1 /\ W * 0 + x = x
        BY <4>1
      <4>3. \A x \in {0, 1} : x \div W = 0
        BY <4>1, <4>2, Remaining
      <4> QED
        BY <4>3 DEF W
    <3>4. LW!Bit(t, n) = 0 /\ LW!Bit(1, n) = 0
      BY <3>3 DEF LW!Bit
    <3>5. f[n + 1] = f[n] + LW!Pow2[n] * 0
      BY <1>3, <2>1, <3>4 DEF LW!Truth
    <3>6. f[n + 1] = f[n]
      BY <2>1, <3>2, <3>5
    <3> QED
      BY <1>7, <2>1, <2>3, <3>6
  <2> QED
    BY <2>2, <2>3
<1> HIDE DEF D
<1>8. \A n \in 0..XLen : n \in D
  BY <1>1, <1>6, <1>7, AllUpTo
<1>9. LW!Xor(t, 1) = 1 - t
  BY <1>1, <1>3, <1>8 DEF D
<1> QED
  BY <1>2, <1>9

-----------------------------------------------------------------------------
(* The machine                                                             *)

States == [store : [LW!Places -> LW!Words], mem : [LW!Words -> LW!Words]]
Operands3 == {LW!At(p) : p \in LW!Places} \cup {LW!Stack} \cup {LW!Imm(n) : n \in Int}
AluOps ==
  {"ADD", "ADDI", "SUB", "MUL", "DIVU", "REMU", "DIV", "REM", "AND", "ANDI", "OR", "ORI",
   "XOR", "XORI", "SLL", "SLLI", "SRL", "SRLI", "SRA", "SRAI", "SLT", "SLTU", "SLTIU"}

\* An instruction that the machine can run.
IsIns(m) ==
  /\ m.a \in Operands3 /\ m.b \in Operands3
  /\ m.op \in AluOps \cup {"MV", "LOAD", "STORE"}
  /\ m.op = "STORE" => m.rd \in 1..XLen
  /\ m.op # "STORE" => m.rd \in LW!Places
  /\ m.op = "LOAD" => \E n \in 1..XLen : m.b = LW!Imm(n)

Yield(s, m) ==
  LET a == LW!Read(s.store, m.a)
      b == LW!Read(s.store, m.b)
  IN CASE m.op = "LOAD" -> LW!Word(LW!Extended(b, s.mem[a]))
       [] m.op = "MV" -> a
       [] OTHER -> LW!Alu(m.op, a, b)
Put(s, p, v) == [store |-> [s.store EXCEPT ![p] = v], mem |-> s.mem]
Overwritten(s, m) ==
  LET b == LW!Read(s.store, m.b)
  IN [store |-> s.store,
      mem |-> [s.mem EXCEPT ![b] = LW!Low(m.rd, s.mem[b], LW!Read(s.store, m.a))]]
Effect(s, m) == IF m.op = "STORE" THEN Overwritten(s, m) ELSE Put(s, m.rd, Yield(s, m))

LEMMA ReadFacts ==
  ASSUME NEW st \in [LW!Places -> LW!Words]
  PROVE  /\ \A p : LW!Read(st, LW!At(p)) = st[p]
         /\ \A n : LW!Read(st, LW!Imm(n)) = LW!Word(n)
         /\ LW!Read(st, LW!Stack) = LW!StackAddr /\ LW!StackAddr \in LW!Words
         /\ \A o \in Operands3 : LW!Read(st, o) \in LW!Words
<1>1. /\ \A p : LW!Read(st, LW!At(p)) = st[p]
      /\ \A n : LW!Read(st, LW!Imm(n)) = LW!Word(n)
      /\ LW!Read(st, LW!Stack) = LW!StackAddr
  BY DEF LW!Read, LW!At, LW!Imm, LW!Stack
<1>2. LW!StackAddr \in LW!Words
  BY LoweringAssumption DEF LW!IsConfiguration
<1>3. ASSUME NEW o \in Operands3 PROVE LW!Read(st, o) \in LW!Words
  <2>1. CASE \E p \in LW!Places : o = LW!At(p)
    BY <1>1, <2>1
  <2>2. CASE o = LW!Stack
    BY <1>1, <1>2, <2>2
  <2>3. CASE \E n \in Int : o = LW!Imm(n)
    BY <1>1, <2>3, WordType
  <2> QED
    BY <2>1, <2>2, <2>3 DEF Operands3
<1> QED
  BY <1>1, <1>2, <1>3

LEMMA QuotientType ==
  ASSUME NEW a \in Int, NEW b \in Int, b # 0
  PROVE  LW!Quotient(a, b) \in Int /\ LW!Remainder(a, b) \in Int
<1>1. LW!Quotient(a, b) \in Int
  <2> DEFINE x == IF a < 0 THEN -a ELSE a
             y == IF b < 0 THEN -b ELSE b
  <2>1. x \in Int /\ y \in Nat \ {0}
    OBVIOUS
  <2> HIDE DEF x, y
  <2>2. x \div y \in Int
    BY <2>1, Division
  <2>3. LW!Quotient(a, b) = IF (a < 0) = (b < 0) THEN x \div y ELSE -(x \div y)
    BY DEF LW!Quotient, x, y
  <2> QED
    BY <2>2, <2>3
<1> QED
  BY <1>1 DEF LW!Remainder

LEMMA AluType ==
  ASSUME NEW op \in AluOps, NEW a \in LW!Words, NEW b \in LW!Words
  PROVE  LW!Alu(op, a, b) \in LW!Words
<1>1. a \in Int /\ b \in Int /\ LW!Signed(a) \in Int /\ LW!Signed(b) \in Int
  BY WordType, SignedType
<1>2. b % XLen \in 0..XLen /\ LW!Pow2[b % XLen] \in Nat \ {0}
  <2>1. XLen \in Nat \ {0}
    BY LoweringAssumption DEF LW!IsConfiguration
  <2>2. b % XLen \in 0..XLen - 1
    BY <1>1, <2>1, Division
  <2> QED
    BY <2>1, <2>2, PowersExist
<1>3. CASE op \in {"ADD", "ADDI", "SUB", "MUL"}
  <2>1. a + b \in Int /\ a - b \in Int /\ a * b \in Int
    BY <1>1
  <2> QED
    BY <1>3, <2>1, WordType DEF LW!Alu
<1>4. CASE op \in {"DIVU", "REMU"}
  <2>1. CASE b = 0
    <3>1. LW!Pow2[XLen] - 1 \in LW!Words
      BY WordType DEF LW!Words
    <3> QED
      BY <1>4, <2>1, <3>1 DEF LW!Alu
  <2>2. CASE b # 0
    <3>1. a \in Nat /\ b \in Nat \ {0}
      BY <2>2, WordType
    <3>2. a % b \in 0..b - 1 /\ a \div b \in Int /\ a = b * (a \div b) + (a % b)
      BY <3>1, Division
    <3>3. a \div b <= a /\ a \div b >= 0
      BY <3>1
    <3>4. a \div b \in LW!Words /\ a % b \in LW!Words
      BY <3>1, <3>2, <3>3, WordType DEF LW!Words
    <3> QED
      BY <1>4, <2>2, <3>4 DEF LW!Alu
  <2> QED
    BY <2>1, <2>2
<1>5. CASE op \in {"DIV", "REM"}
  <2>1. CASE b = 0
    <3>1. LW!Pow2[XLen] - 1 \in LW!Words
      BY WordType DEF LW!Words
    <3> QED
      BY <1>5, <2>1, <3>1 DEF LW!Alu
  <2>2. CASE b # 0
    <3>1. LW!Signed(b) # 0
      <4>1. LW!Word(LW!Signed(b)) = b /\ 0 \in LW!Words
        BY SignedType, WordType DEF LW!Words
      <4> QED
        BY <2>2, <4>1, WordType
    <3>2. LW!Quotient(LW!Signed(a), LW!Signed(b)) \in Int
            /\ LW!Remainder(LW!Signed(a), LW!Signed(b)) \in Int
      BY <1>1, <3>1, QuotientType
    <3> QED
      BY <1>5, <2>2, <3>2, WordType DEF LW!Alu
  <2> QED
    BY <2>1, <2>2
<1>6. CASE op \in {"AND", "ANDI", "OR", "ORI", "XOR", "XORI"}
  BY <1>6, BitOps DEF LW!Alu
<1>7. CASE op \in {"SLL", "SLLI"}
  <2>1. a * LW!Pow2[b % XLen] \in Int
    BY <1>1, <1>2
  <2> QED
    BY <1>7, <2>1, WordType DEF LW!Alu
<1>8. CASE op \in {"SRL", "SRLI"}
  <2> DEFINE W == LW!Pow2[b % XLen]
  <2>1. LW!Alu(op, a, b) = a \div W
    BY <1>8 DEF LW!Alu
  <2>2. W \in Nat \ {0}
    BY <1>2
  <2> HIDE DEF W
  <2>3. a \in Nat /\ a % W \in 0..W - 1 /\ a \div W \in Int /\ a = W * (a \div W) + (a % W)
    BY <1>1, <2>2, Division, WordType
  <2>4. a \div W <= a /\ a \div W >= 0
    BY <2>2, <2>3
  <2>5. a \div W \in LW!Words
    BY <2>3, <2>4, WordType DEF LW!Words
  <2> QED
    BY <2>1, <2>5
<1>9. CASE op \in {"SRA", "SRAI"}
  <2> DEFINE W == LW!Pow2[b % XLen]
  <2>1. LW!Alu(op, a, b) = LW!Word(LW!Signed(a) \div W)
    BY <1>9 DEF LW!Alu
  <2>2. W \in Nat \ {0}
    BY <1>2
  <2> HIDE DEF W
  <2>3. LW!Signed(a) \div W \in Int
    BY <1>1, <2>2, Division
  <2> QED
    BY <2>1, <2>3, WordType
<1>10. CASE op \in {"SLT", "SLTU", "SLTIU"}
  BY <1>10, XorOne DEF LW!Alu, LW!Truth
<1> QED
  BY <1>3, <1>4, <1>5, <1>6, <1>7, <1>8, <1>9, <1>10 DEF AluOps

LEMMA ExtendedType ==
  ASSUME NEW bits \in 1..XLen, NEW w \in LW!Words
  PROVE  LW!Extended(bits, w) \in Int
<1>1. bits \in 0..XLen /\ w \in Int
  BY WordType, LoweringAssumption DEF LW!IsConfiguration
<1>2. LW!Pow2[bits] \in Nat \ {0}
  BY <1>1, PowersExist
<1>3. w % LW!Pow2[bits] \in Int
  BY <1>1, <1>2, Division
<1> QED
  BY <1>2, <1>3 DEF LW!Extended

\* A cast that keeps the integers of the type cast from keeps their words.
LEMMA CastKeepsWord ==
  ASSUME NEW from, NEW to, from.bits \in 1..XLen, to.bits \in 1..XLen,
         from.unsigned \in BOOLEAN, to.unsigned \in BOOLEAN, LW!Keeps(from, to),
         NEW w \in LW!Words, LW!Holds(from, w)
  PROVE  w = LW!Word(LW!IntOf(to, LW!IntOf(from, w)))
<1> DEFINE f == from.bits
           t == to.bits
           F == LW!Pow2[f]
           T == LW!Pow2[t]
           H == LW!Pow2[t - 1]
           G == LW!Pow2[f - 1]
           n == LW!IntOf(from, w)
<1>1. /\ f \in 1..XLen /\ t \in 1..XLen /\ f < t /\ XLen \in Nat
      /\ from.unsigned \/ ~to.unsigned \/ t = XLen
  BY LoweringAssumption DEF LW!Keeps, LW!IsConfiguration
<1>2. w = LW!Word(n) /\ w \in Nat
  BY WordType DEF LW!Holds
<1>3. LW!IntOf(to, n) = IF to.unsigned THEN n % T
                        ELSE IF n % T < H THEN n % T ELSE (n % T) - T
  BY DEF LW!IntOf, LW!Extended
<1>4. n = IF from.unsigned THEN w % F ELSE IF w % F < G THEN w % F ELSE (w % F) - F
  BY DEF LW!IntOf, LW!Extended
<1> HIDE DEF n
<1>5. F \in Nat \ {0} /\ G \in Nat \ {0} /\ F = 2 * G /\ H \in Nat \ {0} /\ T = 2 * H
  <2>1. f \in 0..XLen /\ f - 1 \in 0..XLen /\ t - 1 \in 0..XLen
    BY <1>1
  <2>2. F \in Nat \ {0} /\ G \in Nat \ {0} /\ H \in Nat \ {0}
    BY <2>1, PowersExist
  <2>3. F = 2 * G /\ T = 2 * H
    BY <1>1, PowersExist
  <2> QED
    BY <2>2, <2>3
<1>6. F <= H
  <2>1. f \in 0..XLen /\ t - 1 \in 0..XLen /\ f <= t - 1
    BY <1>1
  <2>2. f = t - 1 \/ f < t - 1
    BY <1>1
  <2>3. f < t - 1 => F < H
    BY <2>1, Grow
  <2>4. f = t - 1 => F = H
    OBVIOUS
  <2> QED
    BY <1>5, <2>2, <2>3, <2>4
<1> HIDE DEF F, G, H
<1>7. w % F \in 0..F - 1
  <2>1. w \in Int /\ F \in Nat \ {0}
    BY <1>2, <1>5
  <2> QED
    BY <2>1, Division
<1>8. t = XLen => T = LW!Pow2[XLen]
  OBVIOUS
<1> HIDE DEF T, f, t
<1>9. CASE n >= 0
  <2>1. n \in 0..H - 1
    BY <1>4, <1>5, <1>6, <1>7, <1>9
  <2>2. T * 0 + n = n /\ n \in 0..T - 1 /\ T \in Nat \ {0}
    BY <1>5, <2>1
  <2>3. n % T = n
    BY <2>2, Remaining
  <2>4. n < H
    BY <1>5, <2>1
  <2>5. LW!IntOf(to, n) = n
    BY <1>3, <2>3, <2>4
  <2> QED
    BY <1>2, <2>5 DEF n
<1>10. CASE ~(n >= 0)
  <2>1. ~from.unsigned /\ n \in -H..-1
    BY <1>4, <1>5, <1>6, <1>7, <1>10
  <2>2. n = T * (-1) + (n + T) /\ n + T \in 0..T - 1 /\ T \in Nat \ {0} /\ n + T >= H /\ -1 \in Int
    BY <1>5, <2>1
  <2>3. n % T = n + T
    BY <2>2, Remaining
  <2>4. CASE ~to.unsigned
    <3>1. LW!IntOf(to, n) = n
      BY <1>3, <1>5, <2>1, <2>2, <2>3, <2>4
    <3> QED
      BY <1>2, <3>1 DEF n
  <2>5. CASE to.unsigned
    <3>1. LW!IntOf(to, n) = n % LW!Pow2[XLen]
      BY <1>1, <1>3, <1>8, <2>1, <2>5
    <3>2. LW!IntOf(to, n) = w
      BY <1>2, <3>1 DEF LW!Word
    <3> QED
      BY <3>2, WordType DEF n
  <2> QED
    BY <2>4, <2>5
<1>11. n \in Int
  BY <1>4, <1>5, <1>7
<1> QED
  BY <1>9, <1>10, <1>11

LEMMA LowType ==
  ASSUME NEW bits \in 1..XLen, NEW old \in LW!Words, NEW w \in LW!Words
  PROVE  LW!Low(bits, old, w) \in LW!Words
<1> DEFINE W == LW!Pow2[bits]
           k == old \div W
           r == old % W
           t == w % W
<1>1. bits \in 0..XLen /\ XLen \in 0..XLen /\ bits <= XLen /\ w \in Nat /\ old \in Nat
  BY WordType, LoweringAssumption DEF LW!IsConfiguration
<1>2. LW!Low(bits, old, w) = (old - r) + t
  BY DEF LW!Low
<1>3. W \in Nat \ {0}
  BY <1>1, PowersExist
<1>4. PICK q \in Nat \ {0} : LW!Pow2[XLen] = W * q
  BY <1>1, Grow
<1> HIDE DEF W
<1>5. r \in 0..W - 1 /\ k \in Int /\ old = W * k + r /\ t \in 0..W - 1
  BY <1>1, <1>3, Division
<1>6. old < W * q
  BY <1>3, <1>4 DEF LW!Words
<1> HIDE DEF k, r, t
<1>7. (old - r) + t = W * k + t
  BY <1>3, <1>5
<1>8. k < q
  <2> SUFFICES ASSUME q <= k PROVE FALSE
    BY <1>5
  <2>1. W * q <= W * k
    BY <1>3, <1>5
  <2> QED
    BY <1>3, <1>5, <1>6, <2>1
<1>9. k >= 0
  <2> SUFFICES ASSUME k <= -1 PROVE FALSE
    BY <1>5
  <2>1. W * k <= W * (-1)
    BY <1>3, <1>5
  <2> QED
    BY <1>1, <1>3, <1>5, <2>1
<1>10. W * k + t < W * q
  <2>1. k + 1 <= q
    BY <1>5, <1>8
  <2>2. W * (k + 1) <= W * q
    BY <1>3, <1>5, <2>1
  <2> QED
    BY <1>3, <1>5, <2>2
<1>11. W * k + t >= 0
  BY <1>3, <1>5, <1>9
<1> QED
  BY <1>2, <1>3, <1>4, <1>5, <1>7, <1>10, <1>11 DEF LW!Words

LEMMA SmallWord ==
  ASSUME NEW n \in 0..XLen
  PROVE  n \in LW!Words /\ LW!Word(n) = n
<1>1. XLen \in Nat /\ XLen \in 0..XLen
  BY LoweringAssumption DEF LW!IsConfiguration
<1>0. n < LW!Pow2[n] /\ LW!Pow2[n] \in Nat /\ LW!Pow2[XLen] \in Nat
  BY <1>1, Grow, PowersExist
<1>2. LW!Pow2[n] <= LW!Pow2[XLen]
  <2>1. CASE n = XLen
    BY <1>0, <2>1
  <2>2. CASE n < XLen
    BY <1>0, <1>1, <2>2, Grow
  <2> QED
    BY <1>1, <2>1, <2>2
<1> QED
  BY <1>0, <1>2, WordType DEF LW!Words

LEMMA EffectType ==
  ASSUME NEW s \in States, NEW m, IsIns(m)
  PROVE  Effect(s, m) \in States
<1>1. s.store \in [LW!Places -> LW!Words] /\ s.mem \in [LW!Words -> LW!Words]
  BY DEF States
<1>2. LW!Read(s.store, m.a) \in LW!Words /\ LW!Read(s.store, m.b) \in LW!Words
  BY <1>1, ReadFacts DEF IsIns
<1>3. CASE m.op = "STORE"
  <2>1. m.rd \in 1..XLen
    BY <1>3 DEF IsIns
  <2>2. LW!Low(m.rd, s.mem[LW!Read(s.store, m.b)], LW!Read(s.store, m.a)) \in LW!Words
    BY <1>1, <1>2, <2>1, LowType
  <2> QED
    BY <1>1, <1>2, <1>3, <2>2 DEF Effect, Overwritten, States
<1>4. CASE m.op # "STORE"
  <2>1. m.rd \in LW!Places
    BY <1>4 DEF IsIns
  <2>2. Yield(s, m) \in LW!Words
    <3>1. CASE m.op = "LOAD"
      <4>1. PICK n \in 1..XLen : m.b = LW!Imm(n)
        BY <3>1 DEF IsIns
      <4>2. n \in 0..XLen
        BY LoweringAssumption DEF LW!IsConfiguration
      <4>3. LW!Read(s.store, m.b) = n
        BY <1>1, <4>1, <4>2, ReadFacts, SmallWord
      <4>4. LW!Extended(n, s.mem[LW!Read(s.store, m.a)]) \in Int
        BY <1>1, <1>2, ExtendedType
      <4> QED
        BY <3>1, <4>3, <4>4, WordType DEF Yield
    <3>2. CASE m.op = "MV"
      BY <1>2, <3>2 DEF Yield
    <3>3. CASE m.op \in AluOps
      BY <1>2, <3>3, AluType DEF Yield, AluOps
    <3> QED
      BY <1>4, <3>1, <3>2, <3>3 DEF IsIns
  <2> QED
    BY <1>4, <2>1, <2>2 DEF Effect, Put, States
<1> QED
  BY <1>3, <1>4

LEMMA ExecuteIs ==
  ASSUME NEW m, LW!Execute(m), [store |-> store, mem |-> cells] \in States
  PROVE  [store |-> store', mem |-> cells'] = Effect([store |-> store, mem |-> cells], m)
<1>1. CASE m.op = "STORE"
  <2>1. /\ store' = store
        /\ cells' = [cells EXCEPT ![LW!Read(store, m.b)] =
                     LW!Low(m.rd, cells[LW!Read(store, m.b)], LW!Read(store, m.a))]
    BY <1>1 DEF LW!Execute
  <2> QED
    BY <1>1, <2>1 DEF Effect, Overwritten
<1>2. CASE m.op # "STORE"
  BY <1>2 DEF LW!Execute, Effect, Put, Yield
<1> QED
  BY <1>1, <1>2

-----------------------------------------------------------------------------
(* Runs of a sequence of instructions                                      *)

Instrs ==
  {m \in [op : AluOps \cup {"MV", "LOAD", "STORE"}, rd : LW!Places \cup (1..XLen),
          a : Operands3, b : Operands3] : IsIns(m)}
\* The instructions that all but a store are made of.
Plain(i) == {m \in Instrs : LW!Encodable(m) /\ m.op # "STORE" /\ m.rd \in LW!Temps \cup {i.dst}}

\* The machine runs c from s to t.
IsRun(h, c) == \A k \in 1..Len(c) : h[k] = Effect(h[k - 1], c[k])
Leads(c, s, t) ==
  \E h \in [0..Len(c) -> States] : h[0] = s /\ h[Len(c)] = t /\ IsRun(h, c)
Goes(i, c, s, t) == c \in Seq(Plain(i)) /\ s \in States /\ t \in States /\ Leads(c, s, t)

LEMMA LeadsNowhere ==
  ASSUME NEW s \in States
  PROVE  Leads(<<>>, s, s)
<1> DEFINE h == [k \in 0..0 |-> s]
<1>1. Len(<<>>) = 0 /\ h \in [0..0 -> States] /\ h[0] = s
  OBVIOUS
<1>2. IsRun(h, <<>>)
  BY DEF IsRun
<1> QED
  BY <1>1, <1>2 DEF Leads

LEMMA LeadsOne ==
  ASSUME NEW s \in States, NEW m \in Instrs
  PROVE  Leads(<<m>>, s, Effect(s, m)) /\ Effect(s, m) \in States
<1> DEFINE h == [k \in 0..1 |-> IF k = 0 THEN s ELSE Effect(s, m)]
<1>1. Effect(s, m) \in States
  BY EffectType DEF Instrs
<1>2. Len(<<m>>) = 1 /\ <<m>>[1] = m
  OBVIOUS
<1>3. h \in [0..1 -> States] /\ h[0] = s /\ h[1] = Effect(s, m)
  BY <1>1
<1>4. IsRun(h, <<m>>)
  BY <1>2, <1>3 DEF IsRun
<1> QED
  BY <1>1, <1>2, <1>3, <1>4 DEF Leads

LEMMA LeadsOn ==
  ASSUME NEW c \in Seq(Instrs), NEW d \in Seq(Instrs), NEW s, NEW t, NEW u,
         Leads(c, s, t), Leads(d, t, u)
  PROVE  Leads(c \o d, s, u)
<1>1. PICK h \in [0..Len(c) -> States] : h[0] = s /\ h[Len(c)] = t /\ IsRun(h, c)
  BY DEF Leads
<1>2. PICK g \in [0..Len(d) -> States] : g[0] = t /\ g[Len(d)] = u /\ IsRun(g, d)
  BY DEF Leads
<1> DEFINE e == c \o d
           f == [k \in 0..Len(c) + Len(d) |-> IF k <= Len(c) THEN h[k] ELSE g[k - Len(c)]]
<1>3. Len(c) \in Nat /\ Len(d) \in Nat /\ Len(e) = Len(c) + Len(d)
  OBVIOUS
<1>4. f \in [0..Len(e) -> States]
  BY <1>3
<1>5. f[0] = s /\ f[Len(e)] = u
  <2>1. f[0] = s
    BY <1>1, <1>3
  <2>2. CASE Len(d) = 0
    <3>1. f[Len(e)] = h[Len(c)]
      BY <1>3, <2>2
    <3> QED
      BY <1>1, <1>2, <2>1, <2>2, <3>1
  <2>3. CASE Len(d) # 0
    <3>1. f[Len(e)] = g[(Len(c) + Len(d)) - Len(c)] /\ (Len(c) + Len(d)) - Len(c) = Len(d)
      BY <1>3, <2>3
    <3> QED
      BY <1>2, <2>1, <3>1
  <2> QED
    BY <2>2, <2>3
<1>6. ASSUME NEW k \in 1..Len(e) PROVE f[k] = Effect(f[k - 1], e[k])
  <2>1. CASE k <= Len(c)
    <3>1. k \in 1..Len(c) /\ e[k] = c[k] /\ f[k] = h[k] /\ f[k - 1] = h[k - 1]
      BY <1>3, <2>1
    <3> QED
      BY <1>1, <3>1 DEF IsRun
  <2>2. CASE k > Len(c)
    <3>1. k - Len(c) \in 1..Len(d) /\ e[k] = d[k - Len(c)] /\ f[k] = g[k - Len(c)]
      BY <1>3, <2>2
    <3>2. f[k - 1] = g[(k - Len(c)) - 1]
      <4>1. CASE k - 1 = Len(c)
        <5>1. (k - Len(c)) - 1 = 0 /\ f[k - 1] = h[Len(c)]
          BY <1>3, <4>1
        <5> QED
          BY <1>1, <1>2, <5>1
      <4>2. CASE k - 1 # Len(c)
        <5>1. /\ k - 1 \in 0..Len(c) + Len(d) /\ ~(k - 1 <= Len(c))
              /\ (k - 1) - Len(c) = (k - Len(c)) - 1
          BY <1>3, <2>2, <4>2
        <5> QED
          BY <5>1
      <4> QED
        BY <4>1, <4>2
    <3> QED
      BY <1>2, <3>1, <3>2 DEF IsRun
  <2> QED
    BY <1>3, <2>1, <2>2
<1>7. IsRun(f, e)
  BY <1>6 DEF IsRun
<1> HIDE DEF f, e
<1>8. Leads(e, s, u)
  BY <1>4, <1>5, <1>7 DEF Leads
<1> QED
  BY <1>8 DEF e

LEMMA LeadsAway ==
  ASSUME NEW c \in Seq(Instrs), NEW s, NEW t, Leads(c, s, t)
  PROVE  /\ s \in States /\ t \in States
         /\ c = <<>> => s = t
         /\ c # <<>> => Leads(Tail(c), Effect(s, Head(c)), t)
<1>1. PICK h \in [0..Len(c) -> States] : h[0] = s /\ h[Len(c)] = t /\ IsRun(h, c)
  BY DEF Leads
<1>2. Len(c) \in Nat
  OBVIOUS
<1>3. s \in States /\ t \in States
  BY <1>1, <1>2
<1>4. c = <<>> => s = t
  BY <1>1
<1>5. ASSUME c # <<>> PROVE Leads(Tail(c), Effect(s, Head(c)), t)
  <2> DEFINE g == [k \in 0..Len(c) - 1 |-> h[k + 1]]
             d == Tail(c)
  <2>1. /\ Len(c) >= 1 /\ Len(d) = Len(c) - 1 /\ Head(c) = c[1]
        /\ \A k \in 1..Len(c) - 1 : d[k] = c[k + 1]
    BY <1>5
  <2>2. g \in [0..Len(d) -> States] /\ g[Len(d)] = t
    BY <1>1, <1>2, <2>1
  <2>3. g[0] = Effect(s, Head(c))
    <3>1. g[0] = h[1] /\ 1 \in 1..Len(c) /\ 1 - 1 = 0
      BY <1>2, <2>1
    <3> QED
      BY <1>1, <2>1, <3>1 DEF IsRun
  <2>4. ASSUME NEW k \in 1..Len(d) PROVE g[k] = Effect(g[k - 1], d[k])
    <3>1. k + 1 \in 1..Len(c) /\ (k + 1) - 1 = k /\ k \in 1..Len(c) - 1
      BY <1>2, <2>1
    <3>2. h[k + 1] = Effect(h[k], c[k + 1])
      BY <1>1, <3>1 DEF IsRun
    <3>3. g[k] = h[k + 1] /\ g[k - 1] = h[k] /\ d[k] = c[k + 1]
      BY <1>2, <2>1, <3>1
    <3> QED
      BY <3>2, <3>3
  <2> HIDE DEF g, d
  <2>5. IsRun(g, d)
    BY <2>4 DEF IsRun
  <2>6. Leads(d, Effect(s, Head(c)), t)
    BY <2>2, <2>3, <2>5 DEF Leads
  <2> QED
    BY <2>6 DEF d
<1> QED
  BY <1>3, <1>4, <1>5

LEMMA GoesOn ==
  ASSUME NEW i, NEW c, NEW d, NEW s, NEW t, NEW u, Goes(i, c, s, t), Goes(i, d, t, u)
  PROVE  Goes(i, c \o d, s, u)
<1>1. c \in Seq(Plain(i)) /\ d \in Seq(Plain(i)) /\ c \in Seq(Instrs) /\ d \in Seq(Instrs)
  <2>1. Plain(i) \subseteq Instrs
    BY DEF Plain
  <2> QED
    BY <2>1 DEF Goes
<1>2. c \o d \in Seq(Plain(i))
  BY <1>1
<1>3. Leads(c \o d, s, u)
  BY <1>1, LeadsOn DEF Goes
<1> QED
  BY <1>2, <1>3 DEF Goes

LEMMA GoesNowhere ==
  ASSUME NEW i, NEW s \in States
  PROVE  Goes(i, <<>>, s, s)
BY LeadsNowhere DEF Goes

LEMMA GoesOne ==
  ASSUME NEW i, NEW s \in States, NEW m \in Plain(i)
  PROVE  Goes(i, <<m>>, s, Effect(s, m))
<1>1. m \in Instrs
  BY DEF Plain
<1> QED
  BY <1>1, LeadsOne DEF Goes

-----------------------------------------------------------------------------
(* Operands, and what an instruction leaves alone                          *)

Sources == LW!Locals \cup {LW!Stack} \cup {LW!Imm(n) : n \in Int}
OnRegs == {"ADD", "SUB", "MUL", "DIVU", "REMU", "DIV", "REM", "AND", "OR", "XOR", "SLL", "SRL",
           "SRA", "SLT", "SLTU"}
OnImms == {"ADDI", "ANDI", "ORI", "XORI", "SLTIU"}
ShiftsByImm == {"SLLI", "SRLI", "SRAI"}
Kept(s, t, D) == t.mem = s.mem /\ \A p \in LW!Places \ D : t.store[p] = s.store[p]

LEMMA PlaceFacts ==
  /\ InsRegs \cap Slots = {} /\ LW!Temps \subseteq LW!Places /\ LW!zero \in LW!Places
  /\ InsRegs \subseteq LW!Places /\ Slots \subseteq LW!Places
  /\ LW!Temps = {LW!kTmpRd, LW!kTmpRs1, LW!kTmpRs2} /\ LW!zero \notin LW!Temps
  /\ LW!kTmpRd # LW!kTmpRs1 /\ LW!kTmpRd # LW!kTmpRs2 /\ LW!kTmpRs1 # LW!kTmpRs2
  /\ \A p \in InsRegs \cup Slots : p \notin LW!Temps /\ p # LW!zero /\ p # LW!Nowhere
  /\ LW!Nowhere \notin LW!Temps /\ LW!Nowhere # LW!zero
BY LoweringAssumption DEF LW!IsConfiguration, LW!Places, LW!Temps, LW!kTmpRd, LW!kTmpRs1,
     LW!kTmpRs2, LW!zero, LW!Nowhere

LEMMA SourceFacts ==
  ASSUME NEW o \in Sources
  PROVE  /\ o \in Operands3
         /\ LW!InReg(o) => \E p \in InsRegs : o = LW!At(p)
         /\ LW!IsImm(o) => ~LW!InReg(o) /\ \E n \in Int : o = LW!Imm(n)
         /\ ~LW!InReg(o) /\ ~LW!IsImm(o) => o = LW!Stack \/ \E p \in Slots : o = LW!At(p)
<1>2. CASE \E p \in InsRegs : o = LW!At(p)
  BY <1>2, PlaceFacts DEF Operands3, LW!InReg, LW!IsImm, LW!At
<1>3. CASE \E p \in Slots : o = LW!At(p)
  BY <1>3, PlaceFacts DEF Operands3, LW!InReg, LW!IsImm, LW!At
<1>4. CASE o = LW!Stack
  BY <1>4 DEF Operands3, LW!InReg, LW!IsImm, LW!Stack
<1>5. CASE \E n \in Int : o = LW!Imm(n)
  BY <1>5 DEF Operands3, LW!InReg, LW!IsImm, LW!Imm
<1> QED
  BY <1>2, <1>3, <1>4, <1>5 DEF Sources, LW!Locals

LEMMA RegOfFacts ==
  ASSUME NEW o \in Sources, NEW tmp \in LW!Temps
  PROVE  \E p \in InsRegs \cup {tmp} :
           /\ LW!RegOf(o, tmp) = LW!At(p)
           /\ LW!InReg(o) => o = LW!At(p)
           /\ ~LW!InReg(o) => p = tmp
<1>1. CASE LW!InReg(o)
  <2>1. PICK p \in InsRegs : o = LW!At(p)
    BY <1>1, SourceFacts
  <2> QED
    BY <1>1, <2>1 DEF LW!RegOf
<1>2. CASE ~LW!InReg(o)
  BY <1>2 DEF LW!RegOf
<1> QED
  BY <1>1, <1>2

\* A register operand is read from a register.
LEMMA ReadKept ==
  ASSUME NEW s \in States, NEW t \in States, NEW D, Kept(s, t, D),
         NEW o \in Operands3, \A p \in D : o # LW!At(p)
  PROVE  LW!Read(t.store, o) = LW!Read(s.store, o)
<1>1. s.store \in [LW!Places -> LW!Words] /\ t.store \in [LW!Places -> LW!Words]
  BY DEF States
<1>2. CASE \E p \in LW!Places : o = LW!At(p)
  <2>1. PICK p \in LW!Places : o = LW!At(p)
    BY <1>2
  <2>2. t.store[p] = s.store[p]
    BY <2>1 DEF Kept
  <2> QED
    BY <1>1, <2>1, <2>2, ReadFacts
<1>3. CASE o = LW!Stack
  BY <1>1, <1>3, ReadFacts
<1>4. CASE \E n \in Int : o = LW!Imm(n)
  BY <1>1, <1>4, ReadFacts
<1> QED
  BY <1>2, <1>3, <1>4 DEF Operands3

LEMMA SourceKept ==
  ASSUME NEW s \in States, NEW t \in States, NEW D \in SUBSET LW!Temps, Kept(s, t, D),
         NEW o \in Sources
  PROVE  LW!Read(t.store, o) = LW!Read(s.store, o)
<1>1. \A p \in D : o # LW!At(p)
  <2> SUFFICES ASSUME NEW p \in D, o = LW!At(p) PROVE FALSE
    OBVIOUS
  <2>1. \E q \in InsRegs \cup Slots : o = LW!At(q)
    <3>1. o # LW!Stack /\ \A n : o # LW!Imm(n)
      BY DEF LW!At, LW!Stack, LW!Imm
    <3> QED
      BY <3>1 DEF Sources, LW!Locals
  <2>2. p \in InsRegs \cup Slots
    BY <2>1 DEF LW!At
  <2> QED
    BY <2>2, PlaceFacts
<1> QED
  BY <1>1, ReadKept, SourceFacts

LEMMA KeptAlso ==
  ASSUME NEW s, NEW t, NEW u, NEW D, NEW E, Kept(s, t, D), Kept(t, u, E)
  PROVE  Kept(s, u, D \cup E)
BY DEF Kept

LEMMA PutFacts ==
  ASSUME NEW s \in States, NEW p \in LW!Places, NEW v \in LW!Words
  PROVE  /\ Put(s, p, v) \in States /\ Put(s, p, v).store[p] = v
         /\ \A D : p \in D => Kept(s, Put(s, p, v), D)
BY DEF Put, Kept, States

LEMMA Moved ==
  ASSUME NEW i, NEW s \in States, NEW o \in Operands3,
         NEW p \in LW!Temps \cup ({i.dst} \cap (InsRegs \cup Slots)), p \in Slots => o
           = LW!At(LW!kTmpRd)
  PROVE  \E t \in States :
           /\ Goes(i, <<LW!Mv(p, o)>>, s, t)
           /\ Kept(s, t, {p}) /\ t.store[p] = LW!Read(s.store, o)
<1> DEFINE m == LW!Mv(p, o)
<1>1. m.op = "MV" /\ m.rd = p /\ m.a = o /\ m.b = LW!Imm(0)
  BY DEF LW!Mv, LW!Ins
<1>2. p \in LW!Places /\ p # LW!zero
  BY PlaceFacts
<1>3. LW!Imm(0) \in Operands3
  BY DEF Operands3
<1>4. IsIns(m)
  BY <1>1, <1>2, <1>3 DEF IsIns
<1>5. m \in Instrs
  BY <1>1, <1>2, <1>3, <1>4 DEF Instrs, LW!Mv, LW!Ins
<1>6. LW!Encodable(m)
  <2>1. p \in Slots => o[1] = "at" /\ o[2] \notin Slots
    <3>1. LW!kTmpRd \notin Slots
      BY PlaceFacts
    <3> QED
      BY <3>1 DEF LW!At
  <2> HIDE DEF m
  <2> QED
    BY <1>1, <1>2, <2>1 DEF LW!Encodable
<1>7. m \in Plain(i)
  BY <1>1, <1>5, <1>6 DEF Plain
<1>8. LW!Read(s.store, o) \in LW!Words
  BY ReadFacts DEF States
<1>9. Effect(s, m) = Put(s, p, LW!Read(s.store, o))
  BY <1>1 DEF Effect, Yield
<1>10. Goes(i, <<m>>, s, Effect(s, m))
  BY <1>7, GoesOne
<1> HIDE DEF m
<1> QED
  BY <1>2, <1>8, <1>9, <1>10, PutFacts DEF m

Readable == LW!Places \ Slots
IsOperandOf(op, b) ==
  \/ op \in OnRegs /\ \E q \in Readable : b = LW!At(q)
  \/ op \in OnImms /\ \E n \in Int : b = LW!Imm(n) /\ LW!Fits(n)
  \/ op \in ShiftsByImm /\ \E n \in 0..XLen - 1 : b = LW!Imm(n)

IsTarget(i, d) == d \in LW!Temps \cup ({i.dst} \cap InsRegs)
LEMMA TargetFacts ==
  ASSUME NEW i, NEW d, IsTarget(i, d)
  PROVE  d \in Readable /\ d \in LW!Places /\ d # LW!zero /\ d \in LW!Temps \cup {i.dst}
BY PlaceFacts DEF IsTarget, Readable

LEMMA Computed ==
  ASSUME NEW i, NEW s \in States, NEW op, NEW q \in Readable, NEW b, IsOperandOf(op, b),
         NEW d, IsTarget(i, d)
  PROVE  \E t \in States :
           /\ Goes(i, <<LW!Ins(op, d, LW!At(q), b)>>, s, t)
           /\ Kept(s, t, {d}) /\ t.store[d] = LW!Alu(op, s.store[q], LW!Read(s.store, b))
           /\ LW!Read(s.store, b) \in LW!Words
<1> DEFINE m == LW!Ins(op, d, LW!At(q), b)
<1>1. m.op = op /\ m.rd = d /\ m.a = LW!At(q) /\ m.b = b
  BY DEF LW!Ins
<1>2. d \in LW!Places /\ d # LW!zero /\ d \notin Slots /\ q \in LW!Places \ Slots
      /\ d \in LW!Temps \cup {i.dst}
  BY TargetFacts DEF Readable
<1>3. LW!At(q) \in Operands3 /\ b \in Operands3
  <2>1. XLen \in Nat
    BY LoweringAssumption DEF LW!IsConfiguration
  <2> QED
    BY <1>2, <2>1 DEF Operands3, IsOperandOf, Readable
<1>4. op \in AluOps /\ op # "MV" /\ op # "LOAD" /\ op # "STORE"
  BY DEF IsOperandOf, AluOps, OnRegs, OnImms, ShiftsByImm
<1>5. IsIns(m)
  BY <1>1, <1>2, <1>3, <1>4 DEF IsIns
<1>6. m \in Instrs
  BY <1>1, <1>2, <1>3, <1>4, <1>5 DEF Instrs, LW!Ins
<1>7. LW!Encodable(m)
  <2>1. LW!At(q)[1] = "at" /\ LW!At(q)[2] \notin Slots
    BY <1>2 DEF LW!At
  <2> HIDE DEF m
  <2>2. CASE op \in OnRegs /\ \E r \in Readable : b = LW!At(r)
    <3>1. b[1] = "at" /\ b[2] \notin Slots
      BY <2>2 DEF LW!At, Readable
    <3> QED
      BY <1>1, <1>2, <2>1, <2>2, <3>1 DEF LW!Encodable, OnRegs
  <2>3. CASE op \in OnImms /\ \E n \in Int : b = LW!Imm(n) /\ LW!Fits(n)
    <3>1. LW!Fits(b[2])
      BY <2>3 DEF LW!Imm
    <3> QED
      BY <1>1, <1>2, <2>1, <2>3, <3>1 DEF LW!Encodable, OnImms
  <2>4. CASE op \in ShiftsByImm /\ \E n \in 0..XLen - 1 : b = LW!Imm(n)
    <3>1. b[2] \in 0..XLen - 1
      BY <2>4 DEF LW!Imm
    <3> QED
      BY <1>1, <1>2, <2>1, <2>4, <3>1 DEF LW!Encodable, ShiftsByImm
  <2> QED
    BY <2>2, <2>3, <2>4 DEF IsOperandOf
<1>8. m \in Plain(i)
  BY <1>1, <1>2, <1>4, <1>6, <1>7 DEF Plain
<1>9. /\ s.store \in [LW!Places -> LW!Words] /\ LW!Read(s.store, LW!At(q)) = s.store[q]
      /\ s.store[q] \in LW!Words /\ LW!Read(s.store, b) \in LW!Words
  BY <1>2, <1>3, ReadFacts DEF States
<1>10. LW!Alu(op, s.store[q], LW!Read(s.store, b)) \in LW!Words
  BY <1>4, <1>9, AluType
<1>11. Effect(s, m) = Put(s, d, LW!Alu(op, s.store[q], LW!Read(s.store, b)))
  BY <1>1, <1>4, <1>9 DEF Effect, Yield
<1>12. Goes(i, <<m>>, s, Effect(s, m))
  BY <1>8, GoesOne
<1> HIDE DEF m
<1>13. LET t == Effect(s, m)
       IN t \in States /\ Kept(s, t, {d}) /\ t.store[d]
            = LW!Alu(op, s.store[q], LW!Read(s.store, b))
  BY <1>2, <1>10, <1>11, PutFacts
<1> QED
  BY <1>9, <1>12, <1>13 DEF m

-----------------------------------------------------------------------------
(* Operands fetched to the temporaries, the result flushed to its slot     *)

LEMMA RegKept ==
  ASSUME NEW s \in States, NEW t \in States, NEW D \in SUBSET LW!Temps, Kept(s, t, D),
         NEW o \in Sources, NEW tmp \in LW!Temps \ D
  PROVE  LW!Read(t.store, LW!RegOf(o, tmp)) = LW!Read(s.store, LW!RegOf(o, tmp))
<1>1. PICK p \in InsRegs \cup {tmp} : LW!RegOf(o, tmp) = LW!At(p)
  BY RegOfFacts
<1>2. p \in LW!Places /\ p \notin D
  BY PlaceFacts
<1>3. LW!At(p) \in Operands3 /\ \A q \in D : LW!At(p) # LW!At(q)
  BY <1>2 DEF Operands3, LW!At
<1> QED
  BY <1>1, <1>3, ReadKept

\* What Fetch and LoadImm do.
IsFetched(i, o, tmp, s, t) ==
  /\ Goes(i, LW!Fetch(o, tmp), s, t) /\ Kept(s, t, {tmp})
  /\ ~LW!IsImm(o) => LW!Read(t.store, LW!RegOf(o, tmp)) = LW!Read(s.store, o)
IsLoaded(i, o, tmp, s, t) ==
  /\ Goes(i, LW!LoadImm(o, tmp), s, t) /\ Kept(s, t, {tmp})
  /\ ~LW!IsImm(o) => t = s
  /\ LW!IsImm(o) => LW!Read(t.store, LW!RegOf(o, tmp)) = LW!Read(s.store, o)

LEMMA Fetched ==
  ASSUME NEW i, NEW s \in States, NEW o \in Sources, NEW tmp \in LW!Temps
  PROVE  \E t \in States : IsFetched(i, o, tmp, s, t)
<1> USE DEF IsFetched
<1>1. CASE LW!InReg(o) \/ LW!IsImm(o)
  <2>1. LW!Fetch(o, tmp) = <<>> /\ Kept(s, s, {tmp})
    BY <1>1 DEF LW!Fetch, Kept
  <2>2. ~LW!IsImm(o) => LW!RegOf(o, tmp) = o
    BY <1>1 DEF LW!RegOf
  <2> QED
    BY <2>1, <2>2, GoesNowhere
<1>2. CASE ~LW!InReg(o) /\ ~LW!IsImm(o)
  <2>1. LW!Fetch(o, tmp) = <<LW!Mv(tmp, o)>> /\ LW!RegOf(o, tmp) = LW!At(tmp)
    BY <1>2 DEF LW!Fetch, LW!RegOf
  <2>2. o \in Operands3 /\ tmp \notin Slots
    BY SourceFacts, PlaceFacts
  <2>3. PICK t \in States : /\ Goes(i, <<LW!Mv(tmp, o)>>, s, t)
                            /\ Kept(s, t, {tmp}) /\ t.store[tmp] = LW!Read(s.store, o)
    BY <2>2, Moved
  <2>4. LW!Read(t.store, LW!At(tmp)) = t.store[tmp]
    BY ReadFacts DEF States
  <2> QED
    BY <2>1, <2>3, <2>4
<1> QED
  BY <1>1, <1>2

LEMMA ImmLoaded ==
  ASSUME NEW i, NEW s \in States, NEW o \in Sources, NEW tmp \in LW!Temps
  PROVE  \E t \in States : IsLoaded(i, o, tmp, s, t)
<1> USE DEF IsLoaded
<1>1. CASE ~LW!IsImm(o)
  <2>1. LW!LoadImm(o, tmp) = <<>> /\ Kept(s, s, {tmp})
    BY <1>1 DEF LW!LoadImm, Kept
  <2> QED
    BY <1>1, <2>1, GoesNowhere
<1>2. CASE LW!IsImm(o)
  <2>1. LW!LoadImm(o, tmp) = <<LW!Mv(tmp, o)>> /\ LW!RegOf(o, tmp) = LW!At(tmp)
    BY <1>2, SourceFacts DEF LW!LoadImm, LW!RegOf
  <2>2. o \in Operands3 /\ tmp \notin Slots
    BY SourceFacts, PlaceFacts
  <2>3. PICK t \in States : /\ Goes(i, <<LW!Mv(tmp, o)>>, s, t)
                            /\ Kept(s, t, {tmp}) /\ t.store[tmp] = LW!Read(s.store, o)
    BY <2>2, Moved
  <2>4. LW!Read(t.store, LW!At(tmp)) = t.store[tmp]
    BY ReadFacts DEF States
  <2> QED
    BY <1>2, <2>1, <2>3, <2>4
<1> QED
  BY <1>1, <1>2

\* A single operand, fetched or loaded.
IsReady(i, o, tmp, s, t) ==
  /\ Goes(i, LW!Fetch(o, tmp) \o LW!LoadImm(o, tmp), s, t) /\ Kept(s, t, {tmp})
  /\ LW!Read(t.store, LW!RegOf(o, tmp)) = LW!Read(s.store, o)
LEMMA OneReady ==
  ASSUME NEW i, NEW s \in States, NEW o \in Sources, NEW tmp \in LW!Temps
  PROVE  \E t \in States : IsReady(i, o, tmp, s, t)
<1>1. PICK t \in States : IsFetched(i, o, tmp, s, t)
  BY Fetched
<1>2. PICK u \in States : IsLoaded(i, o, tmp, t, u)
  BY ImmLoaded
<1> USE DEF IsFetched, IsLoaded, IsReady
<1>3. Kept(s, u, {tmp})
  BY <1>1, <1>2 DEF Kept
<1>4. {tmp} \in SUBSET LW!Temps
  OBVIOUS
<1>5. LW!Read(t.store, o) = LW!Read(s.store, o)
  BY <1>1, <1>4, SourceKept
<1>6. Goes(i, LW!Fetch(o, tmp) \o LW!LoadImm(o, tmp), s, u)
  BY <1>1, <1>2, GoesOn
<1> QED
  BY <1>1, <1>2, <1>3, <1>5, <1>6

Both(l, r) ==
  LW!Fetch(l, LW!kTmpRs1) \o LW!Fetch(r, LW!kTmpRs2) \o LW!LoadImm(l, LW!kTmpRs1)
    \o LW!LoadImm(r, LW!kTmpRs2)

AreReady(i, l, r, s, t) ==
  /\ Goes(i, Both(l, r), s, t) /\ Kept(s, t, LW!Temps)
  /\ LW!Read(t.store, LW!RegOf(l, LW!kTmpRs1)) = LW!Read(s.store, l)
  /\ LW!Read(t.store, LW!RegOf(r, LW!kTmpRs2)) = LW!Read(s.store, r)
LEMMA BothReady ==
  ASSUME NEW i, NEW s \in States, NEW l \in Sources, NEW r \in Sources
  PROVE  \E t \in States : AreReady(i, l, r, s, t)
<1> DEFINE A == {LW!kTmpRs1}
           B == {LW!kTmpRs2}
           lr == LW!RegOf(l, LW!kTmpRs1)
           rr == LW!RegOf(r, LW!kTmpRs2)
<1>1. /\ LW!kTmpRs1 \in LW!Temps /\ LW!kTmpRs2 \in LW!Temps /\ A \in SUBSET LW!Temps
           /\ B \in SUBSET LW!Temps
      /\ LW!kTmpRs1 \in LW!Temps \ B /\ LW!kTmpRs2 \in LW!Temps \ A
  BY PlaceFacts
<1>2. PICK t1 \in States : IsFetched(i, l, LW!kTmpRs1, s, t1)
  BY <1>1, Fetched
<1>3. PICK t2 \in States : IsFetched(i, r, LW!kTmpRs2, t1, t2)
  BY <1>1, Fetched
<1>4. PICK t3 \in States : IsLoaded(i, l, LW!kTmpRs1, t2, t3)
  BY <1>1, ImmLoaded
<1>5. PICK t4 \in States : IsLoaded(i, r, LW!kTmpRs2, t3, t4)
  BY <1>1, ImmLoaded
<1> USE DEF IsFetched, IsLoaded
<1>14. Kept(s, t1, A) /\ Kept(t1, t2, B) /\ Kept(t2, t3, A) /\ Kept(t3, t4, B)
  BY <1>2, <1>3, <1>4, <1>5
<1> HIDE DEF A, B
<1>6. LW!Read(t1.store, r) = LW!Read(s.store, r) /\ LW!Read(t1.store, l) = LW!Read(s.store, l)
  BY <1>1, <1>14, <1>2, SourceKept
<1>7. LW!Read(t2.store, l) = LW!Read(t1.store, l) /\ LW!Read(t2.store, lr) = LW!Read(t1.store, lr)
      /\ LW!Read(t2.store, r) = LW!Read(t1.store, r)
  BY <1>1, <1>14, <1>3, SourceKept, RegKept DEF lr
<1>8. LW!Read(t3.store, r) = LW!Read(t2.store, r) /\ LW!Read(t3.store, rr) = LW!Read(t2.store, rr)
  BY <1>1, <1>14, <1>4, SourceKept, RegKept DEF rr
<1>9. LW!Read(t4.store, lr) = LW!Read(t3.store, lr)
  BY <1>1, <1>14, <1>5, RegKept DEF lr
<1>10. LW!Read(t4.store, lr) = LW!Read(s.store, l)
  BY <1>2, <1>4, <1>6, <1>7, <1>9
<1>11. LW!Read(t4.store, rr) = LW!Read(s.store, r)
  BY <1>3, <1>5, <1>6, <1>7, <1>8
<1>12. Goes(i, Both(l, r), s, t4)
  <2>1. Goes(i, LW!Fetch(l, LW!kTmpRs1) \o LW!Fetch(r, LW!kTmpRs2), s, t2)
    BY <1>2, <1>3, GoesOn
  <2>2. Goes(i, LW!Fetch(l, LW!kTmpRs1) \o LW!Fetch(r, LW!kTmpRs2) \o LW!LoadImm(l, LW!kTmpRs1),
          s, t3)
    BY <1>4, <2>1, GoesOn
  <2>3. Goes(i, LW!Fetch(l, LW!kTmpRs1) \o LW!Fetch(r, LW!kTmpRs2) \o LW!LoadImm(l, LW!kTmpRs1)
                  \o LW!LoadImm(r, LW!kTmpRs2), s, t4)
    BY <1>5, <2>2, GoesOn
  <2> QED
    BY <2>3 DEF Both
<1>13. Kept(s, t4, LW!Temps)
  BY <1>1, <1>14 DEF Kept
<1> QED
  BY <1>10, <1>11, <1>12, <1>13 DEF lr, rr, AreReady

\* The result reaches its place.
HasDst(i) == i.dst \in InsRegs \cup Slots
LEMMA DstFacts ==
  ASSUME NEW i, HasDst(i)
  PROVE  /\ IsTarget(i, LW!DstReg(i)) /\ LW!DstReg(i) \in Readable
         /\ i.dst \in InsRegs => LW!DstReg(i) = i.dst
         /\ i.dst \in Slots => LW!DstReg(i) = LW!kTmpRd
BY PlaceFacts DEF HasDst, LW!DstReg, IsTarget, Readable

LEMMA Flushed ==
  ASSUME NEW i, HasDst(i), NEW s \in States
  PROVE  \E t \in States :
           /\ Goes(i, LW!Flush(i), s, t) /\ Kept(s, t, LW!Temps \cup {i.dst})
           /\ t.store[i.dst] = s.store[LW!DstReg(i)]
<1>1. CASE i.dst \in InsRegs
  <2>1. LW!Flush(i) = <<>> /\ LW!DstReg(i) = i.dst /\ Kept(s, s, LW!Temps \cup {i.dst})
    BY <1>1 DEF LW!Flush, LW!DstReg, Kept
  <2> QED
    BY <2>1, GoesNowhere
<1>2. CASE i.dst \in Slots
  <2>1. i.dst \notin InsRegs /\ LW!DstReg(i) = LW!kTmpRd /\ LW!kTmpRd \in LW!Temps
          /\ LW!kTmpRs2 \in LW!Temps
        /\ LW!kTmpRs2 \notin Slots /\ LW!kTmpRd # LW!kTmpRs2 /\ LW!kTmpRd \in LW!Places
    BY <1>2, PlaceFacts DEF LW!DstReg
  <2>2. LW!At(LW!kTmpRd) \in Operands3 /\ LW!Imm(LW!Junk) \in Operands3
    BY <2>1 DEF Operands3, LW!Junk
  <2> DEFINE c == IF i.dst \in Far THEN <<LW!Mv(LW!kTmpRs2, LW!Imm(LW!Junk))>> ELSE <<>>
  <2>3. PICK t \in States : Goes(i, c, s, t) /\ Kept(s, t, {LW!kTmpRs2})
    <3>1. CASE i.dst \in Far
      BY <2>1, <2>2, <3>1, Moved
    <3>2. CASE i.dst \notin Far
      BY <3>2, GoesNowhere DEF Kept
    <3> QED
      BY <3>1, <3>2
  <2>4. PICK u \in States : /\ Goes(i, <<LW!Mv(i.dst, LW!At(LW!kTmpRd))>>, t, u)
                            /\ Kept(t, u, {i.dst}) /\ u.store[i.dst]
                                 = LW!Read(t.store, LW!At(LW!kTmpRd))
    <3>1. i.dst \in LW!Temps \cup ({i.dst} \cap (InsRegs \cup Slots))
      BY <1>2
    <3> QED
      BY <2>2, <3>1, Moved
  <2>5. LW!Read(t.store, LW!At(LW!kTmpRd)) = t.store[LW!kTmpRd]
    BY ReadFacts DEF States
  <2>6. t.store[LW!kTmpRd] = s.store[LW!kTmpRd]
    BY <2>1, <2>3 DEF Kept
  <2>7. LW!Flush(i) = c \o <<LW!Mv(i.dst, LW!At(LW!kTmpRd))>>
    BY <2>1 DEF LW!Flush
  <2> HIDE DEF c
  <2>8. Goes(i, LW!Flush(i), s, u)
    BY <2>3, <2>4, <2>7, GoesOn
  <2>9. Kept(s, u, LW!Temps \cup {i.dst})
    BY <2>1, <2>3, <2>4 DEF Kept
  <2> QED
    BY <2>1, <2>4, <2>5, <2>6, <2>8, <2>9
<1> QED
  BY <1>1, <1>2 DEF HasDst

\* A sequence that leaves v in DstReg, and what follows it.
LEMMA Delivered ==
  ASSUME NEW i, HasDst(i), NEW c, NEW s, NEW t, Goes(i, c, s, t),
         Kept(s, t, LW!Temps \cup {i.dst})
  PROVE  \E u \in States :
           /\ Goes(i, c \o LW!Flush(i), s, u) /\ Kept(s, u, LW!Temps \cup {i.dst})
           /\ u.store[i.dst] = t.store[LW!DstReg(i)]
<1>1. t \in States
  BY DEF Goes
<1>2. PICK u \in States :
        /\ Goes(i, LW!Flush(i), t, u) /\ Kept(t, u, LW!Temps \cup {i.dst})
        /\ u.store[i.dst] = t.store[LW!DstReg(i)]
  BY <1>1, Flushed
<1>3. Kept(s, u, LW!Temps \cup {i.dst})
  BY <1>2 DEF Kept
<1> QED
  BY <1>2, <1>3, GoesOn

-----------------------------------------------------------------------------
(* What the machine computes and what the IR means                         *)

LEMMA AluIs ==
  ASSUME NEW a, NEW b
  PROVE  /\ LW!Alu("ADD", a, b) = LW!Word(a + b)
         /\ LW!Alu("ADDI", a, b) = LW!Word(a + b)
         /\ LW!Alu("SUB", a, b) = LW!Word(a - b)
         /\ LW!Alu("MUL", a, b) = LW!Word(a * b)
         /\ LW!Alu("DIVU", a, b) = (IF b = 0 THEN LW!Pow2[XLen] - 1 ELSE a \div b)
         /\ LW!Alu("REMU", a, b) = (IF b = 0 THEN a ELSE a % b)
         /\ LW!Alu("DIV", a, b)
              = (IF b = 0 THEN LW!Pow2[XLen] - 1
                ELSE LW!Word(LW!Quotient(LW!Signed(a), LW!Signed(b))))
         /\ LW!Alu("REM", a, b)
              = (IF b = 0 THEN a ELSE LW!Word(LW!Remainder(LW!Signed(a), LW!Signed(b))))
         /\ LW!Alu("AND", a, b) = LW!And(a, b)
         /\ LW!Alu("ANDI", a, b) = LW!And(a, b)
         /\ LW!Alu("OR", a, b) = LW!Or(a, b)
         /\ LW!Alu("ORI", a, b) = LW!Or(a, b)
         /\ LW!Alu("XOR", a, b) = LW!Xor(a, b)
         /\ LW!Alu("XORI", a, b) = LW!Xor(a, b)
         /\ LW!Alu("SLL", a, b) = LW!Word(a * LW!Pow2[b % XLen])
         /\ LW!Alu("SLLI", a, b) = LW!Word(a * LW!Pow2[b % XLen])
         /\ LW!Alu("SRL", a, b) = a \div LW!Pow2[b % XLen]
         /\ LW!Alu("SRLI", a, b) = a \div LW!Pow2[b % XLen]
         /\ LW!Alu("SRA", a, b) = LW!Word(LW!Signed(a) \div LW!Pow2[b % XLen])
         /\ LW!Alu("SRAI", a, b) = LW!Word(LW!Signed(a) \div LW!Pow2[b % XLen])
         /\ LW!Alu("SLT", a, b) = LW!Truth(LW!Signed(a) < LW!Signed(b))
         /\ LW!Alu("SLTU", a, b) = LW!Truth(a < b)
         /\ LW!Alu("SLTIU", a, b) = LW!Truth(a < b)
BY DEF LW!Alu

LEMMA MeaningIs ==
  ASSUME NEW x, NEW y
  PROVE  /\ LW!Meaning("add", x, y) = {LW!Word(LW!Signed(x) + LW!Signed(y))}
         /\ LW!Meaning("sub", x, y) = {LW!Word(LW!Signed(x) - LW!Signed(y))}
         /\ LW!Meaning("mul", x, y) = {LW!Word(LW!Signed(x) * LW!Signed(y))}
         /\ LW!Meaning("udiv", x, y) = (IF y = 0 THEN LW!Words ELSE {x \div y})
         /\ LW!Meaning("urem", x, y) = (IF y = 0 THEN LW!Words ELSE {x % y})
         /\ LW!Meaning("sdiv", x, y)
              = (IF y = 0 \/ (LW!Signed(x) = -LW!Halfword /\ LW!Signed(y) = -1) THEN LW!Words
          ELSE {LW!Word(LW!Quotient(LW!Signed(x), LW!Signed(y)))})
         /\ LW!Meaning("srem", x, y)
              = (IF y = 0 \/ (LW!Signed(x) = -LW!Halfword /\ LW!Signed(y) = -1) THEN LW!Words
          ELSE {LW!Word(LW!Remainder(LW!Signed(x), LW!Signed(y)))})
         /\ LW!Meaning("and", x, y) = {LW!And(x, y)}
         /\ LW!Meaning("or", x, y) = {LW!Or(x, y)}
         /\ LW!Meaning("xor", x, y) = {LW!Xor(x, y)}
         /\ LW!Meaning("shl", x, y) = (IF y >= XLen THEN LW!Words ELSE {LW!Word(x * LW!Pow2[y])})
         /\ LW!Meaning("lshr", x, y) = (IF y >= XLen THEN LW!Words ELSE {x \div LW!Pow2[y]})
         /\ LW!Meaning("ashr", x, y)
              = (IF y >= XLen THEN LW!Words ELSE {LW!Word(LW!Signed(x) \div LW!Pow2[y])})
         /\ LW!Meaning("eq", x, y) = {LW!Truth(x = y)}
         /\ LW!Meaning("ne", x, y) = {LW!Truth(x # y)}
         /\ LW!Meaning("slt", x, y) = {LW!Truth(LW!Signed(x) < LW!Signed(y))}
         /\ LW!Meaning("sgt", x, y) = {LW!Truth(LW!Signed(x) > LW!Signed(y))}
         /\ LW!Meaning("sle", x, y) = {LW!Truth(LW!Signed(x) <= LW!Signed(y))}
         /\ LW!Meaning("sge", x, y) = {LW!Truth(LW!Signed(x) >= LW!Signed(y))}
         /\ LW!Meaning("ult", x, y) = {LW!Truth(x < y)}
         /\ LW!Meaning("ugt", x, y) = {LW!Truth(x > y)}
         /\ LW!Meaning("ule", x, y) = {LW!Truth(x <= y)}
         /\ LW!Meaning("uge", x, y) = {LW!Truth(x >= y)}
BY DEF LW!Meaning

LEMMA SignedInt ==
  ASSUME NEW w \in LW!Words
  PROVE  w \in Int /\ LW!Signed(w) \in Int /\ LW!Word(w) = w /\ LW!Word(LW!Signed(w)) = w
BY SignedType, WordType

LEMMA SignedOps ==
  ASSUME NEW x \in LW!Words, NEW y \in LW!Words
  PROVE  /\ LW!Word(x + y) = LW!Word(LW!Signed(x) + LW!Signed(y))
         /\ LW!Word(x - y) = LW!Word(LW!Signed(x) - LW!Signed(y))
         /\ LW!Word(x * y) = LW!Word(LW!Signed(x) * LW!Signed(y))
<1>1. x \in Int /\ y \in Int /\ LW!Signed(x) \in Int /\ LW!Signed(y) \in Int
  BY SignedType, WordType
<1>2. LW!Word(x) = LW!Word(LW!Signed(x)) /\ LW!Word(y) = LW!Word(LW!Signed(y))
  BY SignedType, WordType
<1> DEFINE a == LW!Signed(x)
           b == LW!Signed(y)
<1> HIDE DEF a, b
<1>3. /\ LW!Word(x + y) = LW!Word(a + b) /\ LW!Word(x - y) = LW!Word(a - b)
      /\ LW!Word(x * y) = LW!Word(a * b)
  <2>1. x \in Int /\ y \in Int /\ a \in Int /\ b \in Int /\ LW!Word(x) = LW!Word(a)
          /\ LW!Word(y) = LW!Word(b)
    BY <1>1, <1>2 DEF a, b
  <2> HIDE DEF a, b
  <2> QED
    BY <2>1, WordOps
<1> QED
  BY <1>3 DEF a, b

LEMMA ShiftCount ==
  ASSUME NEW k \in 0..XLen - 1
  PROVE  k % XLen = k /\ LW!Word(k) = k /\ k \in LW!Words /\ k \in 0..XLen
<1>1. XLen \in Nat \ {0} /\ XLen * 0 + k = k /\ k \in 0..XLen
  BY LoweringAssumption DEF LW!IsConfiguration
<1> QED
  BY <1>1, Remaining, SmallWord

ValueOps == LW!BinaryOps \ LW!Comparisons

LEMMA OpOfRegs ==
  ASSUME NEW op \in ValueOps, NEW x \in LW!Words, NEW y \in LW!Words
  PROVE  LW!RegOp[op] \in OnRegs /\ LW!Alu(LW!RegOp[op], x, y) \in LW!Meaning(op, x, y)
<1>0. ASSUME ~(y >= XLen) PROVE y % XLen = y
  <2>1. y \in 0..XLen - 1
    BY <1>0, WordType, LoweringAssumption DEF LW!IsConfiguration
  <2> QED
    BY <2>1, ShiftCount
<1>1. /\ LW!RegOp["add"] = "ADD" /\ LW!RegOp["sub"] = "SUB" /\ LW!RegOp["mul"] = "MUL"
      /\ LW!RegOp["udiv"] = "DIVU" /\ LW!RegOp["urem"] = "REMU"
      /\ LW!RegOp["sdiv"] = "DIV" /\ LW!RegOp["srem"] = "REM"
      /\ LW!RegOp["and"] = "AND" /\ LW!RegOp["or"] = "OR" /\ LW!RegOp["xor"] = "XOR"
      /\ LW!RegOp["shl"] = "SLL" /\ LW!RegOp["ashr"] = "SRA" /\ LW!RegOp["lshr"] = "SRL"
  BY DEF LW!RegOp
<1>2. LW!RegOp[op] \in OnRegs
  BY <1>1 DEF ValueOps, LW!BinaryOps, LW!Commutative, LW!Shifts, LW!Comparisons, OnRegs
<1>3. LW!Alu(LW!RegOp[op], x, y) \in LW!Words
  BY <1>2, AluType DEF OnRegs, AluOps
<1> SUFFICES LW!Alu(LW!RegOp[op], x, y) \in LW!Meaning(op, x, y)
  BY <1>2
<1>4. CASE op \in {"add", "sub", "mul"}
  BY <1>1, <1>4, SignedOps, AluIs, MeaningIs
<1>5. CASE op \in {"udiv", "urem"}
  <2>1. CASE y = 0
    BY <1>3, <1>5, <2>1, MeaningIs
  <2>2. CASE y # 0
    BY <1>1, <1>5, <2>2, AluIs, MeaningIs
  <2> QED
    BY <2>1, <2>2
<1>6. CASE op \in {"sdiv", "srem"}
  <2>1. CASE y = 0 \/ (LW!Signed(x) = -LW!Halfword /\ LW!Signed(y) = -1)
    BY <1>3, <1>6, <2>1, MeaningIs
  <2>2. CASE ~(y = 0 \/ (LW!Signed(x) = -LW!Halfword /\ LW!Signed(y) = -1))
    BY <1>1, <1>6, <2>2, AluIs, MeaningIs
  <2> QED
    BY <2>1, <2>2
<1>7. CASE op \in {"and", "or", "xor"}
  BY <1>1, <1>7, AluIs, MeaningIs
<1>8. CASE op \in LW!Shifts
  <2>1. CASE y >= XLen
    BY <1>3, <1>8, <2>1, MeaningIs DEF LW!Shifts
  <2>2. CASE ~(y >= XLen)
    <3>1. y % XLen = y
      BY <1>0, <2>2
    <3>2. CASE op = "shl"
      BY <1>1, <2>2, <3>1, <3>2, AluIs, MeaningIs
    <3>3. CASE op = "ashr"
      BY <1>1, <2>2, <3>1, <3>3, AluIs, MeaningIs
    <3>4. CASE op = "lshr"
      BY <1>1, <2>2, <3>1, <3>4, AluIs, MeaningIs
    <3> QED
      BY <1>8, <3>2, <3>3, <3>4 DEF LW!Shifts
  <2> QED
    BY <2>1, <2>2
<1> QED
  BY <1>4, <1>5, <1>6, <1>7, <1>8 DEF ValueOps, LW!BinaryOps, LW!Commutative, LW!Comparisons

LEMMA MeaningCommutes ==
  ASSUME NEW op \in LW!Commutative, NEW x \in LW!Words, NEW y \in LW!Words
  PROVE  LW!Meaning(op, x, y) = LW!Meaning(op, y, x)
<1>1. LW!Signed(x) + LW!Signed(y) = LW!Signed(y) + LW!Signed(x) /\ LW!Signed(x) * LW!Signed(y)
        = LW!Signed(y) * LW!Signed(x)
  BY SignedType, WordType
<1>2. LW!And(x, y) = LW!And(y, x) /\ LW!Or(x, y) = LW!Or(y, x) /\ LW!Xor(x, y) = LW!Xor(y, x)
  BY BitOps
<1>3. ASSUME NEW u \in LW!Words, NEW v \in LW!Words
      PROVE  /\ LW!Meaning("add", u, v) = {LW!Word(LW!Signed(u) + LW!Signed(v))}
             /\ LW!Meaning("mul", u, v) = {LW!Word(LW!Signed(u) * LW!Signed(v))}
             /\ LW!Meaning("and", u, v) = {LW!And(u, v)}
             /\ LW!Meaning("or", u, v) = {LW!Or(u, v)}
             /\ LW!Meaning("xor", u, v) = {LW!Xor(u, v)}
  BY MeaningIs
<1>4. /\ LW!Meaning("add", x, y) = LW!Meaning("add", y, x)
      /\ LW!Meaning("mul", x, y) = LW!Meaning("mul", y, x)
      /\ LW!Meaning("and", x, y) = LW!Meaning("and", y, x)
      /\ LW!Meaning("or", x, y) = LW!Meaning("or", y, x)
      /\ LW!Meaning("xor", x, y) = LW!Meaning("xor", y, x)
  <2>1. x \in LW!Words /\ y \in LW!Words
    OBVIOUS
  <2>2. /\ LW!Word(LW!Signed(x) + LW!Signed(y)) = LW!Word(LW!Signed(y) + LW!Signed(x))
        /\ LW!Word(LW!Signed(x) * LW!Signed(y)) = LW!Word(LW!Signed(y) * LW!Signed(x))
    BY <1>1, Zenon
  <2>3. /\ LW!Meaning("add", x, y) = {LW!Word(LW!Signed(x) + LW!Signed(y))}
        /\ LW!Meaning("add", y, x) = {LW!Word(LW!Signed(y) + LW!Signed(x))}
        /\ LW!Meaning("mul", x, y) = {LW!Word(LW!Signed(x) * LW!Signed(y))}
        /\ LW!Meaning("mul", y, x) = {LW!Word(LW!Signed(y) * LW!Signed(x))}
    BY <1>3, <2>1, Zenon
  <2>4. /\ LW!Meaning("and", x, y) = {LW!And(x, y)} /\ LW!Meaning("and", y, x) = {LW!And(y, x)}
        /\ LW!Meaning("or", x, y) = {LW!Or(x, y)} /\ LW!Meaning("or", y, x) = {LW!Or(y, x)}
        /\ LW!Meaning("xor", x, y) = {LW!Xor(x, y)} /\ LW!Meaning("xor", y, x) = {LW!Xor(y, x)}
    BY <1>3, <2>1, Zenon
  <2> QED
    BY <1>2, <2>2, <2>3, <2>4
<1> QED
  BY <1>4 DEF LW!Commutative

LEMMA LogOf ==
  ASSUME NEW k \in 0..XLen
  PROVE  LW!Log2(LW!Pow2[k]) = k
<1>1. XLen \in Nat
  BY LoweringAssumption DEF LW!IsConfiguration
<1>2. \A m \in 0..XLen : LW!Pow2[m] = LW!Pow2[k] => m = k
  <2> SUFFICES ASSUME NEW m \in 0..XLen, LW!Pow2[m] = LW!Pow2[k], m # k PROVE FALSE
    OBVIOUS
  <2>1. LW!Pow2[m] \in Int /\ (m < k \/ k < m)
    BY <1>1, PowersExist
  <2>2. LW!Pow2[m] < LW!Pow2[k] \/ LW!Pow2[k] < LW!Pow2[m]
    BY <2>1, Grow
  <2> QED
    BY <2>1, <2>2
<1> QED
  BY <1>2 DEF LW!Log2

LEMMA OpOfImm ==
  ASSUME NEW op \in ValueOps, NEW x \in LW!Words, NEW n \in Int, LW!TakesImm(op, n),
         op \in LW!Shifts => n \in 0..XLen - 1
  PROVE  \E k \in Int : /\ LW!Field(op, n) = LW!Imm(k) /\ IsOperandOf(LW!ImmOp[op], LW!Imm(k))
                        /\ LW!Alu(LW!ImmOp[op], x, LW!Word(k)) \in LW!Meaning(op, x, LW!Word(n))
<1>0. x \in Int /\ LW!Word(n) \in LW!Words
  BY WordType
<1>1. /\ LW!ImmOp["add"] = "ADDI" /\ LW!ImmOp["sub"] = "ADDI" /\ LW!ImmOp["mul"] = "SLLI"
      /\ LW!ImmOp["and"] = "ANDI" /\ LW!ImmOp["or"] = "ORI" /\ LW!ImmOp["xor"] = "XORI"
      /\ LW!ImmOp["shl"] = "SLLI" /\ LW!ImmOp["ashr"] = "SRAI" /\ LW!ImmOp["lshr"] = "SRLI"
      /\ DOMAIN LW!ImmOp = {"add", "sub", "mul", "and", "or", "xor", "shl", "ashr", "lshr"}
  BY DEF LW!ImmOp
<1>2. CASE op \in {"add", "and", "or", "xor"}
  <2>1. LW!Field(op, n) = LW!Imm(n) /\ LW!Fits(n)
    BY <1>1, <1>2 DEF LW!Field, LW!TakesImm
  <2>2. IsOperandOf(LW!ImmOp[op], LW!Imm(n))
    BY <1>1, <1>2, <2>1 DEF IsOperandOf, OnImms
  <2>3. LW!Alu(LW!ImmOp[op], x, LW!Word(n)) \in LW!Meaning(op, x, LW!Word(n))
    <3>1. LW!Word(x + LW!Word(n)) = LW!Word(LW!Signed(x) + LW!Signed(LW!Word(n)))
      BY <1>0, SignedOps
    <3>2. CASE op = "add"
      BY <1>1, <3>1, <3>2, AluIs, MeaningIs
    <3>3. CASE op \in {"and", "or", "xor"}
      BY <1>1, <3>3, AluIs, MeaningIs
    <3> QED
      BY <1>2, <3>2, <3>3
  <2> QED
    BY <2>1, <2>2, <2>3
<1>3. CASE op = "sub"
  <2>1. LW!Field(op, n) = LW!Imm(-n) /\ LW!Fits(-n) /\ -n \in Int
    BY <1>3 DEF LW!Field, LW!TakesImm
  <2>0. PICK k \in Int : k = -n
    OBVIOUS
  <2>2. IsOperandOf(LW!ImmOp[op], LW!Imm(k))
    BY <1>1, <1>3, <2>0, <2>1 DEF IsOperandOf, OnImms
  <2>3. LW!Word(x + LW!Word(k)) = LW!Word(LW!Signed(x) - LW!Signed(LW!Word(n)))
    <3>0. LW!Word(k) \in LW!Words
      BY WordType
    <3>1. LW!Word(k) \in Int /\ LW!Signed(x) \in Int /\ LW!Signed(LW!Word(n)) \in Int
      BY <1>0, <3>0, SignedInt
    <3>2. /\ LW!Word(x) = LW!Word(LW!Signed(x)) /\ LW!Word(LW!Word(k)) = LW!Word(k)
          /\ LW!Word(n) = LW!Word(LW!Signed(LW!Word(n)))
      BY <1>0, <3>0, SignedInt
    <3>3. LW!Word(x + LW!Word(k)) = LW!Word(LW!Signed(x) + k)
      BY <1>0, <2>0, <3>1, <3>2, WordOps
    <3>4. LW!Word(LW!Signed(x) - n) = LW!Word(LW!Signed(x) - LW!Signed(LW!Word(n)))
      BY <3>1, <3>2, WordOps
    <3>5. LW!Signed(x) + k = LW!Signed(x) - n
      BY <2>0, <3>1
    <3> QED
      BY <3>3, <3>4, <3>5
  <2>4. LW!Alu(LW!ImmOp[op], x, LW!Word(k)) \in LW!Meaning(op, x, LW!Word(n))
    BY <1>1, <1>3, <2>3, AluIs, MeaningIs
  <2>5. LW!Field(op, n) = LW!Imm(k)
    BY <2>0, <2>1
  <2> QED
    BY <2>2, <2>4, <2>5
<1>4. CASE op = "mul"
  <2>1. PICK k \in 0..XLen - 2 : n = LW!Pow2[k]
    BY <1>4 DEF LW!TakesImm
  <2>2. k \in 0..XLen - 1 /\ k \in 0..XLen /\ k \in Int
    BY LoweringAssumption DEF LW!IsConfiguration
  <2>3. LW!Field(op, n) = LW!Imm(k)
    BY <1>4, <2>1, <2>2, LogOf DEF LW!Field
  <2>4. IsOperandOf(LW!ImmOp[op], LW!Imm(k))
    BY <1>1, <1>4, <2>2 DEF IsOperandOf, ShiftsByImm
  <2>5. LW!Alu(LW!ImmOp[op], x, LW!Word(k)) = LW!Word(x * n)
    <3>1. LW!Word(k) % XLen = k
      BY <2>2, ShiftCount
    <3>2. LW!Alu("SLLI", x, LW!Word(k)) = LW!Word(x * LW!Pow2[LW!Word(k) % XLen])
      BY AluIs
    <3>3. LW!Alu("SLLI", x, LW!Word(k)) = LW!Word(x * n)
      BY <2>1, <3>1, <3>2
    <3>4. LW!ImmOp[op] = "SLLI"
      BY <1>1, <1>4
    <3> QED
      BY <3>3, <3>4
  <2>6. LW!Word(x * n) = LW!Word(LW!Signed(x) * LW!Signed(LW!Word(n)))
    <3>1. LW!Word(n) = LW!Word(LW!Signed(LW!Word(n))) /\ LW!Signed(LW!Word(n)) \in Int
            /\ LW!Signed(x) \in Int
      BY <1>0, SignedInt
    <3>2. LW!Word(x) = LW!Word(LW!Signed(x))
      BY SignedType, WordType
    <3> QED
      BY <1>0, <3>1, <3>2, WordOps
  <2>7. LW!Alu(LW!ImmOp[op], x, LW!Word(k)) \in LW!Meaning(op, x, LW!Word(n))
    BY <1>4, <2>5, <2>6, MeaningIs
  <2> QED
    BY <2>2, <2>3, <2>4, <2>7
<1>5. CASE op \in LW!Shifts
  <2>1. n \in 0..XLen - 1 /\ LW!Word(n) = n /\ n % XLen = n /\ ~(n >= XLen)
    BY <1>5, ShiftCount, LoweringAssumption DEF LW!IsConfiguration
  <2>2. LW!Field(op, n) = LW!Imm(n)
    BY <1>5 DEF LW!Field, LW!Shifts
  <2>3. IsOperandOf(LW!ImmOp[op], LW!Imm(n))
    BY <1>1, <1>5, <2>1 DEF IsOperandOf, ShiftsByImm, LW!Shifts
  <2>4. LW!Alu(LW!ImmOp[op], x, LW!Word(n)) \in LW!Meaning(op, x, LW!Word(n))
    <3>1. LW!Word(n) = n /\ n % XLen = n /\ ~(n >= XLen)
      BY <2>1
    <3>2. CASE op = "shl"
      BY <1>1, <3>1, <3>2, AluIs, MeaningIs
    <3>3. CASE op = "ashr"
      BY <1>1, <3>1, <3>3, AluIs, MeaningIs
    <3>4. CASE op = "lshr"
      BY <1>1, <3>1, <3>4, AluIs, MeaningIs
    <3> QED
      BY <1>5, <3>2, <3>3, <3>4 DEF LW!Shifts
  <2> QED
    BY <2>2, <2>3, <2>4
<1>6. op \in DOMAIN LW!ImmOp
  BY <1>1 DEF LW!TakesImm
<1> QED
  BY <1>1, <1>2, <1>3, <1>4, <1>5, <1>6 DEF LW!Shifts

LEMMA FitsOne == LW!Fits(1) /\ LW!Word(1) = 1 /\ 1 \in Int
<1>1. ImmBits - 1 \in 1..XLen /\ (ImmBits - 1) - 1 \in 0..XLen /\ 1 \in 0..XLen
      /\ ImmBits - 1 \in 0..XLen
  BY LoweringAssumption DEF LW!IsConfiguration
<1>2. LW!Pow2[ImmBits - 1] = 2 * LW!Pow2[(ImmBits - 1) - 1]
      /\ LW!Pow2[(ImmBits - 1) - 1] \in Nat \ {0}
  BY <1>1, PowersExist
<1>3. LW!Fits(1)
  BY <1>2 DEF LW!Fits
<1> QED
  BY <1>1, <1>3, SmallWord

-----------------------------------------------------------------------------
(* One instruction or two: arithmetic and comparisons                      *)

Yields(i, op, d, q, b, s, t) ==
  /\ Goes(i, <<LW!Ins(op, d, LW!At(q), b)>>, s, t)
  /\ Kept(s, t, {d}) /\ t.store[d] = LW!Alu(op, s.store[q], LW!Read(s.store, b))
LEMMA Yielded ==
  ASSUME NEW i, NEW s \in States, NEW op, NEW q \in Readable, NEW b, IsOperandOf(op, b),
         NEW d, IsTarget(i, d)
  PROVE  \E t \in States : Yields(i, op, d, q, b, s, t)
<1>1. PICK t \in States :
        /\ Goes(i, <<LW!Ins(op, d, LW!At(q), b)>>, s, t)
        /\ Kept(s, t, {d}) /\ t.store[d] = LW!Alu(op, s.store[q], LW!Read(s.store, b))
        /\ LW!Read(s.store, b) \in LW!Words
  BY Computed
<1> QED
  BY <1>1 DEF Yields

YieldsOfRegs(i, op, d, q, r, s, t) ==
  /\ Goes(i, <<LW!Ins(op, d, LW!At(q), LW!At(r))>>, s, t)
  /\ Kept(s, t, {d}) /\ t.store[d] = LW!Alu(op, s.store[q], s.store[r])
LEMMA ComputedOfRegs ==
  ASSUME NEW i, NEW s \in States, NEW op \in OnRegs, NEW q \in Readable,
         NEW r \in Readable, NEW d, IsTarget(i, d)
  PROVE  \E t \in States : YieldsOfRegs(i, op, d, q, r, s, t)
<1>1. IsOperandOf(op, LW!At(r))
  BY DEF IsOperandOf
<1>2. PICK t \in States : Yields(i, op, d, q, LW!At(r), s, t)
  BY <1>1, Yielded
<1>3. LW!Read(s.store, LW!At(r)) = s.store[r]
  BY ReadFacts DEF States
<1> QED
  BY <1>2, <1>3 DEF Yields, YieldsOfRegs

YieldsOfImm(i, op, d, q, n, s, t) ==
  /\ Goes(i, <<LW!Ins(op, d, LW!At(q), LW!Imm(n))>>, s, t)
  /\ Kept(s, t, {d}) /\ t.store[d] = LW!Alu(op, s.store[q], LW!Word(n))
LEMMA ComputedOfImm ==
  ASSUME NEW i, NEW s \in States, NEW op, NEW q \in Readable, NEW n \in Int,
         IsOperandOf(op, LW!Imm(n)), NEW d, IsTarget(i, d)
  PROVE  \E t \in States : YieldsOfImm(i, op, d, q, n, s, t)
<1>1. PICK t \in States : Yields(i, op, d, q, LW!Imm(n), s, t)
  BY Yielded
<1>2. LW!Read(s.store, LW!Imm(n)) = LW!Word(n)
  BY ReadFacts DEF States
<1> QED
  BY <1>1, <1>2 DEF Yields, YieldsOfImm

LEMMA OneReads == \A op \in OnImms : IsOperandOf(op, LW!Imm(1))
BY FitsOne DEF IsOperandOf

LEMMA TempTarget == \A i : \A p \in LW!Temps : IsTarget(i, p)
BY DEF IsTarget

LEMMA InARow == \A a, b : <<a>> \o <<b>> = <<a, b>>
<1>1. ASSUME NEW a, NEW b PROVE <<a>> \o <<b>> = <<a, b>>
  <2> DEFINE S == {a, b}
             c == <<a>> \o <<b>>
             e == <<a, b>>
  <2>1. <<a>> \in Seq(S) /\ <<b>> \in Seq(S) /\ e \in Seq(S)
    OBVIOUS
  <2>2. c \in Seq(S) /\ Len(c) = 2 /\ c[1] = a /\ c[2] = b
    BY <2>1
  <2>3. Len(e) = 2 /\ e[1] = a /\ e[2] = b
    OBVIOUS
  <2> HIDE DEF c, e, S
  <2>4. \A k \in 1..2 : c[k] = e[k]
    BY <2>2, <2>3
  <2> QED
    BY <2>1, <2>2, <2>3, <2>4, SeqEqual DEF c, e
<1> QED
  BY <1>1

LEMMA OneStep ==
  ASSUME NEW i, NEW c, NEW s \in States, NEW t \in States, Goes(i, c, s, t),
         NEW d, IsTarget(i, d), Kept(s, t, {d})
  PROVE  Kept(s, t, LW!Temps \cup {i.dst})
BY TargetFacts DEF Kept

LEMMA TruthFacts ==
  ASSUME NEW P \in BOOLEAN
  PROVE  LW!Truth(P) \in {0, 1} /\ LW!Truth(P) \in LW!Words /\ LW!Xor(LW!Truth(P), 1) = LW!Truth(~P)
<1>1. LW!Truth(P) \in {0, 1}
  BY DEF LW!Truth
<1>2. LW!Truth(P) \in LW!Words /\ LW!Xor(LW!Truth(P), 1) = 1 - LW!Truth(P)
  BY <1>1, XorOne
<1>3. 1 - LW!Truth(P) = LW!Truth(~P)
  BY DEF LW!Truth
<1> QED
  BY <1>1, <1>2, <1>3

\* Two instructions, of which the second looks at what the first left in kTmpRd.
YieldsNot(i, op, d, q, r, P, s, t) ==
  /\ Goes(i, <<LW!Ins(op, LW!kTmpRd, LW!At(q), LW!At(r)),
               LW!Ins("XORI", d, LW!At(LW!kTmpRd), LW!Imm(1))>>, s, t)
  /\ Kept(s, t, LW!Temps \cup {i.dst}) /\ t.store[d] = LW!Truth(~P)

LEMMA NotLess ==
  ASSUME NEW i, NEW s \in States, NEW op \in OnRegs, NEW q \in Readable,
         NEW r \in Readable, NEW d, IsTarget(i, d),
         NEW P \in BOOLEAN, LW!Alu(op, s.store[q], s.store[r]) = LW!Truth(P)
  PROVE  \E t \in States : YieldsNot(i, op, d, q, r, P, s, t)
<1>1. /\ LW!kTmpRd \in LW!Temps /\ LW!kTmpRd \in Readable /\ "XORI" \in OnImms
      /\ IsTarget(i, LW!kTmpRd)
  BY PlaceFacts, TempTarget DEF OnImms, Readable
<1>2. PICK t \in States : YieldsOfRegs(i, op, LW!kTmpRd, q, r, s, t)
  BY <1>1, ComputedOfRegs
<1>3. PICK u \in States : YieldsOfImm(i, "XORI", d, LW!kTmpRd, 1, t, u)
  BY <1>1, FitsOne, OneReads, ComputedOfImm
<1>4. LW!Alu("XORI", LW!Truth(P), 1) = LW!Xor(LW!Truth(P), 1)
  BY AluIs
<1>5. u.store[d] = LW!Truth(~P)
  BY <1>2, <1>3, <1>4, FitsOne, TruthFacts DEF YieldsOfImm, YieldsOfRegs
<1>6. Kept(s, u, LW!Temps \cup {i.dst})
  BY <1>1, <1>2, <1>3, TargetFacts DEF Kept, YieldsOfImm, YieldsOfRegs
<1>7. Goes(i,
        <<LW!Ins(op, LW!kTmpRd, LW!At(q), LW!At(r)),
          LW!Ins("XORI", d, LW!At(LW!kTmpRd), LW!Imm(1))>>, s, u)
  BY <1>2, <1>3, GoesOn, InARow DEF YieldsOfImm, YieldsOfRegs
<1> QED
  BY <1>5, <1>6, <1>7 DEF YieldsNot

LEMMA Compared ==
  ASSUME NEW i, NEW s \in States, s.store[LW!zero] = 0, NEW op \in LW!Comparisons,
         NEW q \in Readable, NEW r \in Readable,
         NEW d, IsTarget(i, d)
  PROVE  \E t \in States :
           /\ Goes(i, LW!Compare(op, d, LW!At(q), LW!At(r)), s, t)
           /\ Kept(s, t, LW!Temps \cup {i.dst})
           /\ t.store[d] \in LW!Meaning(op, s.store[q], s.store[r])
<1> DEFINE x == s.store[q]
           y == s.store[r]
<1>1. x \in LW!Words /\ y \in LW!Words
  BY DEF States, Readable
<1>2. /\ "XOR" \in OnRegs /\ "SLT" \in OnRegs /\ "SLTU" \in OnRegs /\ "SLTIU" \in OnImms
      /\ LW!kTmpRd \in LW!Temps /\ LW!kTmpRd \in Readable /\ LW!zero \in Readable
           /\ IsTarget(i, LW!kTmpRd)
  BY PlaceFacts, TempTarget DEF OnRegs, OnImms, Readable
<1>3. LW!Signed(x) \in Int /\ LW!Signed(y) \in Int /\ x \in Int /\ y \in Int
  BY <1>1, SignedInt
<1>4. CASE op \in {"eq", "ne"}
  <2>1. PICK t \in States : YieldsOfRegs(i, "XOR", LW!kTmpRd, q, r, s, t)
    BY <1>2, ComputedOfRegs
  <2>2. t.store[LW!kTmpRd] = LW!Xor(x, y) /\ LW!Xor(x, y) \in LW!Words
          /\ (LW!Xor(x, y) = 0 <=> x = y)
    <3>1. t.store[LW!kTmpRd] = LW!Alu("XOR", x, y)
      BY <2>1 DEF YieldsOfRegs
    <3>2. LW!Alu("XOR", x, y) = LW!Xor(x, y)
      BY AluIs
    <3>3. LW!Xor(x, y) \in LW!Words
      BY <1>1, BitOps
    <3>4. LW!Xor(x, y) = 0 <=> x = y
      BY <1>1, XorZero
    <3> QED
      BY <3>1, <3>2, <3>3, <3>4
  <2>3. t.store[LW!zero] = 0
    BY <1>2, <2>1, PlaceFacts DEF Kept, Readable, YieldsOfRegs
  <2>4. CASE op = "eq"
    <3>1. PICK u \in States : YieldsOfImm(i, "SLTIU", d, LW!kTmpRd, 1, t, u)
      BY <1>2, FitsOne, OneReads, ComputedOfImm
    <3>2. u.store[d] = LW!Truth(LW!Xor(x, y) < 1)
      BY <2>2, <3>1, AluIs, FitsOne DEF YieldsOfImm
    <3>3. LW!Xor(x, y) < 1 <=> x = y
      BY <2>2, WordType
    <3>4. u.store[d] = LW!Truth(x = y)
      BY <3>2, <3>3 DEF LW!Truth
    <3>5. LW!Meaning(op, x, y) = {LW!Truth(x = y)}
      BY <2>4, MeaningIs
    <3>6. Kept(s, u, LW!Temps \cup {i.dst})
      BY <1>2, <2>1, <3>1, TargetFacts DEF Kept, YieldsOfImm, YieldsOfRegs
    <3>7. Goes(i,
            <<LW!Ins("XOR", LW!kTmpRd, LW!At(q), LW!At(r)),
              LW!Ins("SLTIU", d, LW!At(LW!kTmpRd), LW!Imm(1))>>,
               s, u)
      BY <2>1, <3>1, GoesOn, InARow DEF YieldsOfImm, YieldsOfRegs
    <3>8. LW!Compare(op, d, LW!At(q), LW!At(r))
            = <<LW!Ins("XOR", LW!kTmpRd, LW!At(q), LW!At(r)),
              LW!Ins("SLTIU", d, LW!At(LW!kTmpRd), LW!Imm(1))>>
      BY <2>4 DEF LW!Compare
    <3> QED
      BY <3>4, <3>5, <3>6, <3>7, <3>8
  <2>5. CASE op = "ne"
    <3>1. PICK u \in States : YieldsOfRegs(i, "SLTU", d, LW!zero, LW!kTmpRd, t, u)
      BY <1>2, ComputedOfRegs
    <3>2. u.store[d] = LW!Truth(0 < LW!Xor(x, y))
      BY <2>2, <2>3, <3>1, AluIs DEF YieldsOfRegs
    <3>3. 0 < LW!Xor(x, y) <=> x # y
      BY <2>2, WordType
    <3>4. u.store[d] = LW!Truth(x # y)
      BY <3>2, <3>3 DEF LW!Truth
    <3>5. LW!Meaning(op, x, y) = {LW!Truth(x # y)}
      BY <2>5, MeaningIs
    <3>6. Kept(s, u, LW!Temps \cup {i.dst})
      BY <1>2, <2>1, <3>1, TargetFacts DEF Kept, YieldsOfRegs
    <3>7. Goes(i,
            <<LW!Ins("XOR", LW!kTmpRd, LW!At(q), LW!At(r)),
              LW!Ins("SLTU", d, LW!At(LW!zero), LW!At(LW!kTmpRd))>>,
               s, u)
      BY <2>1, <3>1, GoesOn, InARow DEF YieldsOfRegs
    <3>8. LW!Compare(op, d, LW!At(q), LW!At(r))
            = <<LW!Ins("XOR", LW!kTmpRd, LW!At(q), LW!At(r)),
              LW!Ins("SLTU", d, LW!At(LW!zero), LW!At(LW!kTmpRd))>>
      BY <2>5 DEF LW!Compare
    <3> QED
      BY <3>4, <3>5, <3>6, <3>7, <3>8
  <2> QED
    BY <1>4, <2>4, <2>5
<1>5. CASE op \in {"slt", "sgt", "ult", "ugt"}
  <2> DEFINE less == IF op \in {"slt", "sgt"} THEN "SLT" ELSE "SLTU"
             a == IF op \in {"sgt", "ugt"} THEN r ELSE q
             b == IF op \in {"sgt", "ugt"} THEN q ELSE r
  <2>1. LW!Compare(op, d, LW!At(q), LW!At(r)) = <<LW!Ins(less, d, LW!At(a), LW!At(b))>>
    BY <1>5 DEF LW!Compare
  <2>2. less \in OnRegs /\ a \in Readable /\ b \in Readable
    BY <1>2
  <2>3. {LW!Alu(less, s.store[a], s.store[b])} = LW!Meaning(op, x, y)
    <3>1. CASE op = "slt"
      BY <3>1, AluIs, MeaningIs
    <3>2. CASE op = "sgt"
      <4>1. LW!Truth(LW!Signed(y) < LW!Signed(x)) = LW!Truth(LW!Signed(x) > LW!Signed(y))
        BY <1>3
      <4> QED
        BY <3>2, <4>1, AluIs, MeaningIs
    <3>3. CASE op = "ult"
      BY <3>3, AluIs, MeaningIs
    <3>4. CASE op = "ugt"
      <4>1. LW!Truth(y < x) = LW!Truth(x > y)
        BY <1>3
      <4> QED
        BY <3>4, <4>1, AluIs, MeaningIs
    <3> QED
      BY <1>5, <3>1, <3>2, <3>3, <3>4
  <2> HIDE DEF less, a, b, x, y
  <2>4. PICK t \in States : YieldsOfRegs(i, less, d, a, b, s, t)
  BY <2>2, ComputedOfRegs
  <2>5. Kept(s, t, LW!Temps \cup {i.dst})
    BY <2>4, OneStep DEF YieldsOfRegs
  <2> QED
    BY <2>1, <2>3, <2>4, <2>5 DEF x, y, YieldsOfRegs
<1>6. CASE op \in {"sle", "sge", "ule", "uge"}
  <2> DEFINE less == IF op \in {"sle", "sge"} THEN "SLT" ELSE "SLTU"
             a == IF op \in {"sle", "ule"} THEN r ELSE q
             b == IF op \in {"sle", "ule"} THEN q ELSE r
             P == IF op \in {"sle", "sge"} THEN LW!Signed(s.store[a]) < LW!Signed(s.store[b])
                  ELSE s.store[a] < s.store[b]
  <2>1. LW!Compare(op, d, LW!At(q), LW!At(r))
          = <<LW!Ins(less, LW!kTmpRd, LW!At(a), LW!At(b)),
            LW!Ins("XORI", d, LW!At(LW!kTmpRd), LW!Imm(1))>>
    BY <1>6 DEF LW!Compare
  <2>2. less \in OnRegs /\ a \in Readable /\ b \in Readable
    BY <1>2
  <2>3. P \in BOOLEAN /\ LW!Alu(less, s.store[a], s.store[b]) = LW!Truth(P)
    <3>1. CASE op \in {"sle", "sge"}
      BY <3>1, AluIs
    <3>2. CASE op \notin {"sle", "sge"}
      BY <3>2, AluIs
    <3> QED
      BY <3>1, <3>2
  <2>4. {LW!Truth(~P)} = LW!Meaning(op, x, y)
    <3>1. CASE op = "sle"
      <4>1. LW!Truth(~(LW!Signed(y) < LW!Signed(x))) = LW!Truth(LW!Signed(x) <= LW!Signed(y))
        BY <1>3
      <4> QED
        BY <3>1, <4>1, MeaningIs
    <3>2. CASE op = "sge"
      <4>1. LW!Truth(~(LW!Signed(x) < LW!Signed(y))) = LW!Truth(LW!Signed(x) >= LW!Signed(y))
        BY <1>3
      <4> QED
        BY <3>2, <4>1, MeaningIs
    <3>3. CASE op = "ule"
      <4>1. LW!Truth(~(y < x)) = LW!Truth(x <= y)
        BY <1>3
      <4> QED
        BY <3>3, <4>1, MeaningIs
    <3>4. CASE op = "uge"
      <4>1. LW!Truth(~(x < y)) = LW!Truth(x >= y)
        BY <1>3
      <4> QED
        BY <3>4, <4>1, MeaningIs
    <3> QED
      BY <1>6, <3>1, <3>2, <3>3, <3>4
  <2> HIDE DEF less, a, b, x, y, P
  <2>5. PICK t \in States :
          /\ Goes(i, <<LW!Ins(less, LW!kTmpRd, LW!At(a), LW!At(b)),
                        LW!Ins("XORI", d, LW!At(LW!kTmpRd), LW!Imm(1))>>, s, t)
          /\ Kept(s, t, LW!Temps \cup {i.dst}) /\ t.store[d] = LW!Truth(~P)
    <3>1. PICK t \in States : YieldsNot(i, less, d, a, b, P, s, t)
      BY <2>2, <2>3, NotLess
    <3> QED
      BY <3>1 DEF YieldsNot
  <2> QED
    BY <2>1, <2>4, <2>5 DEF x, y
<1> QED
  BY <1>4, <1>5, <1>6 DEF LW!Comparisons

-----------------------------------------------------------------------------
(* Sequences that leave a result in the destination                        *)

\* c leaves a member of V in DstReg.
Gives(i, c, s, V) ==
  \E t \in States : /\ Goes(i, c, s, t) /\ Kept(s, t, LW!Temps \cup {i.dst})
                    /\ t.store[LW!DstReg(i)] \in V

LEMMA GivesOn ==
  ASSUME NEW i, NEW c, NEW d, NEW s, NEW t, NEW D, NEW V, Goes(i, c, s, t),
         Kept(s, t, D), D \subseteq LW!Temps \cup {i.dst}, Gives(i, d, t, V)
  PROVE  Gives(i, c \o d, s, V)
<1>1. PICK u \in States : /\ Goes(i, d, t, u) /\ Kept(t, u, LW!Temps \cup {i.dst})
                          /\ u.store[LW!DstReg(i)] \in V
  BY DEF Gives
<1>2. Kept(s, u, LW!Temps \cup {i.dst})
  BY <1>1 DEF Kept
<1>3. Goes(i, c \o d, s, u)
  BY <1>1, GoesOn
<1> QED
  BY <1>1, <1>2, <1>3 DEF Gives

LEMMA FrontOf ==
  ASSUME NEW S, NEW c \in Seq(S), NEW m \in S
  PROVE  Front(c \o <<m>>) = c
<1> DEFINE e == c \o <<m>>
           f == Front(e)
<1>1. e \in Seq(S) /\ Len(e) = Len(c) + 1 /\ Len(c) \in Nat /\ \A k \in 1..Len(c) : e[k] = c[k]
  OBVIOUS
<1> HIDE DEF e
<1>2. f = SubSeq(e, 1, Len(c))
  BY <1>1 DEF Front
<1>3. f \in Seq(S) /\ Len(f) = Len(c) /\ \A k \in 1..Len(c) : f[k] = e[k]
  <2>1. SubSeq(e, 1, Len(c)) \in Seq(S)
    BY <1>1
  <2>2. Len(SubSeq(e, 1, Len(c))) = Len(c)
    BY <1>1
  <2>3. \A k \in 1..Len(c) : SubSeq(e, 1, Len(c))[k] = e[k]
    BY <1>1
  <2> QED
    BY <1>2, <2>1, <2>2, <2>3
<1> HIDE DEF f
<1>4. f = c
  BY <1>1, <1>3, SeqEqual
<1> QED
  BY <1>4 DEF e, f

LEMMA ReadsReg ==
  ASSUME NEW o \in Sources, NEW tmp \in LW!Temps
  PROVE  \E q \in Readable :
           LW!RegOf(o, tmp) = LW!At(q) /\ \A t \in States : LW!Read(t.store, LW!RegOf(o, tmp))
             = t.store[q]
<1>1. PICK q \in InsRegs \cup {tmp} : LW!RegOf(o, tmp) = LW!At(q)
  BY RegOfFacts
<1>2. q \in Readable
  BY PlaceFacts DEF Readable
<1>3. \A t \in States : LW!Read(t.store, LW!At(q)) = t.store[q]
  BY ReadFacts DEF States
<1> QED
  BY <1>1, <1>2, <1>3

LEMMA GivesComputed ==
  ASSUME NEW i, HasDst(i), NEW s \in States, NEW op \in OnRegs, NEW q \in Readable,
         NEW r \in Readable, NEW V, LW!Alu(op, s.store[q], s.store[r]) \in V
  PROVE  Gives(i, <<LW!Ins(op, LW!DstReg(i), LW!At(q), LW!At(r))>>, s, V)
<1>1. IsTarget(i, LW!DstReg(i))
  BY DstFacts
<1>2. PICK t \in States : YieldsOfRegs(i, op, LW!DstReg(i), q, r, s, t)
  BY <1>1, ComputedOfRegs
<1>3. Kept(s, t, LW!Temps \cup {i.dst})
  BY <1>1, <1>2, TargetFacts DEF Kept, YieldsOfRegs
<1> QED
  BY <1>2, <1>3 DEF Gives, YieldsOfRegs

LEMMA GivesComputedOfImm ==
  ASSUME NEW i, HasDst(i), NEW s \in States, NEW op, NEW q \in Readable,
         NEW n \in Int, IsOperandOf(op, LW!Imm(n)), NEW V, LW!Alu(op, s.store[q], LW!Word(n)) \in V
  PROVE  Gives(i, <<LW!Ins(op, LW!DstReg(i), LW!At(q), LW!Imm(n))>>, s, V)
<1>1. IsTarget(i, LW!DstReg(i))
  BY DstFacts
<1>2. PICK t \in States : YieldsOfImm(i, op, LW!DstReg(i), q, n, s, t)
  BY <1>1, ComputedOfImm
<1>3. Kept(s, t, LW!Temps \cup {i.dst})
  BY <1>1, <1>2, TargetFacts DEF Kept, YieldsOfImm
<1> QED
  BY <1>2, <1>3 DEF Gives, YieldsOfImm

\* Both operands in registers, then one more instruction or two.
LEMMA OfBoth ==
  ASSUME NEW i, HasDst(i), NEW s \in States, s.store[LW!zero] = 0, i.lhs \in Sources,
           i.rhs \in Sources,
         i.op \in LW!BinaryOps
  PROVE  LET l == LW!RegOf(i.lhs, LW!kTmpRs1)
             r == LW!RegOf(i.rhs, LW!kTmpRs2)
             V == LW!Meaning(i.op, LW!Read(s.store, i.lhs), LW!Read(s.store, i.rhs))
         IN /\ i.op \in LW!Comparisons =>
                 Gives(i, Both(i.lhs, i.rhs) \o LW!Compare(i.op, LW!DstReg(i), l, r), s, V)
            /\ i.op \notin LW!Comparisons =>
                 Gives(i, Both(i.lhs, i.rhs) \o <<LW!Ins(LW!RegOp[i.op], LW!DstReg(i), l, r)>>,
                   s, V)
<1> DEFINE l == LW!RegOf(i.lhs, LW!kTmpRs1)
           r == LW!RegOf(i.rhs, LW!kTmpRs2)
           V == LW!Meaning(i.op, LW!Read(s.store, i.lhs), LW!Read(s.store, i.rhs))
<1>0. LW!kTmpRs1 \in LW!Temps /\ LW!kTmpRs2 \in LW!Temps /\ LW!Temps \subseteq LW!Temps \cup {i.dst}
  BY PlaceFacts
<1>a. PICK t \in States : AreReady(i, i.lhs, i.rhs, s, t)
  BY BothReady
<1>1. /\ Goes(i, Both(i.lhs, i.rhs), s, t) /\ Kept(s, t, LW!Temps)
      /\ LW!Read(t.store, l) = LW!Read(s.store, i.lhs) /\ LW!Read(t.store, r)
           = LW!Read(s.store, i.rhs)
  BY <1>a DEF AreReady
<1>2. PICK p \in Readable : l = LW!At(p) /\ LW!Read(t.store, l) = t.store[p]
  BY <1>0, ReadsReg
<1>3. PICK q \in Readable : r = LW!At(q) /\ LW!Read(t.store, r) = t.store[q]
  BY <1>0, ReadsReg
<1>4. V = LW!Meaning(i.op, t.store[p], t.store[q]) /\ t.store[p] \in LW!Words
        /\ t.store[q] \in LW!Words
  <2>1. t.store[p] = LW!Read(s.store, i.lhs) /\ t.store[q] = LW!Read(s.store, i.rhs)
    BY <1>1, <1>2, <1>3
  <2>2. t.store[p] \in LW!Words /\ t.store[q] \in LW!Words
    BY DEF States, Readable
  <2> QED
    BY <2>1, <2>2
<1>5. t.store[LW!zero] = 0
  BY <1>1, PlaceFacts DEF Kept
<1> HIDE DEF l, r, V
<1>6. ASSUME i.op \in LW!Comparisons
      PROVE  Gives(i, Both(i.lhs, i.rhs) \o LW!Compare(i.op, LW!DstReg(i), l, r), s, V)
  <2>1. IsTarget(i, LW!DstReg(i))
    BY DstFacts
  <2>2. PICK u \in States :
          /\ Goes(i, LW!Compare(i.op, LW!DstReg(i), LW!At(p), LW!At(q)), t, u)
          /\ Kept(t, u, LW!Temps \cup {i.dst})
          /\ u.store[LW!DstReg(i)] \in LW!Meaning(i.op, t.store[p], t.store[q])
    BY <1>5, <1>6, <2>1, Compared
  <2>3. Gives(i, LW!Compare(i.op, LW!DstReg(i), l, r), t, V)
    BY <1>2, <1>3, <1>4, <2>2 DEF Gives
  <2> QED
    BY <1>0, <1>1, <2>3, GivesOn
<1>7. ASSUME i.op \notin LW!Comparisons
      PROVE  Gives(i, Both(i.lhs, i.rhs) \o <<LW!Ins(LW!RegOp[i.op], LW!DstReg(i), l, r)>>, s, V)
  <2>1. i.op \in ValueOps
    BY <1>7 DEF ValueOps
  <2>2. LW!RegOp[i.op] \in OnRegs /\ LW!Alu(LW!RegOp[i.op], t.store[p], t.store[q]) \in V
    BY <1>4, <2>1, OpOfRegs
  <2>3. Gives(i, <<LW!Ins(LW!RegOp[i.op], LW!DstReg(i), l, r)>>, t, V)
    BY <1>2, <1>3, <2>2, GivesComputed
  <2> QED
    BY <1>0, <1>1, <2>3, GivesOn
<1> QED
  BY <1>6, <1>7 DEF l, r, V

\* One operand in a register, the other an immediate: the instruction that
\* would have loaded it is gone.
LEMMA OfImm ==
  ASSUME NEW i, HasDst(i), NEW s \in States, NEW o \in Sources, NEW tmp \in LW!Temps, ~LW!IsImm(o),
         NEW op \in ValueOps, NEW n \in Int, LW!TakesImm(op, n),
         op \in LW!Shifts => n \in 0..XLen - 1
  PROVE  Gives(i, LW!Fetch(o, tmp)
           \o <<LW!Ins(LW!ImmOp[op], LW!DstReg(i), LW!RegOf(o, tmp), LW!Field(op, n))>>, s,
               LW!Meaning(op, LW!Read(s.store, o), LW!Word(n)))
<1> DEFINE V == LW!Meaning(op, LW!Read(s.store, o), LW!Word(n))
<1>1. PICK t \in States : IsFetched(i, o, tmp, s, t)
  BY Fetched
<1>2. Goes(i, LW!Fetch(o, tmp), s, t) /\ Kept(s, t, {tmp})
      /\ LW!Read(t.store, LW!RegOf(o, tmp)) = LW!Read(s.store, o)
  BY <1>1 DEF IsFetched
<1>3. PICK p \in Readable : LW!RegOf(o, tmp) = LW!At(p) /\ LW!Read(t.store, LW!RegOf(o, tmp))
                              = t.store[p]
  BY ReadsReg
<1>4. t.store[p] \in LW!Words /\ t.store[p] = LW!Read(s.store, o)
  BY <1>2, <1>3 DEF States, Readable
<1>5. PICK k \in Int : /\ LW!Field(op, n) = LW!Imm(k) /\ IsOperandOf(LW!ImmOp[op], LW!Imm(k))
                       /\ LW!Alu(LW!ImmOp[op], t.store[p], LW!Word(k)) \in LW!Meaning(op,
                            t.store[p], LW!Word(n))
  BY <1>4, OpOfImm
<1>6. LW!Alu(LW!ImmOp[op], t.store[p], LW!Word(k)) \in V
  BY <1>4, <1>5
<1> HIDE DEF V
<1>7. Gives(i, <<LW!Ins(LW!ImmOp[op], LW!DstReg(i), LW!At(p), LW!Imm(k))>>, t, V)
  BY <1>5, <1>6, GivesComputedOfImm
<1>8. Gives(i, <<LW!Ins(LW!ImmOp[op], LW!DstReg(i), LW!RegOf(o, tmp), LW!Field(op, n))>>, t, V)
  BY <1>3, <1>5, <1>7
<1>9. {tmp} \subseteq LW!Temps \cup {i.dst}
  OBVIOUS
<1>10. Gives(i, LW!Fetch(o, tmp)
         \o <<LW!Ins(LW!ImmOp[op], LW!DstReg(i), LW!RegOf(o, tmp), LW!Field(op, n))>>, s, V)
  BY <1>2, <1>8, <1>9, GivesOn
<1> QED
  BY <1>10 DEF V

-----------------------------------------------------------------------------
(* generate_binary_op                                                      *)

\* The operands once one of them is folded into the instruction.
LEMMA Folded ==
  ASSUME NEW l, NEW r
  PROVE  /\ LW!IsImm(l) /\ ~LW!IsImm(r) => Front(Both(l, r)) = LW!Fetch(r, LW!kTmpRs2)
         /\ LW!IsImm(r) /\ ~LW!IsImm(l) => Front(Both(l, r)) = LW!Fetch(l, LW!kTmpRs1)
<1> DEFINE x == LW!Mv(LW!kTmpRs1, l)
           y == LW!Mv(LW!kTmpRs2, r)
           S == {x, y}
           c == LW!Fetch(l, LW!kTmpRs1)
           d == LW!Fetch(r, LW!kTmpRs2)
           e == LW!LoadImm(l, LW!kTmpRs1)
           f == LW!LoadImm(r, LW!kTmpRs2)
<1>1. /\ c = <<>> \/ c = <<x>>
      /\ d = <<>> \/ d = <<y>>
      /\ LW!IsImm(l) => c = <<>> /\ e = <<x>>
      /\ LW!IsImm(r) => d = <<>> /\ f = <<y>>
      /\ ~LW!IsImm(l) => e = <<>>
      /\ ~LW!IsImm(r) => f = <<>>
  BY DEF LW!Fetch, LW!LoadImm
<1>2. c \in Seq(S) /\ d \in Seq(S) /\ x \in S /\ y \in S
  <2> HIDE DEF c, d, x, y
  <2>1. x \in S /\ y \in S
    OBVIOUS
  <2> HIDE DEF S
  <2>2. <<>> \in Seq(S) /\ <<x>> \in Seq(S) /\ <<y>> \in Seq(S)
    BY <2>1
  <2> QED
    BY <1>1, <2>1, <2>2
<1>3. Both(l, r) = ((c \o d) \o e) \o f
  BY DEF Both
<1> HIDE DEF x, y, S, c, d, e, f
<1>4. ASSUME LW!IsImm(l), ~LW!IsImm(r) PROVE Front(Both(l, r)) = d
  <2>1. Both(l, r) = ((<<>> \o d) \o <<x>>) \o <<>>
    BY <1>1, <1>3, <1>4
  <2>2. ((<<>> \o d) \o <<x>>) \o <<>> = d \o <<x>>
    BY <1>2
  <2> QED
    BY <1>2, <2>1, <2>2, FrontOf
<1>5. ASSUME LW!IsImm(r), ~LW!IsImm(l) PROVE Front(Both(l, r)) = c
  <2>1. Both(l, r) = ((c \o <<>>) \o <<>>) \o <<y>>
    BY <1>1, <1>3, <1>5
  <2>2. ((c \o <<>>) \o <<>>) \o <<y>> = c \o <<y>>
    BY <1>2
  <2> QED
    BY <1>2, <2>1, <2>2, FrontOf
<1> QED
  BY <1>4, <1>5 DEF c, d

LEMMA BinaryIs ==
  ASSUME NEW i
  PROVE  LET d == LW!DstReg(i)
             l == LW!RegOf(i.lhs, LW!kTmpRs1)
             r == LW!RegOf(i.rhs, LW!kTmpRs2)
             both == Both(i.lhs, i.rhs)
             immLeft == /\ LW!IsImm(i.lhs) /\ ~LW!IsImm(i.rhs) /\ i.op # "sub"
                        /\ LW!TakesImm(i.op, i.lhs[2])
             immRight == LW!IsImm(i.rhs) /\ ~LW!IsImm(i.lhs) /\ LW!TakesImm(i.op, i.rhs[2])
         IN /\ i.op \in LW!Comparisons => LW!Binary(i) = both \o LW!Compare(i.op, d, l, r)
            /\ i.op \notin LW!Comparisons /\ immLeft =>
                 LW!Binary(i) = Front(both)
                   \o <<LW!Ins(LW!ImmOp[i.op], d, r, LW!Field(i.op, i.lhs[2]))>>
            /\ i.op \notin LW!Comparisons /\ immRight =>
                 LW!Binary(i) = Front(both)
                   \o <<LW!Ins(LW!ImmOp[i.op], d, l, LW!Field(i.op, i.rhs[2]))>>
            /\ i.op \notin LW!Comparisons /\ ~immLeft /\ ~immRight =>
                 LW!Binary(i) = both \o <<LW!Ins(LW!RegOp[i.op], d, l, r)>>
<1> DEFINE d == LW!DstReg(i)
           l == LW!RegOf(i.lhs, LW!kTmpRs1)
           r == LW!RegOf(i.rhs, LW!kTmpRs2)
           both == Both(i.lhs, i.rhs)
           immLeft == /\ LW!IsImm(i.lhs) /\ ~LW!IsImm(i.rhs) /\ i.op # "sub"
                      /\ LW!TakesImm(i.op, i.lhs[2])
           immRight == LW!IsImm(i.rhs) /\ ~LW!IsImm(i.lhs) /\ LW!TakesImm(i.op, i.rhs[2])
<1>1. LW!Binary(i) =
        CASE i.op \in LW!Comparisons -> both \o LW!Compare(i.op, d, l, r)
          [] immLeft -> Front(both) \o <<LW!Ins(LW!ImmOp[i.op], d, r, LW!Field(i.op, i.lhs[2]))>>
          [] immRight -> Front(both) \o <<LW!Ins(LW!ImmOp[i.op], d, l, LW!Field(i.op, i.rhs[2]))>>
          [] OTHER -> both \o <<LW!Ins(LW!RegOp[i.op], d, l, r)>>
  BY DEF LW!Binary, Both
<1> HIDE DEF d, l, r, both
<1>2. ASSUME i.op \in LW!Comparisons PROVE LW!Binary(i) = both \o LW!Compare(i.op, d, l, r)
  <2>1. \A n : ~LW!TakesImm(i.op, n)
    BY <1>2 DEF LW!TakesImm, LW!ImmOp, LW!Comparisons
  <2> QED
    BY <1>1, <1>2, <2>1
<1>3. ASSUME i.op \notin LW!Comparisons, immLeft
      PROVE  LW!Binary(i) = Front(both)
               \o <<LW!Ins(LW!ImmOp[i.op], d, r, LW!Field(i.op, i.lhs[2]))>>
  BY <1>1, <1>3
<1>4. ASSUME i.op \notin LW!Comparisons, immRight
      PROVE  LW!Binary(i) = Front(both)
               \o <<LW!Ins(LW!ImmOp[i.op], d, l, LW!Field(i.op, i.rhs[2]))>>
  BY <1>1, <1>4
<1>5. ASSUME i.op \notin LW!Comparisons, ~immLeft, ~immRight
      PROVE  LW!Binary(i) = both \o <<LW!Ins(LW!RegOp[i.op], d, l, r)>>
  BY <1>1, <1>5
<1> QED
  BY <1>2, <1>3, <1>4, <1>5 DEF d, l, r, both

LEMMA BinaryGives ==
  ASSUME NEW i, HasDst(i), NEW s \in States, s.store[LW!zero] = 0,
         i.lhs \in Sources, i.rhs \in Sources, i.op \in LW!BinaryOps,
         LW!Allowed(i.op, i.lhs, i.rhs), ~ShiftOfImm
  PROVE  Gives(i, LW!Binary(i), s,
           LW!Meaning(i.op, LW!Read(s.store, i.lhs), LW!Read(s.store, i.rhs)))
<1> DEFINE immLeft == /\ LW!IsImm(i.lhs) /\ ~LW!IsImm(i.rhs) /\ i.op # "sub"
                      /\ LW!TakesImm(i.op, i.lhs[2])
           immRight == LW!IsImm(i.rhs) /\ ~LW!IsImm(i.lhs) /\ LW!TakesImm(i.op, i.rhs[2])
<1>0. s.store \in [LW!Places -> LW!Words] /\ LW!kTmpRs1 \in LW!Temps /\ LW!kTmpRs2 \in LW!Temps
  BY PlaceFacts DEF States
<1>1. CASE i.op \in LW!Comparisons
  BY <1>1, BinaryIs, OfBoth
<1>2. CASE i.op \notin LW!Comparisons /\ ~immLeft /\ ~immRight
  BY <1>2, BinaryIs, OfBoth
<1>3. CASE i.op \notin LW!Comparisons /\ immLeft
  <2>1. PICK n \in Int : i.lhs = LW!Imm(n)
    BY <1>3, SourceFacts
  <2>2. i.lhs[2] = n /\ LW!Read(s.store, i.lhs) = LW!Word(n) /\ LW!Word(n) \in LW!Words
    BY <1>0, <2>1, ReadFacts, WordType DEF LW!Imm
  <2>3. LW!Read(s.store, i.rhs) \in LW!Words
    BY <1>0, ReadFacts, SourceFacts
  <2>4. i.op \in LW!Commutative
    <3>1. i.op \notin LW!Shifts
      BY <1>3 DEF LW!Allowed
    <3>2. LW!TakesImm(i.op, n)
      BY <1>3, <2>2
    <3>3. i.op \notin {"udiv", "urem", "sdiv", "srem"}
      BY <3>2 DEF LW!TakesImm, LW!ImmOp
    <3> QED
      BY <1>3, <3>1, <3>3 DEF LW!BinaryOps
  <2>5. i.op \in ValueOps /\ i.op \notin LW!Shifts
    BY <1>3, <2>4 DEF ValueOps, LW!Commutative, LW!Shifts
  <2>6. Gives(i, LW!Fetch(i.rhs, LW!kTmpRs2)
                   \o <<LW!Ins(LW!ImmOp[i.op], LW!DstReg(i), LW!RegOf(i.rhs, LW!kTmpRs2),
                     LW!Field(i.op, n))>>, s,
              LW!Meaning(i.op, LW!Read(s.store, i.rhs), LW!Word(n)))
    BY <1>0, <1>3, <2>2, <2>5, OfImm
  <2>7. LW!Meaning(i.op, LW!Read(s.store, i.rhs), LW!Word(n))
          = LW!Meaning(i.op, LW!Read(s.store, i.lhs), LW!Read(s.store, i.rhs))
    BY <2>2, <2>3, <2>4, MeaningCommutes
  <2>8. LW!Binary(i) = LW!Fetch(i.rhs, LW!kTmpRs2)
                      \o <<LW!Ins(LW!ImmOp[i.op], LW!DstReg(i), LW!RegOf(i.rhs, LW!kTmpRs2),
                        LW!Field(i.op, n))>>
    BY <1>3, <2>2, BinaryIs, Folded
  <2> QED
    BY <2>6, <2>7, <2>8
<1>4. CASE i.op \notin LW!Comparisons /\ immRight
  <2>1. PICK n \in Int : i.rhs = LW!Imm(n)
    BY <1>4, SourceFacts
  <2>2. i.rhs[2] = n /\ LW!Read(s.store, i.rhs) = LW!Word(n)
    BY <1>0, <2>1, ReadFacts DEF LW!Imm
  <2>3. i.op \in ValueOps /\ (i.op \in LW!Shifts => n \in 0..XLen - 1)
    BY <1>4, <2>2 DEF ValueOps, LW!Allowed
  <2>4. Gives(i, LW!Fetch(i.lhs, LW!kTmpRs1)
                   \o <<LW!Ins(LW!ImmOp[i.op], LW!DstReg(i), LW!RegOf(i.lhs, LW!kTmpRs1),
                     LW!Field(i.op, n))>>, s,
              LW!Meaning(i.op, LW!Read(s.store, i.lhs), LW!Word(n)))
    BY <1>0, <1>4, <2>2, <2>3, OfImm
  <2>5. LW!Binary(i) = LW!Fetch(i.lhs, LW!kTmpRs1)
                      \o <<LW!Ins(LW!ImmOp[i.op], LW!DstReg(i), LW!RegOf(i.lhs, LW!kTmpRs1),
                        LW!Field(i.op, n))>>
    BY <1>4, <2>2, BinaryIs, Folded
  <2> QED
    BY <2>2, <2>4, <2>5
<1> QED
  BY <1>1, <1>2, <1>3, <1>4

-----------------------------------------------------------------------------
(* generate_cast, generate_load                                            *)

\* Nothing more to do: the value is where it should be.
LEMMA GivesNothing ==
  ASSUME NEW i, NEW s \in States, NEW V, s.store[LW!DstReg(i)] \in V
  PROVE  Gives(i, <<>>, s, V)
<1>1. Kept(s, s, LW!Temps \cup {i.dst}) /\ Goes(i, <<>>, s, s)
  BY GoesNowhere DEF Kept
<1> QED
  BY <1>1 DEF Gives

HasMoved(i, p, o, s, t) ==
  Goes(i, <<LW!Mv(p, o)>>, s, t) /\ Kept(s, t, {p}) /\ t.store[p] = LW!Read(s.store, o)
LEMMA MovedToReg ==
  ASSUME NEW i, NEW s \in States, NEW o \in Operands3, NEW p, IsTarget(i, p)
  PROVE  \E t \in States : HasMoved(i, p, o, s, t)
<1>1. p \in LW!Temps \cup ({i.dst} \cap (InsRegs \cup Slots)) /\ p \notin Slots
  BY PlaceFacts DEF IsTarget
<1>2. PICK t \in States :
        Goes(i, <<LW!Mv(p, o)>>, s, t) /\ Kept(s, t, {p}) /\ t.store[p] = LW!Read(s.store, o)
  BY <1>1, Moved
<1> QED
  BY <1>2 DEF HasMoved

LEMMA GivesMoved ==
  ASSUME NEW i, HasDst(i), NEW s \in States, NEW o \in Operands3, NEW V, LW!Read(s.store, o) \in V
  PROVE  Gives(i, <<LW!Mv(LW!DstReg(i), o)>>, s, V)
<1>1. IsTarget(i, LW!DstReg(i))
  BY DstFacts
<1>2. PICK t \in States : HasMoved(i, LW!DstReg(i), o, s, t)
  BY <1>1, MovedToReg
<1>3. Kept(s, t, LW!Temps \cup {i.dst})
  BY <1>1, <1>2, TargetFacts DEF Kept, HasMoved
<1> QED
  BY <1>2, <1>3 DEF Gives, HasMoved

LEMMA CastGives ==
  ASSUME NEW i, HasDst(i), NEW s \in States, i.lhs \in Sources
  PROVE  Gives(i, LW!Cast(i), s, {LW!Read(s.store, i.lhs)})
<1> DEFINE src == LW!RegOf(i.lhs, LW!kTmpRs1)
           c == LW!Fetch(i.lhs, LW!kTmpRs1) \o LW!LoadImm(i.lhs, LW!kTmpRs1)
           e == IF src = LW!At(LW!DstReg(i)) THEN <<>> ELSE <<LW!Mv(LW!DstReg(i), src)>>
           V == {LW!Read(s.store, i.lhs)}
<1>1. LW!kTmpRs1 \in LW!Temps /\ {LW!kTmpRs1} \subseteq LW!Temps \cup {i.dst}
  BY PlaceFacts
<1>2. PICK t \in States : IsReady(i, i.lhs, LW!kTmpRs1, s, t)
  BY <1>1, OneReady
<1>3. Goes(i, c, s, t) /\ Kept(s, t, {LW!kTmpRs1}) /\ LW!Read(t.store, src) \in V
  BY <1>2 DEF IsReady
<1>4. PICK q \in Readable : src = LW!At(q) /\ LW!Read(t.store, src) = t.store[q]
  BY <1>1, ReadsReg
<1>5. LW!Cast(i) = c \o e
  BY DEF LW!Cast
<1>6. LW!At(q) \in Operands3
  BY DEF Operands3, Readable
<1> HIDE DEF src, c, V
<1>7. CASE src = LW!At(LW!DstReg(i))
  <2>1. t.store[LW!DstReg(i)] \in V /\ e = <<>>
    BY <1>3, <1>4, <1>7 DEF LW!At
  <2>2. Gives(i, e, t, V)
    BY <2>1, GivesNothing
  <2> HIDE DEF e
  <2>3. Gives(i, c \o e, s, V)
    BY <1>1, <1>3, <2>2, GivesOn
  <2> QED
    BY <1>5, <2>3 DEF V
<1>8. CASE src # LW!At(LW!DstReg(i))
  <2>1. Gives(i, <<LW!Mv(LW!DstReg(i), src)>>, t, V)
    BY <1>3, <1>4, <1>6, GivesMoved
  <2>2. Gives(i, e, t, V)
    BY <1>8, <2>1
  <2> HIDE DEF e
  <2>3. Gives(i, c \o e, s, V)
    BY <1>1, <1>3, <2>2, GivesOn
  <2> QED
    BY <1>5, <2>3 DEF V
<1> QED
  BY <1>7, <1>8

LEMMA LoadGives ==
  ASSUME NEW i, HasDst(i), NEW s \in States, i.lhs \in Sources, ~LW!IsImm(i.lhs),
         i.size \in 1..XLen
  PROVE  Gives(i, LW!LoadWord(i), s, {LW!Word(LW!Extended(i.size, s.mem[LW!Read(s.store, i.lhs)]))})
<1> DEFINE d == LW!DstReg(i)
           base == LW!RegOf(i.lhs, LW!kTmpRs1)
           c == LW!Fetch(i.lhs, LW!kTmpRs1)
           m == LW!Ins("LOAD", d, base, LW!Imm(i.size))
           v == LW!Word(LW!Extended(i.size, s.mem[LW!Read(s.store, i.lhs)]))
<1>1. LW!kTmpRs1 \in LW!Temps /\ {LW!kTmpRs1} \subseteq LW!Temps \cup {i.dst}
  BY PlaceFacts
<1>2. PICK t \in States : IsFetched(i, i.lhs, LW!kTmpRs1, s, t)
  BY <1>1, Fetched
<1>3. /\ Goes(i, c, s, t) /\ Kept(s, t, {LW!kTmpRs1}) /\ t.mem = s.mem
      /\ LW!Read(t.store, base) = LW!Read(s.store, i.lhs)
  BY <1>2 DEF IsFetched, Kept
<1>4. PICK q \in Readable : base = LW!At(q)
  BY <1>1, ReadsReg
<1>5. i.size \in Int /\ i.size \in 0..XLen /\ LW!At(q) \in Operands3 /\ LW!Imm(i.size) \in Operands3
  BY LoweringAssumption DEF LW!IsConfiguration, Operands3, Readable
<1>6. IsTarget(i, d) /\ d \in LW!Places /\ d \notin Slots /\ d \in LW!Temps \cup {i.dst}
  BY DstFacts, TargetFacts DEF Readable
<1>7. m.op = "LOAD" /\ m.rd = d /\ m.a = LW!At(q) /\ m.b = LW!Imm(i.size)
  BY <1>4 DEF LW!Ins
<1>8. IsIns(m)
  BY <1>5, <1>6, <1>7 DEF IsIns
<1>9. m \in Instrs
  BY <1>5, <1>6, <1>7, <1>8 DEF Instrs, LW!Ins
<1>10. LW!Encodable(m)
  <2>1. LW!At(q)[1] = "at" /\ LW!At(q)[2] \notin Slots
    BY DEF LW!At, Readable
  <2> HIDE DEF m, d
  <2> QED
    BY <1>6, <1>7, <2>1 DEF LW!Encodable
<1>11. m \in Plain(i)
  BY <1>6, <1>7, <1>9, <1>10 DEF Plain
<1>12. Effect(t, m) = Put(t, d, v)
  <2>1. LW!Read(t.store, LW!Imm(i.size)) = i.size
    BY <1>5, ReadFacts, SmallWord DEF States
  <2>2. LW!Read(t.store, m.a) = LW!Read(s.store, i.lhs) /\ LW!Read(t.store, m.b) = i.size
    BY <1>3, <1>4, <1>7, <2>1
  <2>3. Yield(t, m) = v
    BY <1>3, <1>7, <2>2 DEF Yield
  <2> QED
    BY <1>7, <2>3 DEF Effect
<1>13. v \in LW!Words
  <2>1. LW!Read(s.store, i.lhs) \in LW!Words
    BY ReadFacts, SourceFacts DEF States
  <2>2. s.mem[LW!Read(s.store, i.lhs)] \in LW!Words
    BY <2>1 DEF States
  <2> QED
    BY <2>2, ExtendedType, WordType
<1>14. Goes(i, <<m>>, t, Effect(t, m))
  BY <1>11, GoesOne
<1> HIDE DEF m, v, c, base, d
<1>15. Put(t, d, v) \in States /\ Put(t, d, v).store[d] = v /\ Kept(t, Put(t, d, v), {d})
  BY <1>6, <1>13, PutFacts
<1>16. Kept(t, Put(t, d, v), LW!Temps \cup {i.dst})
  BY <1>6, <1>15 DEF Kept
<1>17. Gives(i, <<m>>, t, {v})
  BY <1>12, <1>14, <1>15, <1>16 DEF Gives, d
<1>18. Gives(i, c \o <<m>>, s, {v})
  BY <1>1, <1>3, <1>17, GivesOn
<1> QED
  BY <1>18 DEF LW!LoadWord, c, m, v, base, d

-----------------------------------------------------------------------------
(* generate_gep                                                            *)

LEMMA WordOfSum ==
  ASSUME NEW a \in Int, NEW b \in Int
  PROVE  LW!Word(a + LW!Word(b)) = LW!Word(a + b)
<1>1. LW!Word(b) \in LW!Words /\ LW!Word(b) \in Int /\ LW!Word(LW!Word(b)) = LW!Word(b)
  BY WordType
<1> QED
  BY <1>1, WordOps

\* The base is fetched and p, which holds v, is added.
AddTo(i, p) == <<LW!Ins("ADD", LW!DstReg(i), LW!RegOf(i.lhs, LW!kTmpRs1), LW!At(p))>>
LEMMA BaseAdded ==
  ASSUME NEW i, HasDst(i), NEW s \in States, i.lhs \in Sources, ~LW!IsImm(i.lhs),
         NEW p \in Readable, p # LW!kTmpRs1, NEW b \in Int, s.store[p] = LW!Word(b)
  PROVE  Gives(i, LW!Fetch(i.lhs, LW!kTmpRs1) \o AddTo(i, p), s,
           {LW!Word(LW!Read(s.store, i.lhs) + b)})
<1> DEFINE x == LW!Read(s.store, i.lhs)
           c == LW!Fetch(i.lhs, LW!kTmpRs1)
           V == {LW!Word(x + b)}
<1>1. LW!kTmpRs1 \in LW!Temps /\ {LW!kTmpRs1} \subseteq LW!Temps \cup {i.dst}
  BY PlaceFacts
<1>2. PICK t \in States : IsFetched(i, i.lhs, LW!kTmpRs1, s, t)
  BY <1>1, Fetched
<1>3. /\ Goes(i, c, s, t) /\ Kept(s, t, {LW!kTmpRs1})
      /\ LW!Read(t.store, LW!RegOf(i.lhs, LW!kTmpRs1)) = x
  BY <1>2 DEF IsFetched
<1>4. PICK q \in Readable :
        LW!RegOf(i.lhs, LW!kTmpRs1) = LW!At(q) /\ LW!Read(t.store, LW!RegOf(i.lhs, LW!kTmpRs1))
          = t.store[q]
  BY <1>1, ReadsReg
<1>5. t.store[q] = x /\ t.store[p] = LW!Word(b) /\ x \in Int
  <2>1. t.store[p] = s.store[p]
    BY <1>3 DEF Kept, Readable
  <2>2. t.store[q] \in LW!Words
    BY DEF States, Readable
  <2> QED
    BY <1>3, <1>4, <2>1, <2>2, WordType
<1> HIDE DEF x, c
<1>6. LW!Alu("ADD", t.store[q], t.store[p]) = LW!Word(x + b)
  <2>1. LW!Alu("ADD", x, LW!Word(b)) = LW!Word(x + LW!Word(b))
    BY AluIs
  <2> QED
    BY <1>5, <2>1, WordOfSum
<1>7. "ADD" \in OnRegs
  BY DEF OnRegs
<1>8. LW!Alu("ADD", t.store[q], t.store[p]) \in V
  BY <1>6
<1> HIDE DEF V
<1>9. Gives(i, AddTo(i, p), t, V)
  BY <1>4, <1>7, <1>8, GivesComputed DEF AddTo
<1>10. Gives(i, c \o AddTo(i, p), s, V)
  BY <1>1, <1>3, <1>9, GivesOn
<1> QED
  BY <1>10 DEF c, V, x

LEMMA Regrouped ==
  ASSUME NEW i, NEW c, NEW s, NEW t, Goes(i, c, s, t), NEW p
  PROVE  c \o (LW!Fetch(i.lhs, LW!kTmpRs1) \o AddTo(i, p)) = (c \o LW!Fetch(i.lhs, LW!kTmpRs1))
           \o AddTo(i, p)
<1> DEFINE x == LW!Mv(LW!kTmpRs1, i.lhs)
           y == LW!Ins("ADD", LW!DstReg(i), LW!RegOf(i.lhs, LW!kTmpRs1), LW!At(p))
           S == Plain(i) \cup {x, y}
           e == LW!Fetch(i.lhs, LW!kTmpRs1)
<1>1. (e = <<>> \/ e = <<x>>) /\ AddTo(i, p) = <<y>>
  BY DEF LW!Fetch, AddTo
<1> HIDE DEF x, y, e
<1>2. c \in Seq(S)
  BY DEF Goes
<1>3. e \in Seq(S) /\ AddTo(i, p) \in Seq(S)
  <2>1. x \in S /\ y \in S
    OBVIOUS
  <2> HIDE DEF S
  <2>2. <<>> \in Seq(S) /\ <<x>> \in Seq(S) /\ <<y>> \in Seq(S)
    BY <2>1
  <2> QED
    BY <1>1, <2>2
<1> HIDE DEF S
<1>4. c \o (e \o AddTo(i, p)) = (c \o e) \o AddTo(i, p)
  BY <1>2, <1>3, ConcatAssociative
<1> QED
  BY <1>4 DEF e

\* Fetched to kTmpRs2, the index is scaled there.
LEMMA ElementIs ==
  ASSUME NEW i
  PROVE  LET index == LW!RegOf(i.rhs, LW!kTmpRs2)
             power == i.size \in {LW!Pow2[k] : k \in 1..XLen}
             add(o) == <<LW!Ins("ADD", LW!DstReg(i), LW!RegOf(i.lhs, LW!kTmpRs1), o)>>
         IN /\ i.size = 1 =>
                 LW!Element(i) = LW!Fetch(i.rhs, LW!kTmpRs2) \o LW!Fetch(i.lhs, LW!kTmpRs1)
                   \o add(index)
            /\ i.size # 1 /\ power =>
                 LW!Element(i) = LW!Fetch(i.rhs, LW!kTmpRs2)
                                \o <<LW!Ins("SLLI", LW!kTmpRs2, index, LW!Imm(LW!Log2(i.size)))>>
                                \o LW!Fetch(i.lhs, LW!kTmpRs1) \o add(LW!At(LW!kTmpRs2))
            /\ i.size # 1 /\ ~power =>
                 LW!Element(i) = <<LW!Mv(LW!kTmpRs1, LW!Imm(i.size))>>
                   \o LW!Fetch(i.rhs, LW!kTmpRs2)
                                \o <<LW!Ins("MUL", LW!kTmpRs2, index, LW!At(LW!kTmpRs1))>>
                                \o LW!Fetch(i.lhs, LW!kTmpRs1) \o add(LW!At(LW!kTmpRs2))
<1>1. \A k \in 1..XLen : LW!Pow2[k] # 1
  <2> TAKE k \in 1..XLen
  <2>1. k \in 0..XLen /\ 1 <= k
    BY LoweringAssumption DEF LW!IsConfiguration
  <2>2. k < LW!Pow2[k] /\ LW!Pow2[k] \in Int
    BY <2>1, Grow, PowersExist
  <2> QED
    BY <2>1, <2>2
<1> DEFINE index == LW!RegOf(i.rhs, LW!kTmpRs2)
           power == i.size \in {LW!Pow2[k] : k \in 1..XLen}
           c == LW!Fetch(i.rhs, LW!kTmpRs2)
           e == LW!Fetch(i.lhs, LW!kTmpRs1)
           add(o) == <<LW!Ins("ADD", LW!DstReg(i), LW!RegOf(i.lhs, LW!kTmpRs1), o)>>
           one == c \o e \o add(index)
           shifted == c \o <<LW!Ins("SLLI", LW!kTmpRs2, index, LW!Imm(LW!Log2(i.size)))>> \o e
             \o add(LW!At(LW!kTmpRs2))
           other == <<LW!Mv(LW!kTmpRs1, LW!Imm(i.size))>> \o c
             \o <<LW!Ins("MUL", LW!kTmpRs2, index, LW!At(LW!kTmpRs1))>>
                      \o e \o add(LW!At(LW!kTmpRs2))
<1>2. LW!Element(i) = CASE i.size = 1 -> one [] power -> shifted [] OTHER -> other
  BY DEF LW!Element
<1>3. ~(i.size = 1 /\ power)
  BY <1>1
<1> HIDE DEF one, shifted, other, power
<1>4. /\ i.size = 1 => LW!Element(i) = one
      /\ i.size # 1 /\ power => LW!Element(i) = shifted
      /\ i.size # 1 /\ ~power => LW!Element(i) = other
  BY <1>2, <1>3
<1> QED
  BY <1>4 DEF one, shifted, other, power

LEMMA ElementGives ==
  ASSUME NEW i, HasDst(i), NEW s \in States, i.lhs \in Sources, ~LW!IsImm(i.lhs),
         i.rhs \in Sources, ~LW!IsImm(i.rhs), i.size \in 1..LW!Halfword - 1
  PROVE  Gives(i, LW!Element(i), s,
           {LW!Word(LW!Read(s.store, i.lhs) + LW!Read(s.store, i.rhs) * i.size)})
<1> DEFINE x == LW!Read(s.store, i.lhs)
           y == LW!Read(s.store, i.rhs)
           V == {LW!Word(x + y * i.size)}
           index == LW!RegOf(i.rhs, LW!kTmpRs2)
           c == LW!Fetch(i.rhs, LW!kTmpRs2)
           e == LW!Fetch(i.lhs, LW!kTmpRs1)
<1>1. /\ LW!kTmpRs1 \in LW!Temps /\ LW!kTmpRs2 \in LW!Temps /\ LW!kTmpRs1 # LW!kTmpRs2
      /\ LW!kTmpRs1 \in Readable /\ LW!kTmpRs2 \in Readable
      /\ {LW!kTmpRs1} \in SUBSET LW!Temps /\ {LW!kTmpRs2} \in SUBSET LW!Temps
      /\ {LW!kTmpRs1} \subseteq LW!Temps \cup {i.dst} /\ {LW!kTmpRs2} \subseteq LW!Temps
           \cup {i.dst}
  BY PlaceFacts DEF Readable
<1>2. x \in LW!Words /\ y \in LW!Words /\ x \in Int /\ y \in Int /\ i.size \in Int
  BY ReadFacts, SourceFacts, WordType DEF States
<1>3. \A t \in States : \A D \in SUBSET LW!Temps : Kept(s, t, D) =>
        LW!Read(t.store, i.lhs) = x /\ LW!Read(t.store, i.rhs) = y
  BY SourceKept
<1>4. PICK p \in Readable :
        index = LW!At(p) /\ \A t \in States : LW!Read(t.store, index) = t.store[p]
  BY <1>1, ReadsReg
<1>5. p # LW!kTmpRs1
  BY <1>1, <1>4, RegOfFacts, PlaceFacts DEF LW!At
<1>6. y * i.size \in Int
  BY <1>2
<1> HIDE DEF x, y, V, index, c, e
<1>7. CASE i.size = 1
  <2>1. PICK t \in States : IsFetched(i, i.rhs, LW!kTmpRs2, s, t)
    BY <1>1, Fetched
  <2>2. Goes(i, c, s, t) /\ Kept(s, t, {LW!kTmpRs2}) /\ LW!Read(t.store, index) = y
    BY <2>1 DEF IsFetched, c, index, y
  <2>3. t.store[p] = LW!Word(y) /\ LW!Read(t.store, i.lhs) = x
    BY <1>1, <1>2, <1>3, <1>4, <2>2, WordType
  <2>4. Gives(i, e \o AddTo(i, p), t, {LW!Word(x + y)})
    BY <1>2, <1>5, <2>3, BaseAdded DEF e
  <2>5. y * i.size = y
    BY <1>2, <1>7
  <2>6. Gives(i, e \o AddTo(i, p), t, V)
    BY <2>4, <2>5 DEF V
  <2>7. Gives(i, c \o (e \o AddTo(i, p)), s, V)
    BY <1>1, <2>2, <2>6, GivesOn
  <2>8. LW!Element(i) = (c \o e) \o AddTo(i, p)
    BY <1>4, <1>7, ElementIs DEF c, e, index, AddTo
  <2> QED
    BY <2>2, <2>7, <2>8, Regrouped DEF V, x, y, e
<1>8. CASE i.size # 1 /\ i.size \in {LW!Pow2[k] : k \in 1..XLen}
  <2>1. PICK k \in 0..XLen - 1 : i.size = LW!Pow2[k]
    <3>1. PICK k \in 1..XLen : i.size = LW!Pow2[k]
      BY <1>8
    <3>2. XLen \in Nat \ {0}
      BY LoweringAssumption DEF LW!IsConfiguration
    <3>3. k # XLen
      BY <3>1, WordType
    <3> QED
      BY <3>1, <3>2, <3>3
  <2>2. k \in Int /\ k \in 0..XLen /\ k % XLen = k /\ LW!Word(k) = k /\ LW!Log2(i.size) = k
    BY <2>1, ShiftCount, LogOf
  <2>3. PICK t \in States : IsFetched(i, i.rhs, LW!kTmpRs2, s, t)
    BY <1>1, Fetched
  <2>4. Goes(i, c, s, t) /\ Kept(s, t, {LW!kTmpRs2}) /\ LW!Read(t.store, index) = y
    BY <2>3 DEF IsFetched, c, index, y
  <2>5. IsOperandOf("SLLI", LW!Imm(k)) /\ IsTarget(i, LW!kTmpRs2)
    BY <1>1, TempTarget DEF IsOperandOf, ShiftsByImm
  <2>6. PICK u \in States : YieldsOfImm(i, "SLLI", LW!kTmpRs2, p, k, t, u)
    BY <2>2, <2>5, ComputedOfImm
  <2>7. u.store[LW!kTmpRs2] = LW!Word(y * i.size)
    <3>1. u.store[LW!kTmpRs2] = LW!Alu("SLLI", y, LW!Word(k))
      BY <1>4, <2>4, <2>6 DEF YieldsOfImm
    <3>2. LW!Alu("SLLI", y, LW!Word(k)) = LW!Word(y * LW!Pow2[LW!Word(k) % XLen])
      BY AluIs
    <3>3. LW!Pow2[LW!Word(k) % XLen] = i.size
      BY <2>1, <2>2
    <3> QED
      BY <3>1, <3>2, <3>3
  <2> DEFINE m == <<LW!Ins("SLLI", LW!kTmpRs2, LW!At(p), LW!Imm(k))>>
  <2>8. Goes(i, m, t, u) /\ Kept(t, u, {LW!kTmpRs2})
    BY <2>6 DEF YieldsOfImm
  <2>9. Kept(s, u, {LW!kTmpRs2})
    BY <2>4, <2>8 DEF Kept
  <2>10. LW!Read(u.store, i.lhs) = x
    BY <1>1, <1>3, <2>9
  <2>11. LW!Element(i) = ((c \o m) \o e) \o AddTo(i, LW!kTmpRs2)
    BY <1>4, <1>8, <2>2, ElementIs DEF c, e, index, AddTo
  <2> HIDE DEF m
  <2>12. Goes(i, c \o m, s, u)
    BY <2>4, <2>8, GoesOn
  <2>13. Gives(i, e \o AddTo(i, LW!kTmpRs2), u, V)
    BY <1>1, <1>2, <1>6, <2>7, <2>10, BaseAdded DEF e, V
  <2>14. Gives(i, (c \o m) \o (e \o AddTo(i, LW!kTmpRs2)), s, V)
    BY <1>1, <2>9, <2>12, <2>13, GivesOn
  <2> QED
    BY <2>11, <2>12, <2>14, Regrouped DEF V, x, y, e
<1>9. CASE i.size # 1 /\ i.size \notin {LW!Pow2[k] : k \in 1..XLen}
  <2>1. LW!Imm(i.size) \in Operands3 /\ IsTarget(i, LW!kTmpRs1) /\ IsTarget(i, LW!kTmpRs2)
    BY <1>1, <1>2, TempTarget DEF Operands3
  <2>2. PICK t \in States : HasMoved(i, LW!kTmpRs1, LW!Imm(i.size), s, t)
    BY <2>1, MovedToReg
  <2> DEFINE l == <<LW!Mv(LW!kTmpRs1, LW!Imm(i.size))>>
             m == <<LW!Ins("MUL", LW!kTmpRs2, LW!At(p), LW!At(LW!kTmpRs1))>>
  <2>3. Goes(i, l, s, t) /\ Kept(s, t, {LW!kTmpRs1}) /\ t.store[LW!kTmpRs1] = LW!Word(i.size)
    <3>1. LW!Read(s.store, LW!Imm(i.size)) = LW!Word(i.size)
      BY ReadFacts DEF States
    <3> QED
      BY <2>2, <3>1 DEF HasMoved
  <2>4. PICK u \in States : IsFetched(i, i.rhs, LW!kTmpRs2, t, u)
    BY <1>1, Fetched
  <2>5. Goes(i, c, t, u) /\ Kept(t, u, {LW!kTmpRs2}) /\ LW!Read(u.store, index)
          = LW!Read(t.store, i.rhs)
    BY <2>4 DEF IsFetched, c, index
  <2>6. u.store[p] = y /\ u.store[LW!kTmpRs1] = LW!Word(i.size)
    <3>1. LW!Read(t.store, i.rhs) = y
      BY <1>1, <1>3, <2>3
    <3>2. u.store[LW!kTmpRs1] = t.store[LW!kTmpRs1]
      BY <1>1, <2>5 DEF Kept, Readable
    <3> QED
      BY <1>4, <2>3, <2>5, <3>1, <3>2
  <2>7. "MUL" \in OnRegs
    BY DEF OnRegs
  <2>8. PICK v \in States : YieldsOfRegs(i, "MUL", LW!kTmpRs2, p, LW!kTmpRs1, u, v)
    BY <1>1, <2>1, <2>7, ComputedOfRegs
  <2>9. Goes(i, m, u, v) /\ Kept(u, v, {LW!kTmpRs2})
        /\ v.store[LW!kTmpRs2] = LW!Alu("MUL", y, LW!Word(i.size))
    BY <2>6, <2>8 DEF YieldsOfRegs
  <2>10. v.store[LW!kTmpRs2] = LW!Word(y * i.size)
    <3>1. LW!Alu("MUL", y, LW!Word(i.size)) = LW!Word(y * LW!Word(i.size))
      BY AluIs
    <3>2. LW!Word(i.size) \in Int /\ LW!Word(LW!Word(i.size)) = LW!Word(i.size)
      BY <1>2, WordType
    <3>3. LW!Word(y * LW!Word(i.size)) = LW!Word(y * i.size)
      BY <1>2, <3>2, WordOps
    <3> QED
      BY <2>9, <3>1, <3>3
  <2>11. Kept(s, v, {LW!kTmpRs1, LW!kTmpRs2})
    BY <2>3, <2>5, <2>9 DEF Kept
  <2>12. {LW!kTmpRs1, LW!kTmpRs2} \in SUBSET LW!Temps
           /\ {LW!kTmpRs1, LW!kTmpRs2} \subseteq LW!Temps \cup {i.dst}
    BY <1>1
  <2>13. LW!Read(v.store, i.lhs) = x
    BY <1>3, <2>11, <2>12
  <2>14. LW!Element(i) = (((l \o c) \o m) \o e) \o AddTo(i, LW!kTmpRs2)
    BY <1>4, <1>9, ElementIs DEF c, e, index, AddTo
  <2> HIDE DEF l, m
  <2>15. Goes(i, l \o c, s, u)
    BY <2>3, <2>5, GoesOn
  <2>16. Goes(i, (l \o c) \o m, s, v)
    BY <2>9, <2>15, GoesOn
  <2>17. Gives(i, e \o AddTo(i, LW!kTmpRs2), v, V)
    BY <1>1, <1>2, <1>6, <2>10, <2>13, BaseAdded DEF e, V
  <2>18. Gives(i, ((l \o c) \o m) \o (e \o AddTo(i, LW!kTmpRs2)), s, V)
    BY <2>11, <2>12, <2>16, <2>17, GivesOn
  <2> QED
    BY <2>14, <2>16, <2>18, Regrouped DEF V, x, y, e
<1> QED
  BY <1>7, <1>8, <1>9

LEMMA FieldIs ==
  ASSUME NEW i
  PROVE  LET d == LW!DstReg(i)
             base == LW!RegOf(i.lhs, LW!kTmpRs1)
             tmp == IF base = LW!At(d) THEN LW!kTmpRs2 ELSE d
             c == LW!Fetch(i.lhs, LW!kTmpRs1)
         IN /\ LW!Fits(i.size) /\ i.size = 0 /\ base = LW!At(d) => LW!FieldAddress(i) = c \o <<>>
            /\ LW!Fits(i.size) /\ ~(i.size = 0 /\ base = LW!At(d)) =>
                 LW!FieldAddress(i) = c \o <<LW!Ins("ADDI", d, base, LW!Imm(i.size))>>
            /\ ~LW!Fits(i.size) =>
                 LW!FieldAddress(i) = c
                   \o <<LW!Mv(tmp, LW!Imm(i.size)), LW!Ins("ADD", d, base, LW!At(tmp))>>
BY DEF LW!FieldAddress

LEMMA FieldGives ==
  ASSUME NEW i, HasDst(i), NEW s \in States, i.lhs \in Sources, ~LW!IsImm(i.lhs), i.size \in Int
  PROVE  Gives(i, LW!FieldAddress(i), s, {LW!Word(LW!Read(s.store, i.lhs) + i.size)})
<1> DEFINE x == LW!Read(s.store, i.lhs)
           V == {LW!Word(x + i.size)}
           d == LW!DstReg(i)
           base == LW!RegOf(i.lhs, LW!kTmpRs1)
           tmp == IF base = LW!At(d) THEN LW!kTmpRs2 ELSE d
           c == LW!Fetch(i.lhs, LW!kTmpRs1)
<1>1. /\ LW!kTmpRs1 \in LW!Temps /\ LW!kTmpRs2 \in LW!Temps /\ LW!kTmpRs2 \in Readable
      /\ {LW!kTmpRs1} \subseteq LW!Temps \cup {i.dst} /\ IsTarget(i, LW!kTmpRs2)
  BY PlaceFacts, TempTarget DEF Readable
<1>2. x \in LW!Words /\ x \in Int
  BY ReadFacts, SourceFacts, WordType DEF States
<1>3. PICK t \in States : IsFetched(i, i.lhs, LW!kTmpRs1, s, t)
  BY <1>1, Fetched
<1>4. Goes(i, c, s, t) /\ Kept(s, t, {LW!kTmpRs1}) /\ LW!Read(t.store, base) = x
  BY <1>3 DEF IsFetched
<1>5. PICK p \in Readable : base = LW!At(p) /\ LW!Read(t.store, base) = t.store[p]
  BY <1>1, ReadsReg
<1>6. t.store[p] = x
  BY <1>4, <1>5
<1>7. IsTarget(i, d) /\ d \in Readable /\ d # LW!kTmpRs2
  BY DstFacts, PlaceFacts DEF HasDst, LW!DstReg
<1>8. base = LW!At(d) <=> p = d
  BY <1>5 DEF LW!At
<1> HIDE DEF x, V, d, base, c
<1>9. CASE LW!Fits(i.size) /\ i.size = 0 /\ base = LW!At(d)
  <2>1. t.store[d] \in V
    BY <1>2, <1>6, <1>8, <1>9, WordType DEF V
  <2>2. Gives(i, <<>>, t, V)
    BY <2>1, GivesNothing DEF d
  <2>3. LW!FieldAddress(i) = c \o <<>>
    BY <1>9, FieldIs DEF c, d, base
  <2>4. Gives(i, c \o <<>>, s, V)
    BY <1>1, <1>4, <2>2, GivesOn
  <2> QED
    BY <2>3, <2>4 DEF V, x
<1>10. CASE LW!Fits(i.size) /\ ~(i.size = 0 /\ base = LW!At(d))
  <2>1. IsOperandOf("ADDI", LW!Imm(i.size))
    BY <1>10 DEF IsOperandOf, OnImms
  <2>2. LW!Alu("ADDI", t.store[p], LW!Word(i.size)) \in V
    <3>1. LW!Alu("ADDI", x, LW!Word(i.size)) = LW!Word(x + LW!Word(i.size))
      BY AluIs
    <3> QED
      BY <1>2, <1>6, <3>1, WordOfSum DEF V
  <2>3. Gives(i, <<LW!Ins("ADDI", d, LW!At(p), LW!Imm(i.size))>>, t, V)
    BY <2>1, <2>2, GivesComputedOfImm DEF d
  <2> DEFINE e == <<LW!Ins("ADDI", d, LW!At(p), LW!Imm(i.size))>>
  <2>4. LW!FieldAddress(i) = c \o e
    BY <1>5, <1>10, FieldIs DEF c, d, base
  <2> HIDE DEF e
  <2>5. Gives(i, c \o e, s, V)
    BY <1>1, <1>4, <2>3, GivesOn DEF e
  <2> QED
    BY <2>4, <2>5 DEF V, x
<1>11. CASE ~LW!Fits(i.size)
  <2>1. tmp \in Readable /\ IsTarget(i, tmp) /\ tmp # p
    BY <1>1, <1>7, <1>8
  <2>2. LW!Imm(i.size) \in Operands3
    BY DEF Operands3
  <2> HIDE DEF tmp
  <2>3. PICK u \in States : HasMoved(i, tmp, LW!Imm(i.size), t, u)
    BY <2>1, <2>2, MovedToReg
  <2> DEFINE l == <<LW!Mv(tmp, LW!Imm(i.size))>>
             m == <<LW!Ins("ADD", d, LW!At(p), LW!At(tmp))>>
  <2>4. Goes(i, l, t, u) /\ Kept(t, u, {tmp}) /\ u.store[tmp] = LW!Word(i.size)
    <3>1. LW!Read(t.store, LW!Imm(i.size)) = LW!Word(i.size)
      BY ReadFacts DEF States
    <3> QED
      BY <2>3, <3>1 DEF HasMoved
  <2>5. u.store[p] = x
    BY <1>6, <2>1, <2>4 DEF Kept, Readable
  <2>6. LW!Alu("ADD", u.store[p], u.store[tmp]) \in V
    <3>1. LW!Alu("ADD", x, LW!Word(i.size)) = LW!Word(x + LW!Word(i.size))
      BY AluIs
    <3> QED
      BY <1>2, <2>4, <2>5, <3>1, WordOfSum DEF V
  <2>7. "ADD" \in OnRegs
    BY DEF OnRegs
  <2>8. Gives(i, m, u, V)
    BY <2>1, <2>6, <2>7, GivesComputed DEF d
  <2>9. l \o m = <<LW!Mv(tmp, LW!Imm(i.size)), LW!Ins("ADD", d, LW!At(p), LW!At(tmp))>>
    BY InARow
  <2>10. LW!FieldAddress(i) = c \o (l \o m)
    <3>1. LW!FieldAddress(i) = c
            \o <<LW!Mv(tmp, LW!Imm(i.size)), LW!Ins("ADD", d, base, LW!At(tmp))>>
      BY <1>11, FieldIs DEF c, d, base, tmp
    <3> QED
      BY <1>5, <2>9, <3>1
  <2> HIDE DEF l, m
  <2>11. {tmp} \subseteq LW!Temps \cup {i.dst}
    BY <2>1, TargetFacts
  <2>12. Gives(i, l \o m, t, V)
    BY <2>4, <2>8, <2>11, GivesOn
  <2>13. Gives(i, c \o (l \o m), s, V)
    BY <1>1, <1>4, <2>12, GivesOn
  <2> QED
    BY <2>10, <2>13 DEF V, x
<1> QED
  BY <1>9, <1>10, <1>11

-----------------------------------------------------------------------------
(* Every instruction; generate_store                                       *)

\* The instructions that are lowered exactly.
Lowerable(i) ==
  \/ /\ i.kind = "binary" /\ HasDst(i) /\ i.lhs \in Sources /\ i.rhs \in Sources
     /\ i.op \in LW!BinaryOps /\ LW!Allowed(i.op, i.lhs, i.rhs)
  \/ /\ i.kind = "load" /\ HasDst(i) /\ i.lhs \in Sources /\ ~LW!IsImm(i.lhs)
     /\ i.size \in 1..XLen /\ ~i.unsigned
  \/ /\ i.kind = "store" /\ i.dst = LW!Nowhere /\ i.lhs \in Sources /\ i.rhs \in Sources
     /\ ~LW!IsImm(i.rhs) /\ i.size \in 1..XLen
  \/ i.kind = "cast" /\ HasDst(i) /\ i.lhs \in Sources
  \/ /\ i.kind = "element" /\ HasDst(i) /\ i.lhs \in Sources /\ ~LW!IsImm(i.lhs)
     /\ i.rhs \in Sources /\ ~LW!IsImm(i.rhs) /\ i.size \in 1..LW!Halfword - 1
  \/ i.kind = "field" /\ HasDst(i) /\ i.lhs \in Sources /\ ~LW!IsImm(i.lhs) /\ i.size \in Int

\* t is what i makes of s.
Results(i, s) ==
  LET x == LW!Read(s.store, i.lhs)
      y == LW!Read(s.store, i.rhs)
  IN CASE i.kind = "binary" -> LW!Meaning(i.op, x, y)
       [] i.kind = "load" -> {LW!Word(LW!Extended(i.size, s.mem[x]))}
       [] i.kind = "cast" -> {x}
       [] i.kind = "element" -> {LW!Word(x + y * i.size)}
       [] i.kind = "field" -> {LW!Word(x + i.size)}
Exact(i, s, t) ==
  /\ i.kind # "store" => t.store[i.dst] \in Results(i, s) /\ t.mem = s.mem
  /\ i.kind = "store" =>
       LET y == LW!Read(s.store, i.rhs)
       IN t.mem = [s.mem EXCEPT ![y] = LW!Low(i.size, s.mem[y], LW!Read(s.store, i.lhs))]

\* Only the last instruction may be a store, and only that of a store.
Legal(i, c) ==
  /\ c \in Seq(Instrs)
  /\ \A k \in 1..Len(c) :
       /\ LW!Encodable(c[k])
       /\ c[k].op # "STORE" => c[k].rd \in LW!Temps \cup {i.dst}
       /\ c[k].op = "STORE" => i.kind = "store" /\ k = Len(c)

LEMMA PlainIsLegal ==
  ASSUME NEW i, NEW c \in Seq(Plain(i))
  PROVE  Legal(i, c)
<1>1. c \in Seq(Instrs)
  <2>1. Plain(i) \subseteq Instrs
    BY DEF Plain
  <2> QED
    BY <2>1
<1>2. \A k \in 1..Len(c) : c[k] \in Plain(i)
  OBVIOUS
<1> QED
  BY <1>1, <1>2 DEF Legal, Plain

LEMMA StoreLowered ==
  ASSUME NEW i, NEW s \in States, i.kind = "store", i.dst = LW!Nowhere, i.lhs \in Sources,
         i.rhs \in Sources, ~LW!IsImm(i.rhs), i.size \in 1..XLen
  PROVE  /\ Legal(i, LW!StoreWord(i))
         /\ \E t \in States : Leads(LW!StoreWord(i), s, t) /\ Exact(i, s, t)
<1> DEFINE l == LW!RegOf(i.lhs, LW!kTmpRs1)
           r == LW!RegOf(i.rhs, LW!kTmpRs2)
           c == Both(i.lhs, i.rhs)
           m == LW!Ins("STORE", i.size, l, r)
           x == LW!Read(s.store, i.lhs)
           y == LW!Read(s.store, i.rhs)
<1>1. LW!StoreWord(i) = c \o <<m>>
  <2> DEFINE e == LW!Fetch(i.lhs, LW!kTmpRs1) \o LW!Fetch(i.rhs, LW!kTmpRs2)
    \o LW!LoadImm(i.lhs, LW!kTmpRs1)
             p1 == LW!Mv(LW!kTmpRs1, i.lhs)
             p2 == LW!Mv(LW!kTmpRs2, i.rhs)
             S == {p1, p2}
  <2>1. LW!LoadImm(i.rhs, LW!kTmpRs2) = <<>>
    BY DEF LW!LoadImm
  <2>2. e \in Seq(S)
    <3>1. p1 \in S /\ p2 \in S
      OBVIOUS
    <3>2. /\ LW!Fetch(i.lhs, LW!kTmpRs1) \in {<<>>, <<p1>>}
               /\ LW!Fetch(i.rhs, LW!kTmpRs2) \in {<<>>, <<p2>>}
          /\ LW!LoadImm(i.lhs, LW!kTmpRs1) \in {<<>>, <<p1>>}
      BY DEF LW!Fetch, LW!LoadImm
    <3> HIDE DEF S, p1, p2
    <3>3. <<>> \in Seq(S) /\ <<p1>> \in Seq(S) /\ <<p2>> \in Seq(S)
      BY <3>1
    <3>4. /\ LW!Fetch(i.lhs, LW!kTmpRs1) \in Seq(S) /\ LW!Fetch(i.rhs, LW!kTmpRs2) \in Seq(S)
          /\ LW!LoadImm(i.lhs, LW!kTmpRs1) \in Seq(S)
      BY <3>2, <3>3
    <3> QED
      BY <3>4
  <2>3. LW!StoreWord(i) = e \o <<m>> /\ c = e \o LW!LoadImm(i.rhs, LW!kTmpRs2)
    BY DEF LW!StoreWord, Both
  <2> HIDE DEF e, c, m, S
  <2>4. e \o <<>> = e
    BY <2>2
  <2> QED
    BY <2>1, <2>3, <2>4
<1>2. LW!kTmpRs1 \in LW!Temps /\ LW!kTmpRs2 \in LW!Temps
  BY PlaceFacts
<1>3. PICK t \in States : AreReady(i, i.lhs, i.rhs, s, t)
  BY BothReady
<1>4. /\ c \in Seq(Plain(i)) /\ Leads(c, s, t) /\ t.mem = s.mem
      /\ LW!Read(t.store, l) = x /\ LW!Read(t.store, r) = y
  BY <1>3 DEF AreReady, Goes, Kept
<1>5. PICK p \in Readable : l = LW!At(p)
  BY <1>2, ReadsReg
<1>6. PICK q \in Readable : r = LW!At(q)
  BY <1>2, ReadsReg
<1>7. m.op = "STORE" /\ m.rd = i.size /\ m.a = LW!At(p) /\ m.b = LW!At(q)
  BY <1>5, <1>6 DEF LW!Ins
<1>8. LW!At(p) \in Operands3 /\ LW!At(q) \in Operands3
  BY DEF Operands3, Readable
<1>9. IsIns(m)
  BY <1>7, <1>8 DEF IsIns
<1>10. m \in Instrs
  BY <1>5, <1>6, <1>7, <1>8, <1>9 DEF Instrs, LW!Ins
<1>11. LW!Encodable(m)
  <2>1. LW!At(p)[1] = "at" /\ LW!At(p)[2] \notin Slots /\ LW!At(q)[1] = "at"
          /\ LW!At(q)[2] \notin Slots
    BY DEF LW!At, Readable
  <2> HIDE DEF m
  <2> QED
    BY <1>7, <2>1 DEF LW!Encodable
<1>12. Effect(t, m) = [store |-> t.store, mem |-> [s.mem EXCEPT ![y] = LW!Low(i.size, s.mem[y], x)]]
  BY <1>4, <1>5, <1>6, <1>7 DEF Effect, Overwritten
<1> HIDE DEF m, c, l, r, x, y
<1>13. Leads(<<m>>, t, Effect(t, m)) /\ Effect(t, m) \in States
  BY <1>10, LeadsOne
<1>14. Legal(i, c)
  BY <1>4, PlainIsLegal
<1>15. c \in Seq(Instrs) /\ <<m>> \in Seq(Instrs)
  BY <1>10, <1>14 DEF Legal
<1>16. Leads(c \o <<m>>, s, Effect(t, m))
  BY <1>4, <1>13, <1>15, LeadsOn
<1>17. Exact(i, s, Effect(t, m))
  BY <1>12 DEF Exact, x, y
<1>18. Legal(i, c \o <<m>>)
  <2> DEFINE e == c \o <<m>>
  <2>1. /\ e \in Seq(Instrs) /\ Len(e) = Len(c) + 1 /\ e[Len(e)] = m /\ Len(c) \in Nat
        /\ \A k \in 1..Len(c) : e[k] = c[k]
    BY <1>15
  <2> HIDE DEF e
  <2>2. \A k \in 1..Len(c) : c[k].op # "STORE"
    BY <1>4 DEF Plain
  <2>3. ASSUME NEW k \in 1..Len(e)
        PROVE  /\ LW!Encodable(e[k])
               /\ e[k].op # "STORE" => e[k].rd \in LW!Temps \cup {i.dst}
               /\ e[k].op = "STORE" => i.kind = "store" /\ k = Len(e)
    <3>1. CASE k = Len(e)
      BY <1>7, <1>11, <2>1, <3>1
    <3>2. CASE k # Len(e)
      <4>1. k \in 1..Len(c) /\ e[k] = c[k]
        BY <2>1, <3>2
      <4> QED
        BY <1>14, <2>2, <4>1 DEF Legal
    <3> QED
      BY <3>1, <3>2
  <2>4. Legal(i, e)
    BY <2>1, <2>3 DEF Legal
  <2> QED
    BY <2>4 DEF e
<1> QED
  BY <1>1, <1>13, <1>16, <1>17, <1>18

LEMMA Finished ==
  ASSUME NEW i, HasDst(i), i.kind # "store", NEW s \in States, NEW c,
         Gives(i, c, s, Results(i, s))
  PROVE  /\ Legal(i, c \o LW!Flush(i))
         /\ \E t \in States : Leads(c \o LW!Flush(i), s, t) /\ Exact(i, s, t)
<1>1. PICK t \in States : /\ Goes(i, c, s, t) /\ Kept(s, t, LW!Temps \cup {i.dst})
                          /\ t.store[LW!DstReg(i)] \in Results(i, s)
  BY DEF Gives
<1>2. PICK u \in States :
        /\ Goes(i, c \o LW!Flush(i), s, u) /\ Kept(s, u, LW!Temps \cup {i.dst})
        /\ u.store[i.dst] = t.store[LW!DstReg(i)]
  BY <1>1, Delivered
<1>3. Exact(i, s, u)
  BY <1>1, <1>2 DEF Exact, Kept
<1>4. c \o LW!Flush(i) \in Seq(Plain(i)) /\ Leads(c \o LW!Flush(i), s, u)
  BY <1>2 DEF Goes
<1> QED
  BY <1>3, <1>4, PlainIsLegal

LEMMA Lowered ==
  ASSUME NEW i, Lowerable(i), NEW s \in States, s.store[LW!zero] = 0, ~ShiftOfImm
  PROVE  /\ Legal(i, LW!Lower(i))
         /\ \E t \in States : Leads(LW!Lower(i), s, t) /\ Exact(i, s, t)
<1> DEFINE x == LW!Read(s.store, i.lhs)
           y == LW!Read(s.store, i.rhs)
<1>1. CASE /\ i.kind = "binary" /\ HasDst(i) /\ i.lhs \in Sources /\ i.rhs \in Sources
           /\ i.op \in LW!BinaryOps /\ LW!Allowed(i.op, i.lhs, i.rhs)
  <2>1. LW!Lower(i) = LW!Binary(i) \o LW!Flush(i) /\ Results(i, s) = LW!Meaning(i.op, x, y)
    BY <1>1 DEF LW!Lower, Results
  <2>2. Gives(i, LW!Binary(i), s, Results(i, s))
    BY <1>1, <2>1, BinaryGives
  <2> QED
    BY <1>1, <2>1, <2>2, Finished
<1>2. CASE /\ i.kind = "load" /\ HasDst(i) /\ i.lhs \in Sources /\ ~LW!IsImm(i.lhs)
           /\ i.size \in 1..XLen /\ ~i.unsigned
  <2>1. /\ LW!Lower(i) = LW!LoadWord(i) \o LW!Flush(i)
        /\ Results(i, s) = {LW!Word(LW!Extended(i.size, s.mem[x]))}
    BY <1>2 DEF LW!Lower, Results
  <2>2. Gives(i, LW!LoadWord(i), s, Results(i, s))
    BY <1>2, <2>1, LoadGives
  <2> QED
    BY <1>2, <2>1, <2>2, Finished
<1>3. CASE /\ i.kind = "store" /\ i.dst = LW!Nowhere /\ i.lhs \in Sources /\ i.rhs \in Sources
           /\ ~LW!IsImm(i.rhs) /\ i.size \in 1..XLen
  <2>1. LW!Lower(i) = LW!StoreWord(i)
    BY <1>3 DEF LW!Lower
  <2> QED
    BY <1>3, <2>1, StoreLowered
<1>4. CASE i.kind = "cast" /\ HasDst(i) /\ i.lhs \in Sources
  <2>1. LW!Lower(i) = LW!Cast(i) \o LW!Flush(i) /\ Results(i, s) = {x}
    BY <1>4 DEF LW!Lower, Results
  <2>2. Gives(i, LW!Cast(i), s, Results(i, s))
    BY <1>4, <2>1, CastGives
  <2> QED
    BY <1>4, <2>1, <2>2, Finished
<1>5. CASE /\ i.kind = "element" /\ HasDst(i) /\ i.lhs \in Sources /\ ~LW!IsImm(i.lhs)
           /\ i.rhs \in Sources /\ ~LW!IsImm(i.rhs) /\ i.size \in 1..LW!Halfword - 1
  <2>1. LW!Lower(i) = LW!Element(i) \o LW!Flush(i) /\ Results(i, s) = {LW!Word(x + y * i.size)}
    BY <1>5 DEF LW!Lower, Results
  <2>2. Gives(i, LW!Element(i), s, Results(i, s))
    BY <1>5, <2>1, ElementGives
  <2> QED
    BY <1>5, <2>1, <2>2, Finished
<1>6. CASE /\ i.kind = "field" /\ HasDst(i) /\ i.lhs \in Sources /\ ~LW!IsImm(i.lhs)
           /\ i.size \in Int
  <2>1. LW!Lower(i) = LW!FieldAddress(i) \o LW!Flush(i) /\ Results(i, s) = {LW!Word(x + i.size)}
    BY <1>6 DEF LW!Lower, Results
  <2>2. Gives(i, LW!FieldAddress(i), s, Results(i, s))
    BY <1>6, <2>1, FieldGives
  <2> QED
    BY <1>6, <2>1, <2>2, Finished
<1> QED
  BY <1>1, <1>2, <1>3, <1>4, <1>5, <1>6 DEF Lowerable

-----------------------------------------------------------------------------
(* The invariant: what remains to be run leads to the right state          *)

\* Midway: c remains to be run from s, b being the machine before i.
Running(i, b, c, s) ==
  /\ Legal(i, c) /\ s \in States
  /\ c # <<>> => s.mem = b.mem
  /\ \A p \in LW!Places \ (LW!Temps \cup {i.dst}) : s.store[p] = b.store[p]
  /\ \E t \in States : Leads(c, s, t) /\ Exact(i, b, t)
\* A cast is of an integer that has the same word in both types.
Unaltered(i, b) ==
  i.kind = "cast" =>
    LET x == LW!Read(b.store, i.lhs)
    IN x = LW!Word(LW!IntOf(LW!Type(i.size, i.unsigned), LW!IntOf(i.from, x)))
LoweringInv ==
  /\ Lowerable(ir) /\ before \in States /\ before.store[LW!zero] = 0 /\ Unaltered(ir, before)
  /\ Running(ir, before, code, [store |-> store, mem |-> cells])

LEMMA TailIsLegal ==
  ASSUME NEW i, NEW c, Legal(i, c), c # <<>>
  PROVE  /\ Legal(i, Tail(c))
         /\ Head(c) \in Instrs
         /\ Head(c).op # "STORE" => Head(c).rd \in LW!Temps \cup {i.dst}
         /\ Head(c).op = "STORE" => Tail(c) = <<>>
<1>1. c \in Seq(Instrs) /\ Len(c) \in Nat /\ Len(c) >= 1 /\ 1 \in 1..Len(c)
  BY DEF Legal
<1>2. /\ Tail(c) \in Seq(Instrs) /\ Len(Tail(c)) = Len(c) - 1 /\ Head(c) = c[1]
      /\ Len(c) = 1 => Len(Tail(c)) = 0
      /\ \A k \in 1..Len(c) - 1 : Tail(c)[k] = c[k + 1]
  BY <1>1
<1>3. Len(c) = 1 => Tail(c) = <<>>
  BY <1>1, <1>2, EmptySeq, Zenon
<1> DEFINE d == Tail(c)
           h == Head(c)
<1> HIDE DEF d, h
<1>4. ASSUME NEW k \in 1..Len(d)
      PROVE  /\ LW!Encodable(d[k])
             /\ d[k].op # "STORE" => d[k].rd \in LW!Temps \cup {i.dst}
             /\ d[k].op = "STORE" => i.kind = "store" /\ k = Len(d)
  <2>1. k + 1 \in 1..Len(c) /\ d[k] = c[k + 1]
    BY <1>1, <1>2 DEF d
  <2>2. k + 1 = Len(c) => k = Len(d)
    <3>1. Len(d) = Len(c) - 1 /\ k \in Nat
      BY <1>2 DEF d
    <3> QED
      BY <1>1, <3>1
  <2> QED
    BY <2>1, <2>2 DEF Legal
<1>5. Legal(i, d)
  BY <1>2, <1>4 DEF Legal, d
<1>6. /\ c[1] \in Instrs
      /\ c[1].op # "STORE" => c[1].rd \in LW!Temps \cup {i.dst}
      /\ c[1].op = "STORE" => Len(c) = 1
  <2>1. c[1].op = "STORE" => 1 = Len(c)
    BY <1>1 DEF Legal
  <2> QED
    BY <1>1, <2>1 DEF Legal
<1> QED
  BY <1>2, <1>3, <1>5, <1>6 DEF d, h

LEMMA RunsOn ==
  ASSUME NEW i, NEW b, NEW c, NEW s, Running(i, b, c, s), c # <<>>
  PROVE  Running(i, b, Tail(c), Effect(s, Head(c)))
<1> DEFINE m == Head(c)
           d == Tail(c)
           u == Effect(s, m)
<1>1. /\ Legal(i, d) /\ m \in Instrs
      /\ m.op # "STORE" => m.rd \in LW!Temps \cup {i.dst}
      /\ m.op = "STORE" => d = <<>>
  BY TailIsLegal DEF Running
<1>2. c \in Seq(Instrs) /\ s \in States
  BY DEF Running, Legal
<1>3. u \in States
  BY <1>1, <1>2, LeadsOne
<1>4. PICK t \in States : Leads(c, s, t) /\ Exact(i, b, t)
  BY DEF Running
<1>5. Leads(d, u, t)
  BY <1>2, <1>4, LeadsAway
<1>6. d # <<>> => u.mem = b.mem
  <2> SUFFICES ASSUME d # <<>> PROVE u.mem = b.mem
    OBVIOUS
  <2>1. s.mem = b.mem
    BY DEF Running
  <2>2. u = Put(s, m.rd, Yield(s, m))
    BY <1>1 DEF Effect
  <2> QED
    BY <2>1, <2>2 DEF Put
<1>7. ASSUME NEW p \in LW!Places \ (LW!Temps \cup {i.dst}) PROVE u.store[p] = b.store[p]
  <2>1. s.store[p] = b.store[p]
    BY DEF Running
  <2>2. CASE m.op = "STORE"
    <3>1. u = Overwritten(s, m)
      BY <2>2 DEF Effect
    <3> QED
      BY <2>1, <3>1 DEF Overwritten
  <2>3. CASE m.op # "STORE"
    <3>1. u = Put(s, m.rd, Yield(s, m)) /\ m.rd # p
      BY <1>1, <2>3 DEF Effect
    <3>2. s.store \in [LW!Places -> LW!Words]
      BY <1>2 DEF States
    <3> QED
      BY <2>1, <3>1, <3>2 DEF Put
  <2> QED
    BY <2>2, <2>3
<1> HIDE DEF m, d, u
<1>8. Running(i, b, d, u)
  BY <1>1, <1>3, <1>4, <1>5, <1>6, <1>7 DEF Running
<1> QED
  BY <1>8 DEF m, d, u

LEMMA Started ==
  ASSUME NEW i, Lowerable(i), NEW st, NEW m, [store |-> st, mem |-> m] \in States,
         st[LW!zero] = 0, ~ShiftOfImm, Unaltered(i, [store |-> st, mem |-> m]), LW!Start(i, st, m)
  PROVE  LoweringInv
<1> DEFINE s == [store |-> st, mem |-> m]
<1>1. ir = i /\ before = s /\ code = LW!Lower(i) /\ [store |-> store, mem |-> cells] = s
  BY DEF LW!Start
<1>2. s \in States /\ s.store[LW!zero] = 0 /\ Unaltered(i, s)
  OBVIOUS
<1> HIDE DEF s
<1>3. /\ Legal(i, LW!Lower(i))
      /\ \E t \in States : Leads(LW!Lower(i), s, t) /\ Exact(i, s, t)
  BY <1>2, Lowered
<1>4. Running(i, s, LW!Lower(i), s)
  BY <1>2, <1>3 DEF Running
<1> QED
  BY <1>1, <1>2, <1>4 DEF LoweringInv

LEMMA InputsLowerable ==
  ASSUME NEW i \in LW!Instructions, ~Unsigned
  PROVE  Lowerable(i)
<1>1. /\ LW!Locals \subseteq Sources /\ LW!Pointers \subseteq Sources
           /\ LW!Immediates \subseteq Sources
      /\ \A o \in LW!Pointers : ~LW!IsImm(o)
      /\ \A o \in LW!Locals : ~LW!IsImm(o)
  <2>1. Imms \subseteq Int
    <3>1. -LW!Halfword..LW!Halfword - 1 \subseteq Int
      OBVIOUS
    <3> QED
      BY <3>1, LoweringAssumption DEF LW!IsConfiguration
  <2>2. LW!Stack[1] # "imm" /\ \A p : LW!At(p)[1] # "imm"
    BY DEF LW!Stack, LW!At
  <2> QED
    BY <2>1, <2>2 DEF Sources, LW!Pointers, LW!Immediates, LW!IsImm, LW!Locals
<1>2. /\ Widths \subseteq 1..XLen /\ Operators \subseteq LW!BinaryOps
      /\ Strides \subseteq 1..LW!Halfword - 1 /\ Strides \subseteq Int
  <2>1. 1..LW!Halfword - 1 \subseteq Int
    OBVIOUS
  <2> QED
    BY <2>1, LoweringAssumption DEF LW!IsConfiguration
<1>3. i.dst \in LW!Dsts => HasDst(i)
  BY DEF HasDst, LW!Dsts
<1>4. CASE i \in LW!Binaries /\ LW!Allowed(i.op, i.lhs, i.rhs)
  <2>1. /\ i.kind = "binary" /\ i.op \in Operators /\ i.dst \in LW!Dsts
        /\ i.lhs \in LW!Locals \cup LW!Immediates /\ i.rhs \in LW!Locals \cup LW!Immediates
    BY <1>4 DEF LW!Binaries, LW!IRs
  <2> QED
    BY <1>1, <1>2, <1>3, <1>4, <2>1 DEF Lowerable
<1>5. CASE i \in LW!IRs("load", {""}, LW!Pointers, {LW!Imm(0)}, LW!Dsts, Widths, {FALSE, Unsigned}, {LW!NoType})
  <2>1. /\ i.kind = "load" /\ i.lhs \in LW!Pointers /\ i.dst \in LW!Dsts /\ i.size \in Widths
        /\ i.unsigned \in {FALSE, Unsigned}
    BY <1>5 DEF LW!IRs
  <2>2. ~i.unsigned
    BY <2>1
  <2> QED
    BY <1>1, <1>2, <1>3, <2>1, <2>2 DEF Lowerable
<1>6. CASE i \in LW!IRs("store", {""}, LW!Pointers \cup LW!Immediates, LW!Pointers,
             {LW!Nowhere}, Widths, {FALSE}, {LW!NoType})
  <2>1. /\ i.kind = "store" /\ i.lhs \in LW!Pointers \cup LW!Immediates /\ i.rhs \in LW!Pointers
        /\ i.dst = LW!Nowhere /\ i.size \in Widths
    BY <1>6 DEF LW!IRs
  <2> QED
    BY <1>1, <1>2, <2>1 DEF Lowerable
<1>7. CASE i \in LW!Casts
  <2>1. i.kind = "cast" /\ i.lhs \in LW!Locals \cup LW!Immediates /\ i.dst \in LW!Dsts
    BY <1>7 DEF LW!Casts, LW!IRs
  <2> QED
    BY <1>1, <1>3, <2>1 DEF Lowerable
<1>8. CASE i \in LW!IRs("element", {""}, LW!Pointers, LW!Locals, LW!Dsts, Strides, {FALSE}, {LW!NoType})
  <2>1. /\ i.kind = "element" /\ i.lhs \in LW!Pointers /\ i.rhs \in LW!Locals /\ i.dst \in LW!Dsts
        /\ i.size \in Strides
    BY <1>8 DEF LW!IRs
  <2> QED
    BY <1>1, <1>2, <1>3, <2>1 DEF Lowerable
<1>9. CASE i \in LW!IRs("field", {""}, LW!Pointers, {LW!Imm(0)}, LW!Dsts, {0} \cup Strides, {FALSE}, {LW!NoType})
  <2>1. i.kind = "field" /\ i.lhs \in LW!Pointers /\ i.dst \in LW!Dsts /\ i.size \in {0}
          \cup Strides
    BY <1>9 DEF LW!IRs
  <2>2. i.size \in Int
    <3>1. 0 \in Int
      OBVIOUS
    <3> QED
      BY <1>2, <2>1, <3>1
  <2> QED
    BY <1>1, <1>3, <2>1, <2>2 DEF Lowerable
<1> QED
  BY <1>4, <1>5, <1>6, <1>7, <1>8, <1>9 DEF LW!Instructions

LEMMA InputsAreStates ==
  ASSUME NEW i \in LW!Instructions, NEW st \in LW!Contents(i), NEW m \in LW!Memories(i, st)
  PROVE  [store |-> st, mem |-> m] \in States /\ st[LW!zero] = 0
<1>1. Values \subseteq LW!Words /\ LW!Junk \in LW!Words /\ 0 \in LW!Words
  <2>1. 0 \in LW!Words
    BY WordType DEF LW!Words
  <2> QED
    BY <2>1, LoweringAssumption DEF LW!IsConfiguration
<1>2. PICK f \in [LW!Operands(i) -> LW!Contained(i)] :
        st = [p \in LW!Places |-> IF p \in LW!Operands(i) THEN f[p] ELSE IF p = LW!zero THEN 0
          ELSE LW!Junk]
  BY DEF LW!Contents
<1>3. LW!zero \in LW!Places /\ LW!zero \notin LW!Operands(i)
  BY PlaceFacts DEF LW!Operands
<1>4. st \in [LW!Places -> LW!Words] /\ st[LW!zero] = 0
  <2>1. LW!Contained(i) \subseteq LW!Words
    BY <1>1 DEF LW!Contained
  <2> QED
    BY <1>1, <1>2, <1>3, <2>1
<1>5. m \in [LW!Words -> LW!Words]
  <2>1. CASE i.kind # "load"
    BY <1>1, <2>1 DEF LW!Memories
  <2>2. CASE i.kind = "load"
    BY <1>1, <2>2 DEF LW!Memories
  <2> QED
    BY <2>1, <2>2
<1> QED
  BY <1>4, <1>5 DEF States

LEMMA InputsUnaltered ==
  ASSUME NEW i \in LW!Instructions, NEW st \in LW!Contents(i), NEW m, ~Narrowing,
         st \in [LW!Places -> LW!Words]
  PROVE  Unaltered(i, [store |-> st, mem |-> m])
<1> DEFINE x == LW!Read(st, i.lhs)
           to == LW!Type(i.size, i.unsigned)
<1> SUFFICES ASSUME i.kind = "cast" PROVE x = LW!Word(LW!IntOf(to, LW!IntOf(i.from, x)))
  BY DEF Unaltered
<1>1. i \in LW!Casts
  BY DEF LW!Instructions, LW!Binaries, LW!IRs
<1>2. /\ i.lhs \in LW!Locals \cup LW!Immediates /\ i.size \in Widths /\ i.unsigned \in BOOLEAN
      /\ i.from \in LW!IntTypes /\ i.rhs = LW!Imm(0)
  BY <1>1 DEF LW!Casts, LW!IRs
<1>3. LW!Keeps(i.from, to) /\ (LW!IsImm(i.lhs) => LW!Holds(i.from, LW!Word(i.lhs[2])))
  BY <1>1 DEF LW!Casts
<1>4. to.bits \in 1..XLen /\ to.unsigned \in BOOLEAN
  BY <1>2, LoweringAssumption DEF LW!Type, LW!IsConfiguration
<1>5. i.from.bits \in 1..XLen /\ i.from.unsigned \in BOOLEAN
  <2>1. 1 \in 1..XLen
    BY LoweringAssumption DEF LW!IsConfiguration
  <2>2. Widths \subseteq 1..XLen
    BY LoweringAssumption DEF LW!IsConfiguration
  <2>3. CASE i.from = LW!Type(1, TRUE)
    BY <2>1, <2>3 DEF LW!Type
  <2>4. CASE i.from \in [bits : Widths, unsigned : BOOLEAN]
    <3>1. i.from.bits \in Widths /\ i.from.unsigned \in BOOLEAN
      BY <2>4
    <3> QED
      BY <2>2, <3>1
  <2> QED
    BY <1>2, <2>3, <2>4 DEF LW!IntTypes
<1>6. x \in LW!Words /\ LW!Holds(i.from, x)
  <2>1. CASE i.lhs \in LW!Locals
    <3>1. PICK p \in InsRegs \cup Slots : i.lhs = LW!At(p)
      BY <2>1 DEF LW!Locals
    <3>2. x = st[p] /\ p \in LW!Operands(i) /\ p \in LW!Places
      BY <3>1, ReadFacts DEF LW!Operands, LW!Places
    <3>3. PICK f \in [LW!Operands(i) -> LW!Contained(i)] :
            st = [q \in LW!Places |-> IF q \in LW!Operands(i) THEN f[q] ELSE IF q = LW!zero THEN 0
              ELSE LW!Junk]
      BY DEF LW!Contents
    <3>4. x = f[p] /\ f[p] \in LW!Contained(i)
      BY <3>2, <3>3
    <3>5. LW!Holds(i.from, x)
      BY <3>4 DEF LW!Contained
    <3> QED
      BY <3>2, <3>5
  <2>2. CASE i.lhs \in LW!Immediates
    <3>1. PICK n \in Imms : i.lhs = LW!Imm(n)
      BY <2>2 DEF LW!Immediates
    <3>2. n \in Int
      <4>1. -LW!Halfword..LW!Halfword - 1 \subseteq Int
        OBVIOUS
      <4> QED
        BY <4>1, LoweringAssumption DEF LW!IsConfiguration
    <3>3. x = LW!Word(n) /\ LW!IsImm(i.lhs) /\ i.lhs[2] = n
      BY <3>1, ReadFacts DEF LW!Imm, LW!IsImm
    <3>4. x \in LW!Words
      BY <3>2, <3>3, WordType
    <3> QED
      BY <1>3, <3>3, <3>4
  <2> QED
    BY <1>2, <2>1, <2>2
<1> HIDE DEF x, to
<1> QED
  BY <1>3, <1>4, <1>5, <1>6, CastKeepsWord

LEMMA LoweringStarts == LW!Init /\ ~Unsigned /\ ~ShiftOfImm /\ ~Narrowing => LoweringInv
<1> SUFFICES ASSUME LW!Init, ~Unsigned, ~ShiftOfImm, ~Narrowing PROVE LoweringInv
  OBVIOUS
<1>1. PICK i \in LW!Instructions :
        \E st \in LW!Contents(i) : \E m \in LW!Memories(i, st) : LW!Start(i, st, m)
  BY DEF LW!Init
<1>2. PICK st \in LW!Contents(i) : \E m \in LW!Memories(i, st) : LW!Start(i, st, m)
  BY <1>1
<1>3. PICK m \in LW!Memories(i, st) : LW!Start(i, st, m)
  BY <1>2
<1>4. [store |-> st, mem |-> m] \in States /\ st[LW!zero] = 0
  BY InputsAreStates
<1>5. Unaltered(i, [store |-> st, mem |-> m])
  BY <1>4, InputsUnaltered DEF States
<1> QED
  BY <1>3, <1>4, <1>5, InputsLowerable, Started

LEMMA LoweringGoesOn == LoweringInv /\ [LW!Next]_lowering => LoweringInv'
<1> SUFFICES ASSUME LoweringInv, [LW!Next]_lowering PROVE LoweringInv'
  OBVIOUS
<1>1. CASE LW!Step
  <2> DEFINE s == [store |-> store, mem |-> cells]
             u == Effect(s, Head(code))
  <2>1. code # <<>> /\ code' = Tail(code) /\ ir' = ir /\ before' = before
    BY <1>1 DEF LW!Step
  <2>2. Running(ir, before, code, s)
    BY DEF LoweringInv
  <2>3. s \in States
    BY <2>2 DEF Running
  <2>4. [store |-> store', mem |-> cells'] = u
    BY <1>1, <2>3, ExecuteIs DEF LW!Step
  <2>5. Running(ir, before, Tail(code), u)
    BY <2>1, <2>2, RunsOn
  <2>6. Running(ir, before, code', [store |-> store', mem |-> cells'])
    BY <2>1, <2>4, <2>5, Zenon
  <2>7. Running(ir', before', code', [store |-> store', mem |-> cells'])
    BY <2>1, <2>6, Zenon
  <2>8. Lowerable(ir') /\ before' \in States /\ before'.store[LW!zero] = 0 /\ Unaltered(ir', before')
    <3>1. Lowerable(ir) /\ before \in States /\ before.store[LW!zero] = 0 /\ Unaltered(ir, before)
      BY DEF LoweringInv
    <3> QED
      BY <2>1, <3>1, Zenon
  <2> QED
    BY <2>7, <2>8 DEF LoweringInv
<1>2. CASE UNCHANGED lowering
  <2>1. ir' = ir /\ before' = before /\ code' = code /\ store' = store /\ cells' = cells
    BY <1>2 DEF lowering
  <2> QED
    BY <2>1 DEF LoweringInv
<1>3. CASE LW!Returned
  <2>1. ir' = ir /\ before' = before /\ code' = code /\ store' = store /\ cells' = cells
    BY <1>3 DEF LW!Returned, LW!vars
  <2> QED
    BY <2>1 DEF LoweringInv
<1> QED
  BY <1>1, <1>2, <1>3 DEF LW!Next

LEMMA LoweringTyped == LoweringInv => LW!TypeOK
<1> SUFFICES ASSUME LoweringInv PROVE LW!TypeOK
  OBVIOUS
<1>1. /\ [store |-> store, mem |-> cells] \in States
      /\ \A k \in 1..Len(code) : LW!Encodable(code[k])
  BY DEF LoweringInv, Running, Legal
<1>2. store \in [LW!Places -> LW!Words] /\ cells \in [LW!Words -> LW!Words]
  BY <1>1 DEF States
<1> QED
  BY <1>1, <1>2 DEF LW!TypeOK

\* When nothing remains to be run, the machine is what it should be.
LEMMA Ended ==
  ASSUME LoweringInv, code = <<>>
  PROVE  Exact(ir, before, [store |-> store, mem |-> cells])
<1> DEFINE s == [store |-> store, mem |-> cells]
<1>1. PICK t \in States : Leads(code, s, t) /\ Exact(ir, before, t)
  BY DEF LoweringInv, Running
<1>2. code \in Seq(Instrs)
  BY DEF LoweringInv, Running, Legal
<1>3. s = t
  BY <1>1, <1>2, LeadsAway
<1> QED
  BY <1>1, <1>3

LEMMA LoweringRight == LoweringInv => LW!ResultRight
<1> SUFFICES ASSUME LoweringInv, code = <<>> PROVE LW!ResultRight
  BY DEF LW!ResultRight
<1> DEFINE x == LW!Read(before.store, ir.lhs)
           y == LW!Read(before.store, ir.rhs)
           result == IF ir.kind = "store" THEN cells[y] ELSE store[ir.dst]
<1>1. Exact(ir, before, [store |-> store, mem |-> cells])
  BY Ended
<1>2. ir.kind # "store" => result \in Results(ir, before)
  BY <1>1 DEF Exact
<1>3. before.mem \in [LW!Words -> LW!Words] /\ before.store \in [LW!Places -> LW!Words]
  BY DEF LoweringInv, States
<1>4. ir.kind = "store" => result = LW!Low(ir.size, before.mem[y], x)
  <2> SUFFICES ASSUME ir.kind = "store" PROVE result = LW!Low(ir.size, before.mem[y], x)
    OBVIOUS
  <2>1. cells = [before.mem EXCEPT ![y] = LW!Low(ir.size, before.mem[y], x)]
    BY <1>1 DEF Exact
  <2>2. ir.rhs \in Sources
    BY DEF LoweringInv, Lowerable
  <2>3. y \in LW!Words
    BY <1>3, <2>2, SourceFacts, ReadFacts
  <2> QED
    BY <1>3, <2>1, <2>3
<1>5. Lowerable(ir)
  BY DEF LoweringInv
<1> HIDE DEF result
<1>6. CASE ir.kind = "binary"
  <2>1. result \in LW!Meaning(ir.op, x, y)
    BY <1>2, <1>6 DEF Results
  <2> QED
    BY <1>6, <2>1 DEF LW!ResultRight, result
<1>7. CASE ir.kind = "load"
  <2>1. result = LW!Word(LW!Extended(ir.size, before.mem[x]))
    BY <1>2, <1>7 DEF Results
  <2>2. ~ir.unsigned
    BY <1>5, <1>7 DEF Lowerable
  <2> QED
    BY <1>7, <2>1, <2>2 DEF LW!ResultRight, result
<1>8. CASE ir.kind = "store"
  BY <1>4, <1>8 DEF LW!ResultRight, result
<1>9. CASE ir.kind = "cast"
  <2>1. result = x
    BY <1>2, <1>9 DEF Results
  <2>2. result = LW!Word(LW!IntOf(LW!Type(ir.size, ir.unsigned), LW!IntOf(ir.from, x)))
    BY <1>9, <2>1 DEF LoweringInv, Unaltered
  <2> QED
    BY <1>9, <2>2 DEF LW!ResultRight, result
<1>10. CASE ir.kind = "element"
  <2>1. result = LW!Word(x + y * ir.size)
    BY <1>2, <1>10 DEF Results
  <2> QED
    BY <1>10, <2>1 DEF LW!ResultRight, result
<1>11. CASE ir.kind = "field"
  <2>1. result = LW!Word(x + ir.size)
    BY <1>2, <1>11 DEF Results
  <2> QED
    BY <1>11, <2>1 DEF LW!ResultRight, result
<1> QED
  BY <1>5, <1>6, <1>7, <1>8, <1>9, <1>10, <1>11 DEF Lowerable

LEMMA LoweringKeeps == LoweringInv => LW!OthersKept
<1> SUFFICES ASSUME LoweringInv PROVE LW!OthersKept
  OBVIOUS
<1> DEFINE s == [store |-> store, mem |-> cells]
<1>1. Running(ir, before, code, s) /\ before \in States /\ before.store[LW!zero] = 0
  BY DEF LoweringInv
<1>2. \A p \in LW!Places \ (LW!Temps \cup {ir.dst}) : store[p] = before.store[p]
  BY <1>1 DEF Running
<1>3. \A p \in (InsRegs \cup Slots) \ {ir.dst} : store[p] = before.store[p]
  BY <1>2, PlaceFacts
<1>4. store[LW!zero] = 0
  <2>1. ir.dst # LW!zero
    BY PlaceFacts DEF LoweringInv, Lowerable, HasDst
  <2>2. LW!zero \in LW!Places \ (LW!Temps \cup {ir.dst})
    BY <2>1, PlaceFacts
  <2> QED
    BY <1>1, <1>2, <2>2
<1>5. ASSUME NEW w \in LW!Words, cells[w] # before.mem[w]
      PROVE  ir.kind = "store" /\ w = LW!Read(before.store, ir.rhs)
  <2>1. code = <<>>
    BY <1>1, <1>5 DEF Running
  <2>2. Exact(ir, before, s)
    BY <2>1, Ended
  <2>3. ir.kind = "store"
    BY <1>5, <2>2 DEF Exact
  <2>4. cells = [before.mem EXCEPT ![LW!Read(before.store, ir.rhs)] =
                 LW!Low(ir.size, before.mem[LW!Read(before.store, ir.rhs)],
                   LW!Read(before.store, ir.lhs))]
    BY <2>2, <2>3 DEF Exact
  <2>5. before.mem \in [LW!Words -> LW!Words]
    BY <1>1 DEF States
  <2> QED
    BY <1>5, <2>3, <2>4, <2>5
<1> QED
  BY <1>3, <1>4, <1>5 DEF LW!OthersKept

\* The instruction on which LoweringRests rests is lowered too.
LEMMA RestLowerable ==
  ASSUME NEW i, i.kind = "cast", i.lhs = LW!Imm(1), i.dst \in InsRegs,
         i.size = XLen, i.unsigned, i.unsigned \in BOOLEAN, i.from = LW!Type(1, TRUE)
  PROVE  LET s == [store |-> [p \in LW!Places |-> 0], mem |-> [w \in LW!Words |-> 0]]
         IN Lowerable(i) /\ s \in States /\ Unaltered(i, s)
<1>1. LW!Imm(1) \in Sources /\ HasDst(i)
  BY DEF Sources, HasDst
<1>2. 0 \in LW!Words
  BY WordType DEF LW!Words
<1> DEFINE to == LW!Type(i.size, i.unsigned)
           st == [p \in LW!Places |-> 0]
           one == LW!Word(1)
<1>3. XLen \in Nat /\ XLen >= 2 /\ 1 \in 1..XLen /\ XLen \in 1..XLen
  BY LoweringAssumption DEF LW!IsConfiguration
<1>4. LW!Pow2[1] = 2
  BY <1>3, PowersExist
<1>5. one = 1 /\ one \in LW!Words
  <2>1. 1 \in LW!Words
    BY WordType DEF LW!Words
  <2> QED
    BY <2>1, WordType
<1>6. LW!Holds(i.from, 1)
  <2>1. LW!IntOf(i.from, 1) = 1
    BY <1>4 DEF LW!IntOf, LW!Type
  <2> QED
    BY <1>5, <2>1 DEF LW!Holds
<1>7. /\ i.from.bits = 1 /\ i.from.unsigned = TRUE /\ to.bits = XLen /\ to.unsigned = i.unsigned
  BY DEF LW!Type
<1> HIDE DEF to
<1>8. LW!Keeps(i.from, to)
  <2>1. i.from.bits < to.bits
    <3>1. i.from.bits = 1 /\ to.bits = XLen
      BY <1>7
    <3>2. 1 < XLen
      BY <1>3
    <3> QED
      BY <3>1, <3>2
  <2>2. i.from.unsigned = TRUE
    BY <1>7
  <2> DEFINE short == i.from.bits < to.bits
             full == to.bits = XLen
  <2>3. short
    BY <2>1
  <2> HIDE DEF short, full
  <2>4. short /\ (i.from.unsigned \/ ~to.unsigned \/ full)
    BY <2>2, <2>3, Zenon
  <2> QED
    BY <2>4 DEF LW!Keeps, short, full
<1>9. 1 = LW!Word(LW!IntOf(to, LW!IntOf(i.from, 1)))
  BY <1>3, <1>5, <1>6, <1>7, <1>8, CastKeepsWord
<1>10. LW!Read(st, i.lhs) = 1
  <2>1. st \in [LW!Places -> LW!Words]
    BY <1>2
  <2> HIDE DEF st
  <2> QED
    BY <1>5, <2>1, ReadFacts
<1>11. Unaltered(i, [store |-> st, mem |-> [w \in LW!Words |-> 0]])
  <2> HIDE DEF st
  <2> QED
    BY <1>9, <1>10 DEF Unaltered, to
<1> QED
  BY <1>1, <1>2, <1>11 DEF Lowerable, States

-----------------------------------------------------------------------------
(* The run: a call or another instruction, the module of the other resting *)

\* Loaded types are signed, no shift has an immediate on its left, and a cast is
\* to a type that represents the operand's integers by the same words: the three
\* constants allow what the code is known not to lower correctly.
IsSupported == ~Unsigned /\ ~ShiftOfImm /\ ~Narrowing

CodeInv ==
  /\ LoweringInv
  /\ \/ unit = "call" /\ IInv
     \/ unit = "instruction" /\ TypeOK

LEMMA CallRestTyped == CallRests => TypeOK
<1> SUFFICES ASSUME CallRests PROVE TypeOK
  OBVIOUS
<1> DEFINE f == Frame(0, 0, <<>>, 0, TRUE, <<>>)
<1>1. IsFrame(f)
  <2>1. /\ f.spill = 0 /\ f.local = 0 /\ f.maxSave = 0 /\ f.saved = <<>> /\ f.leaf = TRUE
        /\ f.params = <<>>
    BY DEF Frame
  <2> HIDE DEF f
  <2>2. <<>> \in Seq(CalleeSaved) /\ Len(<<>>) = 0 /\ DOMAIN <<>> = 1..0 /\ DOMAIN <<>> = {}
    OBVIOUS
  <2>3. f.spill \in Nat /\ f.local \in Nat /\ f.maxSave \in Nat /\ f.spill % 8 = 0
    BY <2>1, SMT
  <2>4. f.saved \in Seq(CalleeSaved) /\ f.leaf \in BOOLEAN
    BY <2>1, <2>2
  <2>5. Len(f.params) \in Nat /\ DOMAIN f.params = 1..Len(f.params)
    BY <2>1, <2>2, SMT
  <2>6. DOMAIN f.params \cap DOMAIN ArgRegs = {}
    BY <2>1, <2>2, Zenon
  <2> QED
    BY <2>3, <2>4, <2>5, <2>6, Zenon DEF IsFrame
<1>2. caller = f /\ callee = f /\ AtTheCall
  BY DEF CallRests
<1> HIDE DEF f
<1>3. /\ CalleeSaveOffset(f) % 8 = 0 /\ ReturnAddrOffset(f) % 8 = 0
      /\ SpillArgsOffset(f) % 8 = 0
  BY <1>1, AreasAligned
<1>4. \A g \in {caller, callee} :
        \A n \in {CalleeSaveOffset(g), ReturnAddrOffset(g), SpillArgsOffset(g)} : n % 8 = 0
  BY <1>2, <1>3
<1>5. /\ pc = "save" /\ sp = 0 /\ DOMAIN regs = Regs \cup {ra} /\ DOMAIN mem = Cells
  BY <1>2 DEF AtTheCall
<1>6. sp \in {0, -FrameSize(callee)} /\ sp % 16 = 0
  BY <1>5
<1> QED
  BY <1>4, <1>5, <1>6 DEF TypeOK

LEMMA LoweringRestsRight == IsSupported /\ LoweringRests => LoweringInv
<1> SUFFICES ASSUME IsSupported, LoweringRests PROVE LoweringInv
  OBVIOUS
<1> DEFINE i == [kind |-> "cast", op |-> "", lhs |-> LW!Imm(1), rhs |-> LW!Imm(0),
                 dst |-> CHOOSE r \in InsRegs : TRUE, size |-> XLen, unsigned |-> TRUE,
                 from |-> LW!Type(1, TRUE)]
           st == [p \in LW!Places |-> 0]
           m == [w \in LW!Words |-> 0]
<1>1. /\ i.kind = "cast" /\ i.lhs = LW!Imm(1) /\ i.dst \in InsRegs
      /\ i.size = XLen /\ i.unsigned = TRUE /\ i.from = LW!Type(1, TRUE)
  BY LoweringAssumption
<1>2. LW!Start(i, st, m)
  BY DEF LoweringRests
<1>3. st[LW!zero] = 0
  BY PlaceFacts
<1> HIDE DEF i
<1>4. /\ Lowerable(i) /\ [store |-> st, mem |-> m] \in States
      /\ Unaltered(i, [store |-> st, mem |-> m])
  BY <1>1, RestLowerable
<1> HIDE DEF st, m
<1> QED
  BY <1>2, <1>3, <1>4, Started DEF IsSupported

LEMMA CodeStarts == IsSupported /\ MCInit => CodeInv
<1> SUFFICES ASSUME IsSupported, MCInit PROVE CodeInv
  OBVIOUS
<1>1. CASE unit = "call" /\ Calls /\ LoweringRests
  <2>1. Init
    BY <1>1 DEF Calls, Init
  <2> QED
    BY <1>1, <2>1, Starts, LoweringRestsRight DEF CodeInv
<1>2. CASE unit = "instruction" /\ LW!Init /\ CallRests
  BY <1>2, CallRestTyped, LoweringStarts DEF CodeInv, IsSupported
<1> QED
  BY <1>1, <1>2 DEF MCInit

LEMMA CodeGoesOn == CodeInv /\ [MCNext]_<<unit, vars, lowering>> => CodeInv'
<1> SUFFICES ASSUME CodeInv, [MCNext]_<<unit, vars, lowering>> PROVE CodeInv'
  OBVIOUS
<1>1. UNCHANGED lowering => LoweringInv'
  BY LoweringGoesOn DEF CodeInv
<1>2. UNCHANGED vars /\ TypeOK => TypeOK'
  <2> SUFFICES ASSUME UNCHANGED vars, TypeOK PROVE TypeOK'
    OBVIOUS
  <2>1. /\ caller' = caller /\ callee' = callee /\ regs' = regs /\ mem' = mem
        /\ sp' = sp /\ pc' = pc
    BY DEF vars, input
  <2>2. \A f : /\ CalleeSaveOffset(f)' = CalleeSaveOffset(f)
              /\ ReturnAddrOffset(f)' = ReturnAddrOffset(f)
              /\ SpillArgsOffset(f)' = SpillArgsOffset(f)
              /\ FrameSize(f)' = FrameSize(f)
    OBVIOUS
  <2> QED
    BY <2>1, <2>2 DEF TypeOK
<1>3. CASE unit = "call" /\ Next /\ UNCHANGED <<unit, lowering>>
  BY <1>1, <1>3, StepKeeps DEF CodeInv
<1>4. CASE unit = "instruction" /\ LW!Next /\ UNCHANGED <<unit, vars>>
  <2>1. LoweringInv'
    BY <1>4, LoweringGoesOn DEF CodeInv
  <2>2. TypeOK'
    BY <1>2, <1>4, TypeCorrect DEF CodeInv
  <2> QED
    BY <1>4, <2>1, <2>2 DEF CodeInv
<1>5. CASE UNCHANGED <<unit, vars, lowering>>
  BY <1>1, <1>2, <1>5, StepKeeps DEF CodeInv
<1> QED
  BY <1>3, <1>4, <1>5 DEF MCNext

LEMMA CodeInvariance == IsSupported /\ MCSpec => []CodeInv
<1>1. IsSupported /\ MCInit => CodeInv
  BY CodeStarts
<1>2. CodeInv /\ [MCNext]_<<unit, vars, lowering>> => CodeInv'
  BY CodeGoesOn
<1> QED
  BY <1>1, <1>2, PTL DEF MCSpec

\* generate_binary_op, generate_load, generate_store, generate_cast and
\* generate_gep: for words of any width, any immediates, strides, registers and
\* slots, the emitted sequence ends with what the instruction means in its
\* destination, wherever operands and destination are, although the sequences
\* share three temporaries, and changes no other register, slot or word.
THEOREM LoweringExact == IsSupported /\ MCSpec => []InstructionExact
<1>1. CodeInv => InstructionExact
  BY LoweringRight, LoweringKeeps DEF CodeInv, InstructionExact
<1> QED
  BY <1>1, CodeInvariance, PTL

\* Everything emitted can be encoded (is_i12, and a slot is touched by loads,
\* stores and moves only), and during a call sp and the areas of either frame
\* are aligned.
THEOREM CodeWellFormed == IsSupported /\ MCSpec => []WellFormed
<1>1. CodeInv => WellFormed
  BY LoweringTyped, TypeCorrect DEF CodeInv, WellFormed
<1> QED
  BY <1>1, CodeInvariance, PTL
=============================================================================
