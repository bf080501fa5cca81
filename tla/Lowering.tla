------------------------------ MODULE Lowering ------------------------------
(***************************************************************************)
(* generate_binary_op, generate_load, generate_store, generate_cast and    *)
(* generate_gep of src/backend/asm_generator.cpp: one IR instruction       *)
(* becomes a short sequence of machine instructions, which is then run.    *)
(*                                                                         *)
(* The machine has registers of XLen bits instead of 64, immediates of     *)
(* ImmBits bits instead of 12, and a memory of one word per address.       *)
(* Words are naturals below 2^XLen.                                        *)
(***************************************************************************)
EXTENDS Integers, Sequences, SequencesExt

CONSTANTS
  XLen,
  ImmBits,     \* width of the immediate of an I-type instruction
  Operators,   \* the binary operators
  Regs, Slots, \* allocatable registers and spill slots
  Far,         \* the slots whose offset does not fit in an immediate
  Values,      \* words that operands hold
  Imms,        \* immediate operands
  Widths,      \* bits of the integer types
  Strides,     \* sizes of the elements that an index steps over
  Unsigned,    \* may a loaded type be unsigned?
  ShiftOfImm,  \* may the left operand of a shift be an immediate?
  Narrowing    \* may a cast have to change the word that holds its operand?

kTmpRd == "t0"
kTmpRs1 == "t1"
kTmpRs2 == "t2"
zero == "zero"
Temps == {kTmpRd, kTmpRs1, kTmpRs2}
Places == Regs \cup Slots \cup Temps \cup {zero}
Pow2[n \in 0..XLen] == IF n = 0 THEN 1 ELSE 2 * Pow2[n - 1]
Words == 0..Pow2[XLen] - 1
Halfword == Pow2[XLen - 1]   \* the first word that is negative when signed
StackAddr == 5   \* the address of the stack variable
Junk == 6        \* what a place holds that is no operand
Nowhere == "nowhere"   \* the destination of an instruction without one

\* The operators of the IR; the comparisons are written without their icmp.
Commutative == {"add", "mul", "and", "or", "xor"}
Shifts == {"shl", "ashr", "lshr"}
Comparisons == {"eq", "ne", "slt", "sgt", "sle", "sge", "ult", "ugt", "ule", "uge"}
BinaryOps == {"sub", "udiv", "urem", "sdiv", "srem"}
               \cup Commutative \cup Shifts \cup Comparisons

\* What the constants may be: immediates and strides fit in a word, and 1 fits in
\* the immediate of an instruction.
IsConfiguration ==
  /\ XLen \in Nat \ {0} /\ ImmBits \in 2..XLen
  /\ Operators \subseteq BinaryOps
  /\ Regs \cap Slots = {} /\ Far \subseteq Slots
  /\ (Regs \cup Slots) \cap (Temps \cup {zero, Nowhere}) = {}
  /\ Values \cup {StackAddr, Junk} \subseteq Words
  /\ Imms \subseteq -Halfword..Halfword - 1
  /\ Widths \subseteq 1..XLen
  /\ Strides \subseteq 1..Halfword - 1
  /\ {Unsigned, ShiftOfImm, Narrowing} \subseteq BOOLEAN

VARIABLES
  ir,      \* the instruction [kind, op, lhs, rhs, dst, size, unsigned, from] (input)
  before,  \* the machine before it, [store, mem] (input)
  code,    \* the machine instructions that remain to be run
  store,   \* contents of the places
  mem      \* contents of memory

vars == <<ir, before, code, store, mem>>

-----------------------------------------------------------------------------
(* Operands: a place, the address of a stack variable, an immediate.       *)

At(p) == <<"at", p>>
Stack == <<"stack", 0>>
Imm(n) == <<"imm", n>>
IsImm(o) == o[1] = "imm"
InReg(o) == o[1] = "at" /\ o[2] \in Regs

Word(n) == n % Pow2[XLen]
Extended(bits, w) ==
  LET low == w % Pow2[bits] IN IF low < Pow2[bits - 1] THEN low ELSE low - Pow2[bits]
Signed(w) == Extended(XLen, w)
Truth(b) == IF b THEN 1 ELSE 0

\* The types of integers; bool is unsigned of one bit, char of eight.  IntOf is
\* the integer of type t that has the low bits of n, and the word that stands for
\* an integer is its two's complement, whatever the width of its type.
Type(bits, unsigned) == [bits |-> bits, unsigned |-> unsigned]
NoType == Type(0, FALSE)
IntOf(t, n) == IF t.unsigned THEN n % Pow2[t.bits] ELSE Extended(t.bits, n)
Holds(t, w) == w = Word(IntOf(t, w))

\* The word each bit of which table makes of the bits of a and b in its place.
Bit(w, k) == (w \div Pow2[k]) % 2
BitByBit(table, a, b) ==
  LET upTo[n \in 0..XLen] ==
        IF n = 0 THEN 0
        ELSE upTo[n - 1] + Pow2[n - 1] * table[Bit(a, n - 1)][Bit(b, n - 1)]
  IN upTo[XLen]
And(a, b) == BitByBit([x \in {0, 1} |-> [y \in {0, 1} |-> Truth(x = 1 /\ y = 1)]], a, b)
Or(a, b) == BitByBit([x \in {0, 1} |-> [y \in {0, 1} |-> Truth(x = 1 \/ y = 1)]], a, b)
Xor(a, b) == BitByBit([x \in {0, 1} |-> [y \in {0, 1} |-> Truth(x # y)]], a, b)

\* Division that truncates towards zero, as in C and in Rust.
Quotient(a, b) ==
  LET abs(n) == IF n < 0 THEN -n ELSE n
      q == abs(a) \div abs(b)
  IN IF (a < 0) = (b < 0) THEN q ELSE -q
Remainder(a, b) == a - b * Quotient(a, b)

-----------------------------------------------------------------------------
(* The machine.  MV stands for the instructions that only move: mv, li,    *)
(* ld and sd on the frame, addi of sp.                                     *)

Ins(op, rd, a, b) == [op |-> op, rd |-> rd, a |-> a, b |-> b]
Mv(rd, a) == Ins("MV", rd, a, Imm(0))

Alu(op, a, b) ==
  CASE op \in {"ADD", "ADDI"} -> Word(a + b)
    [] op = "SUB" -> Word(a - b)
    [] op = "MUL" -> Word(a * b)
    [] op = "DIVU" -> IF b = 0 THEN Pow2[XLen] - 1 ELSE a \div b
    [] op = "REMU" -> IF b = 0 THEN a ELSE a % b
    [] op = "DIV" -> IF b = 0 THEN Pow2[XLen] - 1 ELSE Word(Quotient(Signed(a), Signed(b)))
    [] op = "REM" -> IF b = 0 THEN a ELSE Word(Remainder(Signed(a), Signed(b)))
    [] op \in {"AND", "ANDI"} -> And(a, b)
    [] op \in {"OR", "ORI"} -> Or(a, b)
    [] op \in {"XOR", "XORI"} -> Xor(a, b)
    [] op \in {"SLL", "SLLI"} -> Word(a * Pow2[b % XLen])
    [] op \in {"SRL", "SRLI"} -> a \div Pow2[b % XLen]
    [] op \in {"SRA", "SRAI"} -> Word(Signed(a) \div Pow2[b % XLen])
    [] op = "SLT" -> Truth(Signed(a) < Signed(b))
    [] op \in {"SLTU", "SLTIU"} -> Truth(a < b)

\* What operand o yields when the places hold st.
Read(st, o) ==
  CASE o[1] = "at" -> st[o[2]]
    [] o[1] = "stack" -> StackAddr
    [] o[1] = "imm" -> Word(o[2])

\* `old' with its low bits replaced by those of w.
Low(bits, old, w) == (old - (old % Pow2[bits])) + (w % Pow2[bits])

Execute(m) ==
  LET a == Read(store, m.a)
      b == Read(store, m.b)
  IN IF m.op = "STORE"
     THEN mem' = [mem EXCEPT ![b] = Low(m.rd, @, a)] /\ UNCHANGED store
     ELSE /\ store' = [store EXCEPT ![m.rd] =
                         CASE m.op = "LOAD" -> Word(Extended(b, mem[a]))
                           [] m.op = "MV" -> a
                           [] OTHER -> Alu(m.op, a, b)]
          /\ UNCHANGED mem

-----------------------------------------------------------------------------
(* Operands of a machine instruction: fetched to tmp unless in a register. *)

Fits(n) == n \in -Pow2[ImmBits - 1]..Pow2[ImmBits - 1] - 1
Fetch(o, tmp) == IF InReg(o) \/ IsImm(o) THEN <<>> ELSE <<Mv(tmp, o)>>
LoadImm(o, tmp) == IF IsImm(o) THEN <<Mv(tmp, o)>> ELSE <<>>
RegOf(o, tmp) == IF InReg(o) THEN o ELSE At(tmp)
DstReg(i) == IF i.dst \in Regs THEN i.dst ELSE kTmpRd

\* The result goes to its slot; a far slot's address is computed in kTmpRs2.
Flush(i) ==
  IF i.dst \in Regs THEN <<>>
  ELSE (IF i.dst \in Far THEN <<Mv(kTmpRs2, Imm(Junk))>> ELSE <<>>)
         \o <<Mv(i.dst, At(kTmpRd))>>

-----------------------------------------------------------------------------
(* generate_binary_op *)

RegOp == [add |-> "ADD", sub |-> "SUB", mul |-> "MUL",
          udiv |-> "DIVU", urem |-> "REMU", sdiv |-> "DIV", srem |-> "REM",
          and |-> "AND", or |-> "OR", xor |-> "XOR",
          shl |-> "SLL", ashr |-> "SRA", lshr |-> "SRL"]
ImmOp == [add |-> "ADDI", sub |-> "ADDI", mul |-> "SLLI",
          and |-> "ANDI", or |-> "ORI", xor |-> "XORI",
          shl |-> "SLLI", ashr |-> "SRAI", lshr |-> "SRLI"]

Log2(n) == CHOOSE k \in 0..XLen : Pow2[k] = n

\* Mutant: the immediate of a subtraction is tested before it is negated.
TakesImm_SubUnnegated(op, n) ==
  CASE op = "mul" -> n \in {Pow2[k] : k \in 0..XLen - 2}
    [] op \in DOMAIN ImmOp \ {"mul"} -> Fits(n)
    [] OTHER -> FALSE

\* Is there an instruction for op with the immediate n, and with which field?
TakesImm(op, n) ==
  CASE op = "mul" -> n \in {Pow2[k] : k \in 0..XLen - 2}
    [] op = "sub" -> Fits(-n)
    [] op \in DOMAIN ImmOp \ {"mul", "sub"} -> Fits(n)
    [] OTHER -> FALSE
Field(op, n) ==
  CASE op = "mul" -> Imm(Log2(n)) [] op = "sub" -> Imm(-n) [] OTHER -> Imm(n)

Compare(op, d, l, r) ==
  LET less == IF op \in {"slt", "sgt", "sle", "sge"} THEN "SLT" ELSE "SLTU"
      flipped == op \in {"sgt", "ugt", "sle", "ule"}
      a == IF flipped THEN r ELSE l
      b == IF flipped THEN l ELSE r
  IN CASE op = "eq" -> <<Ins("XOR", kTmpRd, l, r), Ins("SLTIU", d, At(kTmpRd), Imm(1))>>
       [] op = "ne" -> <<Ins("XOR", kTmpRd, l, r), Ins("SLTU", d, At(zero), At(kTmpRd))>>
       [] op \in {"slt", "sgt", "ult", "ugt"} -> <<Ins(less, d, a, b)>>
       [] OTHER -> <<Ins(less, kTmpRd, a, b), Ins("XORI", d, At(kTmpRd), Imm(1))>>

\* An immediate on one side may be folded into the instruction, which then
\* replaces the one that would have loaded it.
Binary(i) ==
  LET d == DstReg(i)
      l == RegOf(i.lhs, kTmpRs1)
      r == RegOf(i.rhs, kTmpRs2)
      operands == Fetch(i.lhs, kTmpRs1) \o Fetch(i.rhs, kTmpRs2)
                    \o LoadImm(i.lhs, kTmpRs1) \o LoadImm(i.rhs, kTmpRs2)
      immLeft == /\ IsImm(i.lhs) /\ ~IsImm(i.rhs) /\ i.op # "sub"
                 /\ TakesImm(i.op, i.lhs[2])
      immRight == IsImm(i.rhs) /\ ~IsImm(i.lhs) /\ TakesImm(i.op, i.rhs[2])
  IN CASE i.op \in Comparisons -> operands \o Compare(i.op, d, l, r)
       [] immLeft -> Front(operands) \o <<Ins(ImmOp[i.op], d, r, Field(i.op, i.lhs[2]))>>
       [] immRight -> Front(operands) \o <<Ins(ImmOp[i.op], d, l, Field(i.op, i.rhs[2]))>>
       [] OTHER -> operands \o <<Ins(RegOp[i.op], d, l, r)>>

-----------------------------------------------------------------------------
(* generate_load, generate_store, generate_cast, generate_gep *)

LoadWord(i) ==
  Fetch(i.lhs, kTmpRs1)
    \o <<Ins("LOAD", DstReg(i), RegOf(i.lhs, kTmpRs1), Imm(i.size))>>

StoreWord(i) ==
  Fetch(i.lhs, kTmpRs1) \o Fetch(i.rhs, kTmpRs2) \o LoadImm(i.lhs, kTmpRs1)
    \o <<Ins("STORE", i.size, RegOf(i.lhs, kTmpRs1), RegOf(i.rhs, kTmpRs2))>>

Cast(i) ==
  LET src == RegOf(i.lhs, kTmpRs1)
  IN Fetch(i.lhs, kTmpRs1) \o LoadImm(i.lhs, kTmpRs1)
       \o (IF src = At(DstReg(i)) THEN <<>> ELSE <<Mv(DstReg(i), src)>>)

\* Mutant: the base is fetched before the stride is used.
Element_BaseFirst(i) ==
  LET index == RegOf(i.rhs, kTmpRs2)
  IN Fetch(i.lhs, kTmpRs1) \o <<Mv(kTmpRs1, Imm(i.size))>> \o Fetch(i.rhs, kTmpRs2)
       \o <<Ins("MUL", kTmpRs2, index, At(kTmpRs1)),
            Ins("ADD", DstReg(i), RegOf(i.lhs, kTmpRs1), At(kTmpRs2))>>

\* An element: the index is scaled in kTmpRs2, where it was fetched, before
\* the base is fetched to kTmpRs1, where the stride may have been.
Element(i) ==
  LET index == RegOf(i.rhs, kTmpRs2)
      fetchIndex == Fetch(i.rhs, kTmpRs2)
      fetchBase == Fetch(i.lhs, kTmpRs1)
      add(o) == <<Ins("ADD", DstReg(i), RegOf(i.lhs, kTmpRs1), o)>>
  IN CASE i.size = 1 -> fetchIndex \o fetchBase \o add(index)
       [] i.size \in {Pow2[k] : k \in 1..XLen} ->
            fetchIndex \o <<Ins("SLLI", kTmpRs2, index, Imm(Log2(i.size)))>>
              \o fetchBase \o add(At(kTmpRs2))
       [] OTHER ->
            <<Mv(kTmpRs1, Imm(i.size))>> \o fetchIndex
              \o <<Ins("MUL", kTmpRs2, index, At(kTmpRs1))>>
              \o fetchBase \o add(At(kTmpRs2))

\* A field at offset i.size (try_addi): the offset that does not fit goes
\* through the destination, or through kTmpRs2 if that is also the base.
FieldAddress(i) ==
  LET d == DstReg(i)
      base == RegOf(i.lhs, kTmpRs1)
      tmp == IF base = At(d) THEN kTmpRs2 ELSE d
  IN Fetch(i.lhs, kTmpRs1)
       \o (CASE Fits(i.size) /\ i.size = 0 /\ base = At(d) -> <<>>
             [] Fits(i.size) /\ ~(i.size = 0 /\ base = At(d)) ->
                  <<Ins("ADDI", d, base, Imm(i.size))>>
             [] ~Fits(i.size) ->
                  <<Mv(tmp, Imm(i.size)), Ins("ADD", d, base, At(tmp))>>)

Lower(i) ==
  CASE i.kind = "binary" -> Binary(i) \o Flush(i)
    [] i.kind = "load" -> LoadWord(i) \o Flush(i)
    [] i.kind = "store" -> StoreWord(i)
    [] i.kind = "cast" -> Cast(i) \o Flush(i)
    [] i.kind = "element" -> Element(i) \o Flush(i)
    [] i.kind = "field" -> FieldAddress(i) \o Flush(i)

-----------------------------------------------------------------------------
(* The inputs: every instruction the generator accepts, on every machine   *)
(* whose operands hold Values.                                             *)

Locals == {At(p) : p \in Regs \cup Slots}
Pointers == Locals \cup {Stack}
Immediates == {Imm(n) : n \in Imms}
Dsts == Regs \cup Slots
\* The instructions of a kind; for a cast, size and unsigned are those of the
\* type that is cast to, and from is the type of the operand.
IRs(kind, ops, lhs, rhs, dst, sizes, unsigned, from) ==
  [kind : {kind}, op : ops, lhs : lhs, rhs : rhs, dst : dst,
   size : sizes, unsigned : unsigned, from : from]

\* Counts of shifts are within the word.
Allowed(op, l, r) ==
  op \in Shifts => /\ IsImm(r) => r[2] \in 0..XLen - 1
                   /\ IsImm(l) => ShiftOfImm
Binaries ==
  IRs("binary", Operators, Locals \cup Immediates, Locals \cup Immediates, Dsts, {0}, {FALSE},
      {NoType})

\* A cast is an instruction when the widths differ (bitcast is never emitted).
\* Keeps: every integer of the one type is the same word in the other.
Keeps(from, to) ==
  from.bits < to.bits /\ (from.unsigned \/ ~to.unsigned \/ to.bits = XLen)
IntTypes == {Type(1, TRUE)} \cup [bits : Widths, unsigned : BOOLEAN]
Casts ==
  {i \in IRs("cast", {""}, Locals \cup Immediates, {Imm(0)}, Dsts, Widths, BOOLEAN, IntTypes) :
     LET to == Type(i.size, i.unsigned)
     IN /\ i.from.bits # to.bits /\ (Keeps(i.from, to) \/ Narrowing)
        /\ IsImm(i.lhs) => Holds(i.from, Word(i.lhs[2]))}
Instructions ==
  {i \in Binaries : Allowed(i.op, i.lhs, i.rhs)}
    \cup IRs("load", {""}, Pointers, {Imm(0)}, Dsts, Widths, {FALSE, Unsigned}, {NoType})
    \cup IRs("store", {""}, Pointers \cup Immediates, Pointers, {Nowhere}, Widths, {FALSE}, {NoType})
    \cup Casts
    \cup IRs("element", {""}, Pointers, Locals, Dsts, Strides, {FALSE}, {NoType})
    \cup IRs("field", {""}, Pointers, {Imm(0)}, Dsts, {0} \cup Strides, {FALSE}, {NoType})

Operands(i) == {p \in Regs \cup Slots : At(p) \in {i.lhs, i.rhs}}
Contained(i) == IF i.kind = "cast" THEN {w \in Values : Holds(i.from, w)} ELSE Values
Contents(i) ==
  {[p \in Places |-> IF p \in Operands(i) THEN f[p] ELSE IF p = zero THEN 0 ELSE Junk] :
     f \in [Operands(i) -> Contained(i)]}
Memories(i, st) ==
  IF i.kind # "load" THEN {[w \in Words |-> Junk]}
  ELSE {[w \in Words |-> IF w = Read(st, i.lhs) THEN v ELSE Junk] : v \in Values}

Start(i, st, m) ==
  /\ ir = i
  /\ before = [store |-> st, mem |-> m]
  /\ code = Lower(i)
  /\ store = st
  /\ mem = m

Init ==
  \E i \in Instructions : \E st \in Contents(i) : \E m \in Memories(i, st) : Start(i, st, m)

Step ==
  /\ code # <<>>
  /\ Execute(Head(code))
  /\ code' = Tail(code)
  /\ UNCHANGED <<ir, before>>

Returned == code = <<>> /\ UNCHANGED vars

Next == Step \/ Returned

Spec == Init /\ [][Next]_vars

-----------------------------------------------------------------------------
(* Properties *)

\* Only loads, stores and moves touch the frame, every other operand is a
\* register or an immediate of its field's width, and only registers and
\* slots are written.
Encodable(m) ==
  LET reg(o) == o[1] = "at" /\ o[2] \notin Slots
  IN CASE m.op = "MV" -> m.rd \in Places \ {zero} /\ (m.rd \in Slots => reg(m.a))
       [] m.op = "LOAD" -> m.rd \notin Slots /\ reg(m.a)
       [] m.op = "STORE" -> reg(m.a) /\ reg(m.b)
       [] m.op \in {"SLLI", "SRLI", "SRAI"} ->
            m.rd \notin Slots /\ reg(m.a) /\ m.b[2] \in 0..XLen - 1
       [] m.op \in {"ADDI", "ANDI", "ORI", "XORI", "SLTIU"} ->
            m.rd \notin Slots /\ reg(m.a) /\ Fits(m.b[2])
       [] OTHER -> m.rd \notin Slots /\ reg(m.a) /\ reg(m.b)

\* The contents are words, and what remains to be run can be encoded
\* (is_i12 and the choices between rs1, rs2 and rd).
TypeOK ==
  /\ store \in [Places -> Words]
  /\ mem \in [Words -> Words]
  /\ \A k \in 1..Len(code) : Encodable(code[k])

\* What `op' may yield for the words x and y: Rust leaves out, or panics at,
\* division by zero, division of the least word by -1 and counts >= XLen.
Meaning(op, x, y) ==
  LET a == Signed(x)
      b == Signed(y)
      overflow == y = 0 \/ (a = -Halfword /\ b = -1)
  IN CASE op = "add" -> {Word(a + b)}
       [] op = "sub" -> {Word(a - b)}
       [] op = "mul" -> {Word(a * b)}
       [] op = "udiv" -> IF y = 0 THEN Words ELSE {x \div y}
       [] op = "urem" -> IF y = 0 THEN Words ELSE {x % y}
       [] op = "sdiv" -> IF overflow THEN Words ELSE {Word(Quotient(a, b))}
       [] op = "srem" -> IF overflow THEN Words ELSE {Word(Remainder(a, b))}
       [] op = "and" -> {And(x, y)}
       [] op = "or" -> {Or(x, y)}
       [] op = "xor" -> {Xor(x, y)}
       [] op = "shl" -> IF y >= XLen THEN Words ELSE {Word(x * Pow2[y])}
       [] op = "lshr" -> IF y >= XLen THEN Words ELSE {x \div Pow2[y]}
       [] op = "ashr" -> IF y >= XLen THEN Words ELSE {Word(a \div Pow2[y])}
       [] op = "eq" -> {Truth(x = y)}
       [] op = "ne" -> {Truth(x # y)}
       [] op = "slt" -> {Truth(a < b)}
       [] op = "sgt" -> {Truth(a > b)}
       [] op = "sle" -> {Truth(a <= b)}
       [] op = "sge" -> {Truth(a >= b)}
       [] op = "ult" -> {Truth(x < y)}
       [] op = "ugt" -> {Truth(x > y)}
       [] op = "ule" -> {Truth(x <= y)}
       [] op = "uge" -> {Truth(x >= y)}

\* When the sequence has run, the destination (for a store, the word pointed
\* to) holds what the instruction means (ir_instruction.hpp: "%3 = op Ty %1,
\* %2"), whatever its operands are, wherever they are and in particular when
\* the destination is one of them, and although the temporaries are shared.  A
\* cast (zext, sext, trunc: cast_op) yields the operand's integer wrapped to the
\* type it is cast to.
ResultRight ==
  code = <<>> =>
    LET x == Read(before.store, ir.lhs)
        y == Read(before.store, ir.rhs)
        result == IF ir.kind = "store" THEN mem[y] ELSE store[ir.dst]
    IN CASE ir.kind = "binary" -> result \in Meaning(ir.op, x, y)
         [] ir.kind = "load" ->
              result = IF ir.unsigned THEN before.mem[x] % Pow2[ir.size]
                       ELSE Word(Extended(ir.size, before.mem[x]))
         [] ir.kind = "store" -> result = Low(ir.size, before.mem[y], x)
         [] ir.kind = "cast" ->
              result = Word(IntOf(Type(ir.size, ir.unsigned), IntOf(ir.from, x)))
         [] ir.kind = "element" -> result = Word(x + y * ir.size)
         [] ir.kind = "field" -> result = Word(x + ir.size)

\* An instruction changes its destination, or the word it stores to, and no
\* other register the allocator hands out, no other slot and no other word.
OthersKept ==
  /\ \A p \in (Regs \cup Slots) \ {ir.dst} : store[p] = before.store[p]
  /\ store[zero] = 0
  /\ \A w \in Words :
       mem[w] # before.mem[w] => ir.kind = "store" /\ w = Read(before.store, ir.rhs)
=============================================================================
