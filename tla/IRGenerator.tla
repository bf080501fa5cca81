----------------------------- MODULE IRGenerator -----------------------------
(***************************************************************************)
(* IRGenerator in src/ir/ir_generator.cpp: the visitor that translates the *)
(* body of a checked function into blocks of instructions.                 *)
(*                                                                         *)
(* A handler is an operator on the context c (FunctionContext): Gen(c, id) *)
(* is the visit of a node, and what a helper returns is left in c.it.  A   *)
(* node is settled in one of three ways: constructed in the place its      *)
(* parent gave it (inplace_node_ptr_map), left in memory because its       *)
(* parent asked for its address (need_addr), or held in a register.        *)
(*                                                                         *)
(* A handler that throws an exception sets c.thrown.                       *)
(***************************************************************************)
EXTENDS TypeFiller

CONSTANTS
  FieldOrder,   \* struct -> its field names in the order of the declaration
  ConstValues   \* constant -> its value

VARIABLE ir     \* the function generated: [status, blocks]

NoReg == -1
RegOper(r, t) == <<"reg", r, t>>
Imm(n, t) == <<"imm", n, t>>
\* IR_string of a type: signs and mutability are gone, an int is an i32.
BitsOf(p) ==
  CASE p = "bool" -> 1 [] p \in {"i8", "u8"} -> 8 [] p \in {"i32", "u32", "int"} -> 32 [] OTHER -> 64
RECURSIVE IRString(_)
IRString(t) ==
  CASE IsPrime(t) -> <<"int", BitsOf(t[2])>>
    [] IsRef(t) -> <<"pointer", IRString(t[3])>>
    [] t[1] = "array" -> <<"array", t[2], IRString(t[3])>>
    [] OTHER -> t
Pointer(t) == Ref(TRUE, t)
Void(t) == t \in {Unit, Never}
Inst(op, dst, t, args, labels) == [op |-> op, dst |-> dst, type |-> t, args |-> args, labels |-> labels, callee |-> <<>>]

-----------------------------------------------------------------------------
\* FunctionContext.  Nothing is added after a jump until the next block starts.
Put(c, inst) ==
  IF c.unreachable THEN c
  ELSE [c EXCEPT !.blocks[Len(c.blocks)].insns = Append(@, inst)]
Do(c, op, t, args) == Put(c, Inst(op, NoReg, t, args, <<>>))
\* An instruction that writes a new register.
Emit(c, op, t, args) ==
  [Put(c, Inst(op, c.next, t, args, <<>>)) EXCEPT !.next = @ + 1, !.it = c.next]
Jump(c, label) == Put(c, Inst("br", NoReg, Unit, <<>>, <<label>>))
\* The condition is said to be an i32, and printed as an i1.
Fork(c, cond, yes, no) == Put(c, Inst("cbr", NoReg, Unit, <<RegOper(cond, Prime("i32"))>>, <<yes, no>>))
\* init_and_start_new_block
StartBlock_StillUnreachable(c, label) == [c EXCEPT !.blocks = Append(@, [label |-> label, insns |-> <<>>])]
StartBlock(c, label) ==
  [c EXCEPT !.unreachable = FALSE, !.blocks = Append(@, [label |-> label, insns |-> <<>>])]
Halt(c) == [c EXCEPT !.unreachable = TRUE]
CurrentLabel(c) == Last(c.blocks).label
Hint(c, kind) == [c EXCEPT !.hints[kind] = @ + 1]

Set(f, x, v) == [y \in DOMAIN f \cup {x} |-> IF y = x THEN v ELSE f[y]]
Unset1(f, x) == [y \in DOMAIN f \ {x} |-> f[y]]
Throw(c) == [c EXCEPT !.thrown = TRUE]
\* node_reg_map: at throws when the node has no register.
Record(c, id, r) == [c EXCEPT !.regs = Set(@, id, r)]
RegAt(c, id) == IF id \in DOMAIN c.regs THEN c.regs[id] ELSE NoReg
Needs(c, ids) == IF ids \subseteq DOMAIN c.regs THEN c ELSE Throw(c)
WantAddr(c, ids) == [c EXCEPT !.addr = @ \cup ids]
NeedAddr(c, id) == id \in c.addr \cup lside
InPlace(c, id, ptr) == [c EXCEPT !.inplace = Set(@, id, ptr)]

\* get_res_ptr_id, store_into_memory, load_from_memory, deep_copy.
ResPtr(c, id, t) ==
  IF id \in DOMAIN c.inplace THEN [c EXCEPT !.it = c.inplace[id]] ELSE Emit(c, "alloca", t, <<>>)
StoreTo(c, ptr, oper) == Do(c, "store", Unit, <<oper, RegOper(ptr, Pointer(oper[3]))>>)
StoreIntoMemory(c, id, r, t) == LET d == ResPtr(c, id, t) IN StoreTo(d, d.it, RegOper(r, t))
LoadFrom(c, ptr, t) == Emit(c, "load", t, <<RegOper(ptr, Pointer(t))>>)
DeepCopy(c, dst, src, t) ==
  IF dst = src THEN c
  ELSE IF Indirect(t)
  THEN Put(c, [Inst("call", NoReg, Unit, <<RegOper(dst, Pointer(t)), RegOper(src, Pointer(t)), Imm(0, Prime("i64"))>>, <<>>)
                 EXCEPT !.callee = <<t, "memcpy">>])
  ELSE LET d == LoadFrom(c, src, t) IN StoreTo(d, dst, RegOper(d.it, t))
\* clone_to_static: the space is allocated at the start of the entry block.
CloneToStatic_Shared(c, src, t) == [c EXCEPT !.it = src]
CloneToStatic(c, src, t) ==
  LET alloca == Inst("alloca", c.next, t, <<>>, <<>>)
      d == [c EXCEPT !.blocks[1].insns = InsertAt(@, c.statics + 1, alloca),
                     !.statics = @ + 1, !.next = @ + 1]
  IN [DeepCopy(d, c.next, src, t) EXCEPT !.it = c.next]
\* find_variable: <<address register, type>>, the innermost one.
Holding(c, name) == {k \in DOMAIN c.vars : name \in DOMAIN c.vars[k]}
FindVariable(c, name) == c.vars[CHOOSE k \in Holding(c, name) : \A j \in Holding(c, name) : j <= k][name]
Bound1(c, name, ptr, t) == [c EXCEPT !.vars[Len(c.vars)] = Set(@, name, <<ptr, t>>)]

\* The common end of the handlers of a value r, and of a place at ptr.
Settle(c, id, r, t) ==
  IF id \in DOMAIN c.inplace THEN StoreIntoMemory(c, id, r, t)
  ELSE IF NeedAddr(c, id) THEN LET d == StoreIntoMemory(c, id, r, t) IN Record(d, id, d.it)
  ELSE Record(c, id, r)
SettleFrom(c, id, ptr, t) ==
  IF id \in DOMAIN c.inplace THEN DeepCopy(c, c.inplace[id], ptr, t)
  ELSE IF NeedAddr(c, id) THEN Record(c, id, ptr)
  ELSE LET d == LoadFrom(c, ptr, t) IN Record(d, id, d.it)

-----------------------------------------------------------------------------
RECURSIVE Gen(_, _)
GenAll(c, ids) == FoldLeft(LAMBDA d, id : Gen(d, id), c, ids)
Kid(id, k) == nodes[id].kids[k]
IsLit(id) == nodes[id].kind = "literal"

\* postVisit(LiteralExpression): %x = add Ty 0, value.
GenLiteral(c, id) ==
  LET d == Emit(c, "add", types[id], <<Imm(0, types[id]), Imm(nodes[id].at[1], types[id])>>)
  IN Settle(d, id, d.it, types[id])

\* postVisit(PathInExpression): functions are left to the call, the values of
\* constants are put in, variables are read.
GenPath(c, id) ==
  LET name == nodes[id].at[1]
      t == types[id]
      value == Emit(c, "add", t, <<Imm(0, t), Imm(ConstValues[name], t)>>)
      ptr == FindVariable(c, name)[1]
  IN CASE t[1] = "function" -> c
       [] t[1] # "function" /\ Len(nodes[id].at) = 2 -> Throw(c)
       [] Holding(c, name) # {} ->
            IF id \in DOMAIN c.inplace \/ NeedAddr(c, id) THEN SettleFrom(c, id, ptr, t)
            ELSE LET d == LoadFrom(c, ptr, FindVariable(c, name)[2]) IN Record(d, id, d.it)
       [] Holding(c, name) = {} /\ name \in DOMAIN ConstValues -> Settle(value, id, value.it, t)
       [] OTHER -> c

\* Handlers that run after the visit of the children.
GenBorrow(c0, id) ==
  LET e == Kid(id, 1)
      c == Needs(Gen(WantAddr(c0, {e}), e), {e})
  IN Settle(c, id, RegAt(c, e), types[id])
GenDeref(c0, id) ==
  LET e == Kid(id, 1)
      c == Needs(Gen(c0, e), {e})
  IN SettleFrom(c, id, RegAt(c, e), types[id])
\* Equal IR types need no cast.
GenCast(c0, id) ==
  LET e == Kid(id, 1)
      c == Needs(Gen(c0, e), {e})
      d == Emit(c, "cast", types[id], <<RegOper(RegAt(c, e), types[e])>>)
  IN IF IRString(types[e]) = IRString(types[id]) THEN Settle(c, id, RegAt(c, e), types[id])
     ELSE Settle(d, id, d.it, types[id])
\* !v is v == 0, brought back to the type of v; -v is 0 - v.
GenNegation(c0, id) ==
  LET e == Kid(id, 1)
      t == types[e]
      c == Needs(Gen(c0, e), {e})
      not == Emit(c, "icmp eq", t, <<RegOper(RegAt(c, e), t), Imm(0, t)>>)
      d == IF nodes[id].at = "-" THEN Emit(c, "sub", t, <<Imm(0, t), RegOper(RegAt(c, e), t)>>)
           ELSE IF t = Bool THEN not
           ELSE Emit(not, "cast", t, <<RegOper(not.it, Bool)>>)
  IN Settle(d, id, d.it, t)
GenGrouped(c0, id) ==
  LET e == Kid(id, 1)
      placed == IF id \in DOMAIN c0.inplace THEN InPlace(c0, e, c0.inplace[id]) ELSE c0
      c == Gen(IF NeedAddr(c0, id) THEN WantAddr(placed, {e}) ELSE placed, e)
  IN IF id \in DOMAIN c0.inplace THEN c ELSE Record(Needs(c, {e}), id, RegAt(c, e))

-----------------------------------------------------------------------------
\* The instruction of an operator.  Division, remainder and the shift to the
\* right depend on the sign of the type of the left operand.
ArithOp(op, t) ==
  CASE op = "+" -> "add" [] op = "-" -> "sub" [] op = "*" -> "mul" [] op = "&" -> "and"
    [] op = "|" -> "or" [] op = "^" -> "xor" [] op = "<<" -> "shl"
    [] op = "/" -> IF IsUnsigned(t) THEN "udiv" ELSE "sdiv"
    [] op = "%" -> IF IsUnsigned(t) THEN "urem" ELSE "srem"
    [] op = ">>" -> IF IsUnsigned(t) THEN "lshr" ELSE "ashr"
CompareOp(op, t) ==
  CASE op = "==" -> "icmp eq" [] op = "!=" -> "icmp ne"
    [] op = "<" -> IF IsUnsigned(t) THEN "icmp ult" ELSE "icmp slt"
    [] op = "<=" -> IF IsUnsigned(t) THEN "icmp ule" ELSE "icmp sle"
    [] op = ">" -> IF IsUnsigned(t) THEN "icmp ugt" ELSE "icmp sgt"
    [] op = ">=" -> IF IsUnsigned(t) THEN "icmp uge" ELSE "icmp sge"

\* A literal operand is an immediate and is not visited; it must be a number.
Operand(c, e) ==
  IF ~IsLit(e) THEN Needs(Gen(c, e), {e})
  ELSE IF nodes[e].at[2] = "bool" THEN Throw(c) ELSE c
OperandOf(c, e, t) == IF IsLit(e) THEN Imm(nodes[e].at[1], t) ELSE RegOper(RegAt(c, e), t)
GenArith(c0, id) ==
  LET a == Kid(id, 1)
      b == Kid(id, 2)
      t == types[id]
      c == Operand(Operand(c0, a), b)
      d == Emit(c, ArithOp(nodes[id].at, types[a]), t, <<OperandOf(c, a, t), OperandOf(c, b, t)>>)
  IN IF IsPrime(types[a]) /\ IsPrime(types[b]) THEN Settle(d, id, d.it, t) ELSE Throw(c)
GenComparison(c0, id) ==
  LET a == Kid(id, 1)
      b == Kid(id, 2)
      t == types[a]
      c == Needs(Gen(Gen(c0, a), b), {a, b})
      d == Emit(c, CompareOp(nodes[id].at, t), t, <<RegOper(RegAt(c, a), t), RegOper(RegAt(c, b), t)>>)
  IN Settle(d, id, d.it, Bool)

\* The left value is loaded, as the type of the right one, before the right
\* one is computed.
GenCompound(c0, id) ==
  LET a == Kid(id, 1)
      b == Kid(id, 2)
      t == types[b]
      leftType == IF IsRef(types[a]) THEN types[a][3] ELSE types[a]
      left == Needs(Gen(c0, a), {a})
      ptr == RegAt(left, a)
      old == LoadFrom(left, ptr, t)
      c == Operand(old, b)
      d == Emit(c, ArithOp(nodes[id].at, leftType), t, <<RegOper(old.it, t), OperandOf(c, b, t)>>)
  IN IF IsPrime(leftType) /\ IsPrime(t) THEN StoreTo(d, ptr, RegOper(d.it, t)) ELSE Throw(c)
GenAssign(c0, id) ==
  LET a == Kid(id, 1)
      b == Kid(id, 2)
      c == Needs(Gen(Gen(WantAddr(c0, {b}), a), b), {a, b})
  IN DeepCopy(c, RegAt(c, a), RegAt(c, b), types[b])

\* A let allocates a place and has its value constructed there; a name bound
\* by reference gets a place for the pointer.
GenLet(c0, id) ==
  LET e == Kid(id, 1)
      pattern == nodes[id].at[1]
      t == IF nodes[id].at[2] # <<>> THEN nodes[id].at[2] ELSE types[e]
      place == Emit(c0, "alloca", t, <<>>)
      c == Gen(InPlace(place, e, place.it), e)
      d == StoreIntoMemory(c, id, place.it, Pointer(t))
  IN CASE pattern[1] = "name" -> Bound1(c, pattern[2][1], place.it, t)
       [] pattern[1] = "nameref" -> Bound1(d, pattern[2][1], d.it, Pointer(t))
       [] OTHER -> Throw(c0)

-----------------------------------------------------------------------------
\* Through references to the object itself: the loads of the loops in the
\* handlers of IndexExpression and FieldExpression.
RECURSIVE AutoDeref(_, _, _)
AutoDeref(c, ptr, t) ==
  IF IsRef(t) THEN LET d == LoadFrom(c, ptr, t) IN AutoDeref(d, d.it, t[3]) ELSE [c EXCEPT !.it = ptr]
RECURSIVE Object(_)
Object(t) == IF IsRef(t) THEN Object(t[3]) ELSE t

GenIndex(c0, id) ==
  LET e == Kid(id, 1)
      i == Kid(id, 2)
      c == Needs(GenAll(WantAddr(c0, {e}), <<e, i>>), {e, i})
      array == Object(types[e])
      at == AutoDeref(c, RegAt(c, e), types[e])
      d == Emit(at, "gep", array, <<RegOper(at.it, Pointer(array)), Imm(0, Prime("i32")), RegOper(RegAt(c, i), types[i])>>)
  IN SettleFrom(d, id, d.it, types[id])
FieldIndex(s, f) == SelectInSeq(FieldOrder[s], LAMBDA g : g = f)
FieldType(s, f) == Structs[s][f]
GenField(c0, id) ==
  LET e == Kid(id, 1)
      c == Needs(Gen(WantAddr(c0, {e}), e), {e})
      struct == Object(types[e])
      at == AutoDeref(c, RegAt(c, e), types[e])
      d == Emit(at, "gep", struct, <<RegOper(at.it, Pointer(struct)), Imm(0, Prime("i32")),
                                     Imm(FieldIndex(struct[2], nodes[id].at) - 1, Prime("i32"))>>)
  IN SettleFrom(d, id, d.it, FieldType(struct[2], nodes[id].at))

\* The parts of an object at ptr, each constructed in its place.
GenParts(c0, ptr, t, parts) ==
  FoldLeft(LAMBDA c, k :
             LET d == Emit(c, "gep", t, <<RegOper(ptr, Pointer(t)), Imm(0, Prime("i32")), Imm(k - 1, Prime("i32"))>>)
                 done == Gen(InPlace(d, parts[k], d.it), parts[k])
             IN [done EXCEPT !.inplace = Unset1(@, parts[k])],
           c0, [k \in DOMAIN parts |-> k])
\* The fields of a struct in the order of its declaration.
GenStruct(c0, id) ==
  LET t == types[id]
      given == nodes[id].at
      c == ResPtr(c0, id, t)
      InOrder == [k \in DOMAIN FieldOrder[t[2]] |->
                    Kid(id, 1 + SelectInSeq(given, LAMBDA f : f = FieldOrder[t[2]][k]))]
  IN Record(GenParts(c, c.it, t, InOrder), id, c.it)
GenArray(c0, id) ==
  LET c == ResPtr(c0, id, types[id])
  IN Record(GenParts(c, c.it, types[id], nodes[id].kids), id, c.it)

\* [value; n]: a loop that copies the value to every element.
GenRepeated(c0, id) ==
  LET e == Kid(id, 1)
      t == types[id]
      I32 == Prime("i32")
      arr == ResPtr(c0, id, t)
      valued == Needs(Gen(WantAddr(arr, {e}), e), {e})
      tag == valued.hints["array"]
      L(part) == <<"array." \o part, tag>>
      first == Emit(Hint(valued, "array"), "gep", t, <<RegOper(arr.it, Pointer(t)), Imm(0, I32), Imm(0, I32)>>)
      cnt == Emit(first, "alloca", I32, <<>>)
      cond == StartBlock(Jump(StoreTo(cnt, cnt.it, Imm(0, I32)), L("cond")), L("cond"))
      now == LoadFrom(cond, cnt.it, I32)
      more == Emit(now, "icmp slt", I32, <<RegOper(now.it, I32), Imm(t[2], I32)>>)
      body == StartBlock(Fork(more, more.it, L("body"), L("exit")), L("body"))
      elem == Emit(body, "gep", t[3], <<RegOper(first.it, Pointer(t[3])), RegOper(now.it, I32)>>)
      copied == DeepCopy(elem, elem.it, RegAt(valued, e), t[3])
      next == Emit(copied, "add", I32, <<RegOper(now.it, I32), Imm(1, I32)>>)
      back == Jump(StoreTo(next, cnt.it, RegOper(next.it, I32)), L("cond"))
  IN Record(StartBlock(back, L("exit")), id, arr.it)

-----------------------------------------------------------------------------
\* Arguments passed by address are cloned for the callee; of a method, as the
\* type of the caller.
PassAll(c0, ids, params, copies) ==
  FoldLeft(LAMBDA ca, k :
             LET p == params[k]
                 d == CloneToStatic(ca[1], RegAt(ca[1], ids[k]), copies[k])
             IN IF Indirect(p) THEN <<d, Append(ca[2], RegOper(d.it, Pointer(p)))>>
                ELSE <<ca[1], Append(ca[2], RegOper(RegAt(ca[1], ids[k]), p))>>,
           <<c0, <<>>>>, [k \in DOMAIN params |-> k])
CallInst(f, dst, t, args) == [Inst("call", dst, t, args, <<>>) EXCEPT !.callee = f]
\* sret: the place for a result passed by address, as first argument.
Sret(c, id, ret) == IF Indirect(ret) THEN ResPtr(c, id, ret) ELSE [c EXCEPT !.it = NoReg]
SretArgs(ptr, ret) == IF Indirect(ret) THEN <<RegOper(ptr, Pointer(ret))>> ELSE <<>>
IndirectOnes(ids) == {k \in ToSet(ids) : Indirect(types[k])}
\* The call itself: its result is void, in a register, or in place.
Called(c, id, f, dst, ptr, ret, args) ==
  CASE Indirect(ret) -> Record(Put(c, CallInst(f, NoReg, Unit, args)), id, ptr)
    [] Void(ret) -> Put(c, CallInst(f, NoReg, ret, args))
    [] OTHER -> Settle(Put(c, CallInst(f, dst, ret, args)), id, dst, ret)

GenCall(c0, id) ==
  LET ids == Tail(nodes[id].kids)
      c == Needs(GenAll(WantAddr(c0, IndirectOnes(ids)), nodes[id].kids), ToSet(ids))
      f == types[Kid(id, 1)][2]
      ret == Functions[f].ret
      s == Sret(c, id, ret)
      passed == PassAll(s, ids, Functions[f].params, Functions[f].params)
      d == IF Indirect(ret) \/ Void(ret) THEN passed[1] ELSE [passed[1] EXCEPT !.next = @ + 1]
  IN Called(d, id, f, passed[1].next, s.it, ret, SretArgs(s.it, ret) \o passed[2])

\* The caller of a method is a place.  A method of its own type takes it from
\* there, one of the type it refers to takes what it points to; self passed by
\* value is cloned or loaded.
GenMethod(c0, id) ==
  LET caller == Kid(id, 1)
      ids == Tail(nodes[id].kids)
      c == Needs(GenAll(WantAddr(c0, IndirectOnes(ids)), nodes[id].kids), ToSet(nodes[id].kids))
      t == Determined(types[caller])
      f == MethodOf(t, nodes[id].at)
      behind == f[1] # t
      self == Functions[f].self
      ret == Functions[f].ret
      ty == f[1]
      s == Sret(c, id, ret)
      \* An element is taken where it is even when it is a reference.
      followed == IF behind /\ nodes[caller].kind # "index" THEN LoadFrom(s, RegAt(c, caller), Pointer(ty))
                  ELSE [s EXCEPT !.it = RegAt(c, caller)]
      taken == IF IsRef(self) THEN followed
               ELSE IF Indirect(ty) THEN CloneToStatic(followed, followed.it, ty)
               ELSE LoadFrom(followed, followed.it, ty)
      selfArg == RegOper(taken.it, IF ~IsRef(self) /\ Indirect(ty) THEN Pointer(self) ELSE self)
      start == IF self = NoType THEN s ELSE taken
      valued == ~Indirect(ret) /\ ~Void(ret)
      d == IF valued THEN [start EXCEPT !.next = @ + 1] ELSE start
      passed == PassAll(d, ids, Functions[f].params, [k \in DOMAIN ids |-> ty])
  IN Called(passed[1], id, f, start.next, s.it, ret,
            SretArgs(s.it, ret) \o (IF self = NoType THEN <<>> ELSE <<selfArg>>) \o passed[2])

-----------------------------------------------------------------------------
\* A block has the value of its tail, when the tail has one.
GenBlock(c0, id) ==
  LET n == nodes[id]
      c == GenAll([c0 EXCEPT !.vars = Append(@, <<>>)], n.kids)
      valued == TailOf(n) # {} /\ Last(n.kids) \in DOMAIN c.regs
      d == IF valued THEN Settle(c, id, RegAt(c, Last(n.kids)), types[id]) ELSE c
  IN [d EXCEPT !.vars = Front(@)]

\* The value of an if is a phi when both branches have one, else that of the
\* branch that has one.
GenIf(c0, id) ==
  LET kids == nodes[id].kids
      L(part) == <<"if." \o part, c0.hints["if"]>>
      c == Needs(Gen(Hint(c0, "if"), kids[1]), {kids[1]})
      then == Gen(StartBlock(Fork(c, RegAt(c, kids[1]), L("then"), L("else")), L("then")), kids[2])
      else0 == StartBlock(Jump(then, L("exit")), L("else"))
      else == IF Len(kids) = 3 THEN Gen(else0, kids[3]) ELSE else0
      exit == StartBlock(Jump(else, L("exit")), L("exit"))
      a == RegAt(then, kids[2])
      b == IF Len(kids) = 3 THEN RegAt(else, kids[3]) ELSE NoReg
      d == [exit EXCEPT !.next = @ + 1]
      phi == Inst("phi", exit.next, types[id], <<RegOper(a, types[id]), RegOper(b, types[id])>>,
                  <<CurrentLabel(then), CurrentLabel(else)>>)
  IN CASE a = NoReg /\ b = NoReg -> exit
       [] a # NoReg /\ b # NoReg -> Settle(Put(d, phi), id, exit.next, types[id])
       [] OTHER -> Settle(d, id, IF a # NoReg THEN a ELSE b, types[id])

GenWhile(c0, id) ==
  LET kids == nodes[id].kids
      L(part) == <<"while." \o part, c0.hints["while"]>>
      head == StartBlock(Jump(Hint(c0, "while"), L("cond")), L("cond"))
      c == Needs(Gen(head, kids[1]), {kids[1]})
      inside == [c EXCEPT !.loops = Append(@, [jump |-> L("cond"), exit |-> L("exit"), res |-> NoReg])]
      body == Gen(StartBlock(Fork(inside, RegAt(c, kids[1]), L("body"), L("exit")), L("body")), kids[2])
      exit == StartBlock(Jump(body, L("cond")), L("exit"))
  IN [exit EXCEPT !.loops = Front(@)]

\* A loop that has a value has a place its breaks store it in.
GenLoop(c0, id) ==
  LET t == types[id]
      L(part) == <<"loop." \o part, c0.hints["loop"]>>
      c == IF Void(t) THEN [Hint(c0, "loop") EXCEPT !.it = NoReg] ELSE ResPtr(Hint(c0, "loop"), id, t)
      head == StartBlock(Jump(c, L("body")), L("body"))
      inside == [head EXCEPT !.loops = Append(@, [jump |-> L("body"), exit |-> L("exit"), res |-> c.it])]
      exit == StartBlock(Jump(Gen(inside, Kid(id, 1)), L("body")), L("exit"))
      d == IF Void(t) THEN exit ELSE SettleFrom(exit, id, c.it, t)
  IN [d EXCEPT !.loops = Front(@)]

GenBreak(c0, id) ==
  LET kids == nodes[id].kids
      c == Needs(GenAll(c0, kids), ToSet(kids))
      stored == IF kids = <<>> THEN c
                ELSE StoreTo(c, Last(c.loops).res, RegOper(RegAt(c, kids[1]), types[kids[1]]))
  IN Halt(Jump(stored, Last(c.loops).exit))
GenContinue(c, id) == Halt(Jump(c, Last(c.loops).jump))
HasSret == Indirect(program.ret)
GenReturn(c0, id) ==
  LET kids == nodes[id].kids
      c == Needs(GenAll(IF HasSret THEN WantAddr(c0, ToSet(kids)) ELSE c0, kids), ToSet(kids))
      value == RegAt(c, kids[1])
      d == IF kids = <<>> THEN Do(c, "ret", Unit, <<>>)
           ELSE IF HasSret THEN Do(DeepCopy(c, 0, value, types[kids[1]]), "ret", Unit, <<>>)
           ELSE Do(c, "ret", Unit, <<RegOper(value, types[kids[1]])>>)
  IN Halt(d)

\* a && b is the phi of b and 0, a || b the phi of 1 and b.
GenLazy(c0, id) ==
  LET a == Kid(id, 1)
      b == Kid(id, 2)
      and == nodes[id].at = "&&"
      c == Needs(Gen(c0, a), {a})
      L(part) == <<"lazy." \o part, c.hints["lazy"]>>
      start == StartBlock(Fork(Hint(c, "lazy"), RegAt(c, a), L("then"), L("else")), L("then"))
      then == IF and THEN Needs(Gen(start, b), {b}) ELSE start
      else0 == StartBlock(Jump(then, L("exit")), L("else"))
      else == IF and THEN else0 ELSE Needs(Gen(else0, b), {b})
      exit == StartBlock(Jump(else, L("exit")), L("exit"))
      value == RegOper(RegAt(else, b), Bool)
      phi == Inst("phi", exit.next, Bool, IF and THEN <<value, Imm(0, Bool)>> ELSE <<Imm(1, Bool), value>>,
                  <<CurrentLabel(then), CurrentLabel(else)>>)
      d == [Put(exit, phi) EXCEPT !.next = @ + 1]
  IN Settle(d, id, exit.next, Bool)

Gen(c, id) ==
  LET kind == nodes[id].kind
  IN CASE kind = "literal" -> GenLiteral(c, id)
       [] kind = "path" -> GenPath(c, id)
       [] kind = "borrow" -> GenBorrow(c, id)
       [] kind = "deref" -> GenDeref(c, id)
       [] kind = "negation" -> GenNegation(c, id)
       [] kind = "arith" -> GenArith(c, id)
       [] kind = "comparison" -> GenComparison(c, id)
       [] kind = "lazy" -> GenLazy(c, id)
       [] kind = "cast" -> GenCast(c, id)
       [] kind = "assign" -> GenAssign(c, id)
       [] kind = "compound" -> GenCompound(c, id)
       [] kind = "grouped" -> GenGrouped(c, id)
       [] kind = "array" -> GenArray(c, id)
       [] kind = "repeated" -> GenRepeated(c, id)
       [] kind = "index" -> GenIndex(c, id)
       [] kind = "struct" -> GenStruct(c, id)
       [] kind = "call" -> GenCall(c, id)
       [] kind = "method" -> GenMethod(c, id)
       [] kind = "field" -> GenField(c, id)
       [] kind = "continue" -> GenContinue(c, id)
       [] kind = "break" -> GenBreak(c, id)
       [] kind = "return" -> GenReturn(c, id)
       [] kind = "block" -> GenBlock(c, id)
       [] kind = "loop" -> GenLoop(c, id)
       [] kind = "while" -> GenWhile(c, id)
       [] kind = "if" -> GenIf(c, id)
       [] kind = "let" -> GenLet(c, id)
       \* A tuple has no handler of its own.
       [] OTHER -> GenAll(c, nodes[id].kids)
-----------------------------------------------------------------------------
\* preVisit(Function): the result place, self and the parameters are the first
\* registers; those not passed by address are stored.  A result passed by
\* address is constructed where the caller wants it.
ParamNames == (IF program.self = "none" THEN <<>> ELSE <<Name("self", FALSE)>>) \o [k \in DOMAIN program.params |-> program.params[k][1]]
ParamTypes == (IF program.self = "none" THEN <<>> ELSE <<SelfType>>) \o [k \in DOMAIN program.params |-> program.params[k][2]]
FirstParam == IF HasSret THEN 1 ELSE 0
EnterFunction ==
  LET empty == [next |-> FirstParam + Len(ParamTypes), it |-> NoReg, statics |-> 0, unreachable |-> FALSE,
                hints |-> [h \in {"array", "if", "while", "loop", "lazy"} |-> 0],
                blocks |-> <<[label |-> <<"entry", 0>>, insns |-> <<>>]>>,
                regs |-> <<>>, inplace |-> <<>>, addr |-> {}, vars |-> <<<<>>>>, loops |-> <<>>, thrown |-> FALSE]
      Param(c, k) ==
        LET reg == FirstParam + k - 1
            t == ParamTypes[k]
            d == Emit(c, "alloca", t, <<>>)
        IN CASE ParamNames[k][1] \notin {"name", "nameref"} -> Throw(c)
             [] ParamNames[k][1] \in {"name", "nameref"} /\ Indirect(t) -> Bound1(c, ParamNames[k][2][1], reg, t)
             [] OTHER -> Bound1(StoreTo(d, d.it, RegOper(reg, t)), ParamNames[k][2][1], d.it, t)
      entered == FoldLeft(Param, empty, [k \in DOMAIN ParamTypes |-> k])
  IN IF HasSret /\ TailOf(nodes[1]) # {} THEN InPlace(entered, Last(nodes[1].kids), 0) ELSE entered
\* postVisit(Function): the value of the tail is returned, unless it is void or
\* already in place.
LeaveFunction(c) ==
  LET tail == Last(nodes[1].kids)
      valued == TailOf(nodes[1]) # {} /\ ~Void(types[tail])
  IN CASE 1 \in always -> Do(c, "unreachable", Unit, <<>>)
       [] 1 \notin always /\ (~valued \/ tail \in DOMAIN c.inplace) -> Do(c, "ret", Unit, <<>>)
       [] OTHER -> Do(Needs(c, {tail}), "ret", Unit, <<RegOper(RegAt(c, tail), types[tail])>>)

Generate ==
  /\ verdict = "accepted" /\ ir.status = "none"
  /\ LET c == LeaveFunction(GenAll(EnterFunction, nodes[1].kids))
     IN ir' = [status |-> IF c.thrown THEN "thrown" ELSE "done", blocks |-> c.blocks]
  /\ UNCHANGED vars

CompileInit == Init /\ ir = [status |-> "none", blocks |-> <<>>]
CompileNext == Generate \/ (Next /\ UNCHANGED ir)
CompileSpec == CompileInit /\ [][CompileNext]_<<vars, ir>>
=============================================================================
