------------------------------- MODULE Meaning -------------------------------
(***************************************************************************)
(* What a function does, twice: by evaluating its tree (Eval), and by      *)
(* executing the blocks IRGenerator made of it (Step).  Both work on a     *)
(* memory of cells and call the functions outside through Apply.           *)
(***************************************************************************)
EXTENDS IRGenerator, LanguageRules, Bitwise

CONSTANTS
  Apply(_, _, _),  \* Apply(<<type, name>>, arguments, memory): what a call of a
                   \* function outside does: [mem, out, val]
  Sample(_),       \* an argument to run the function with, for each integer type
  Fuel             \* bound on the turns of a loop, and on the steps of a run

\* Scaled widths of the integers, and the value of a bit pattern.
Width(t) == CASE t = Bool -> 1 [] IsRef(t) -> 1 [] OTHER -> CASE BitsOf(t[2]) = 8 -> 8 [] BitsOf(t[2]) = 32 -> 12 [] OTHER -> 14
SignedOf(x, w) == IF x >= 2 ^ (w - 1) THEN x - 2 ^ w ELSE x
ValueOf(t, x) == IF IsUnsigned(t) \/ t = Bool THEN x ELSE SignedOf(x, Width(t))
Pattern(t, v) == v % (2 ^ Width(t))
\* A shift by the width or more leaves nothing.
Power(y) == 2 ^ (IF y > 14 THEN 14 ELSE y)
AbsOf(x) == IF x < 0 THEN -x ELSE x
Quotient(x, y) == IF (x < 0) = (y < 0) THEN AbsOf(x) \div AbsOf(y) ELSE -(AbsOf(x) \div AbsOf(y))

RECURSIVE Cells(_)
Total(ns) == FoldSeq(LAMBDA m, n : m + n, 0, ns)
FieldTypesOf(s) == [k \in DOMAIN FieldOrder[s] |-> Structs[s][FieldOrder[s][k]]]
Cells(t) ==
  CASE IsPrime(t) \/ IsRef(t) -> 1
    [] t[1] = "array" -> t[2] * Cells(t[3])
    [] t[1] = "struct" -> Total([k \in DOMAIN FieldOrder[t[2]] |-> Cells(FieldTypesOf(t[2])[k])])
    [] OTHER -> 0
\* The cells before part k, counted from 0, of an object.
Before(t, k) ==
  IF t[1] = "array" THEN k * Cells(t[3])
  ELSE Total([j \in 1..k |-> Cells(FieldTypesOf(t[2])[j])])

IntCell(n) == <<"int", n>>
PtrCell(a) == <<"ptr", a>>
NoCell == <<"none", 0>>
Num(v) == v[1][2]
ReadAt(mem, a, n) == [k \in 1..n |-> mem[a + k - 1]]
WriteAt(mem, a, v) == [k \in DOMAIN mem |-> IF k \in a..(a + Len(v) - 1) THEN v[k - a + 1] ELSE mem[k]]

\* The arguments of a run: integers by value, the rest by the address of a
\* sample; the place for the result comes first.
RECURSIVE SampleCells(_)
SampleCells(t) ==
  CASE IsPrime(t) -> <<IntCell(Sample(t))>>
    [] t[1] = "array" -> FlattenSeq([k \in 1..t[2] |-> SampleCells(t[3])])
    [] t[1] = "struct" -> FlattenSeq([k \in DOMAIN FieldOrder[t[2]] |-> SampleCells(FieldTypesOf(t[2])[k])])
    [] OTHER -> <<>>
Arguments0 ==
  FoldLeft(LAMBDA ma, t :
             IF IsRef(t) \/ Indirect(t)
             THEN [mem |-> ma.mem \o SampleCells(IF IsRef(t) THEN t[3] ELSE t),
                   args |-> Append(ma.args, <<PtrCell(Len(ma.mem) + 1)>>)]
             ELSE [ma EXCEPT !.args = Append(@, SampleCells(t))],
           [mem |-> IF HasSret THEN [k \in 1..Cells(program.ret) |-> NoCell] ELSE <<>>, args |-> <<>>],
           ParamTypes)

-----------------------------------------------------------------------------
\* The tree.  s holds the memory, what was printed, the places of the names in
\* scope, whether control goes on ("next") or jumps, and the value last computed.
RECURSIVE Eval(_, _), PlaceOf(_, _), Repeat(_, _)
On(s, F(_)) == IF s.ctl = "next" THEN F(s) ELSE s
Val(s, v) == IF s.ctl = "next" THEN [s EXCEPT !.val = v] ELSE s
New(s, v) == IF s.ctl = "next" THEN [s EXCEPT !.mem = @ \o v, !.val = <<PtrCell(Len(s.mem) + 1)>>] ELSE s
At(s) == s.val[1][2]
Fetch(s, t) == IF s.ctl = "next" THEN [s EXCEPT !.val = ReadAt(s.mem, At(s), Cells(t))] ELSE s
\* The values of several nodes, one after the other: <<state, values>>.
EvalAll(s, ids) ==
  FoldLeft(LAMBDA sv, id : LET u == Eval(sv[1], id) IN <<u, Append(sv[2], u.val)>>, <<s, <<>>>>, ids)
PlaceOfName(s, name) ==
  s.env[CHOOSE k \in DOMAIN s.env : name \in DOMAIN s.env[k] /\ \A j \in DOMAIN s.env : name \in DOMAIN s.env[j] => j <= k][name]

RECURSIVE Follow(_, _)
Follow(s, t) == IF IsRef(t) THEN Follow(Fetch(s, t), t[3]) ELSE s
\* The address of the object e is, or refers to.
ObjectPlace(s, e) == IF IsRef(types[e]) THEN On(Eval(s, e), LAMBDA u : Follow(u, types[e][3])) ELSE PlaceOf(s, e)
Shift(s, n) == IF s.ctl = "next" THEN [s EXCEPT !.val = <<PtrCell(At(s) + n)>>] ELSE s
PlaceOf(s, id) ==
  LET n == nodes[id]
      e == n.kids[1]
      \* An index beyond the array stops the program.
      Element(u) ==
        On(Eval(u, n.kids[2]), LAMBDA v :
          IF Num(v.val) >= Object(types[e])[2] THEN [v EXCEPT !.ctl = "panic"]
          ELSE [v EXCEPT !.val = <<PtrCell(At(u) + Before(Object(types[e]), Num(v.val)))>>])
  IN CASE s.ctl # "next" -> s
       [] s.ctl = "next" /\ n.kind = "path" /\ n.at[1] \notin DOMAIN ConstValues -> Val(s, <<PtrCell(PlaceOfName(s, n.at[1]))>>)
       [] s.ctl = "next" /\ n.kind = "deref" -> Eval(s, e)
       [] s.ctl = "next" /\ n.kind = "grouped" -> PlaceOf(s, e)
       [] s.ctl = "next" /\ n.kind = "field" ->
            Shift(ObjectPlace(s, e), Before(Object(types[e]), FieldIndex(Object(types[e])[2], n.at) - 1))
       [] s.ctl = "next" /\ n.kind = "index" -> On(ObjectPlace(s, e), Element)
       [] OTHER -> LET u == Eval(s, id) IN New(u, u.val)

Compute(op, t, x, y) ==
  LET a == ValueOf(t, x)
      b == ValueOf(t, y)
  IN Pattern(t, CASE op = "+" -> a + b [] op = "-" -> a - b [] op = "*" -> a * b
                  [] op = "/" -> Quotient(a, b) [] op = "%" -> a - b * Quotient(a, b)
                  [] op = "&" -> x & y [] op = "|" -> x | y [] op = "^" -> x ^^ y
                  [] op = "<<" -> a * Power(y) [] op = ">>" -> a \div Power(y))
\* Dividing by zero stops the program.
Computed(s, op, t, x, y) ==
  IF op \in {"/", "%"} /\ y = 0 THEN [s EXCEPT !.ctl = "panic"] ELSE Val(s, <<IntCell(Compute(op, t, x, y))>>)
Compare(op, t, x, y) ==
  LET a == ValueOf(t, x)
      b == ValueOf(t, y)
  IN CASE op = "==" -> x = y [] op = "!=" -> x # y [] op = "<" -> a < b [] op = "<=" -> a <= b
       [] op = ">" -> a > b [] op = ">=" -> a >= b
Truth(b) == <<IntCell(IF b THEN 1 ELSE 0)>>

\* A call: objects are passed as copies, by their addresses.
Invoke(s, f, selfArg, vals, params, ret) ==
  LET passed == FoldLeft(LAMBDA sa, k :
                  IF Indirect(params[k]) THEN LET u == New(sa[1], vals[k]) IN <<u, Append(sa[2], u.val[1])>>
                  ELSE <<sa[1], Append(sa[2], vals[k][1])>>, <<s, selfArg>>, [k \in DOMAIN params |-> k])
      placed == New(passed[1], [k \in 1..Cells(ret) |-> NoCell])
      args == IF Indirect(ret) THEN placed.val \o passed[2] ELSE passed[2]
      done == Apply(f, args, placed.mem)
  IN IF s.ctl # "next" THEN s
     ELSE [placed EXCEPT !.mem = done.mem, !.out = @ \o done.out,
             !.val = IF Indirect(ret) THEN ReadAt(done.mem, At(placed), Cells(ret)) ELSE done.val]

Leave(s, depth) == [s EXCEPT !.env = SubSeq(@, 1, depth)]
\* A loop goes round until a jump leaves it; a break leaves its value.
Repeat(s, id) ==
  LET n == nodes[id]
      block == Last(n.kids)
      tested == IF n.kind = "while" THEN Eval(s, n.kids[1]) ELSE Val(s, Truth(TRUE))
      turn == Eval(tested, block)
  IN CASE s.fuel = 0 -> [s EXCEPT !.ctl = "more"]
       [] s.fuel > 0 /\ tested.ctl = "next" /\ Num(tested.val) = 0 -> Val(tested, <<>>)
       [] s.fuel > 0 /\ tested.ctl = "next" /\ Num(tested.val) = 1 ->
            CASE turn.ctl = "break" -> [turn EXCEPT !.ctl = "next"]
              [] turn.ctl \in {"next", "continue"} -> Repeat([turn EXCEPT !.ctl = "next", !.fuel = @ - 1], id)
              [] OTHER -> turn
       [] OTHER -> tested

Eval(s, id) ==
  LET n == nodes[id]
      t == types[id]
      Sub(k) == n.kids[k]
      one == Eval(s, Sub(1))
      two == Eval(one, Sub(2))
  IN
  CASE s.ctl # "next" -> s
    [] s.ctl = "next" /\ n.kind = "literal" -> Val(s, <<IntCell(Pattern(t, n.at[1]))>>)
    [] s.ctl = "next" /\ n.kind = "path" ->
         IF n.at[1] \in DOMAIN ConstValues THEN Val(s, <<IntCell(Pattern(t, ConstValues[n.at[1]]))>>)
         ELSE IF t[1] = "function" THEN s ELSE Fetch(PlaceOf(s, id), t)
    [] s.ctl = "next" /\ n.kind \in {"deref", "index", "field"} -> Fetch(PlaceOf(s, id), t)
    [] s.ctl = "next" /\ n.kind = "borrow" -> PlaceOf(s, Sub(1))
    [] s.ctl = "next" /\ n.kind = "grouped" -> one
    [] s.ctl = "next" /\ n.kind = "negation" ->
         Val(one, IF n.at = "-" THEN <<IntCell(Pattern(t, -Num(one.val)))>> ELSE Truth(Num(one.val) = 0))
    [] s.ctl = "next" /\ n.kind = "arith" -> On(two, LAMBDA u : Computed(u, n.at, types[Sub(1)], Num(one.val), Num(u.val)))
    [] s.ctl = "next" /\ n.kind = "comparison" -> Val(two, Truth(Compare(n.at, types[Sub(1)], Num(one.val), Num(two.val))))
    [] s.ctl = "next" /\ n.kind = "lazy" ->
         IF one.ctl = "next" /\ (Num(one.val) = 1) = (n.at = "&&") THEN two ELSE one
    [] s.ctl = "next" /\ n.kind = "cast" -> Val(one, <<IntCell(Pattern(t, ValueOf(types[Sub(1)], Num(one.val))))>>)
    [] s.ctl = "next" /\ n.kind = "assign" ->
         On(Eval(s, Sub(2)), LAMBDA v :
           On(PlaceOf(v, Sub(1)), LAMBDA u : [u EXCEPT !.mem = WriteAt(@, At(u), v.val), !.val = <<>>]))
    [] s.ctl = "next" /\ n.kind = "compound" ->
         On(Eval(s, Sub(2)), LAMBDA v :
           On(PlaceOf(v, Sub(1)), LAMBDA u :
             On(Computed(u, n.at, types[Sub(1)], u.mem[At(u)][2], Num(v.val)), LAMBDA w :
               [w EXCEPT !.mem = WriteAt(@, At(u), w.val), !.val = <<>>])))
    [] s.ctl = "next" /\ n.kind = "array" -> LET sv == EvalAll(s, n.kids) IN Val(sv[1], FlattenSeq(sv[2]))
    [] s.ctl = "next" /\ n.kind = "repeated" -> Val(one, FlattenSeq([k \in 1..t[2] |-> one.val]))
    [] s.ctl = "next" /\ n.kind = "struct" ->
         LET sv == EvalAll(s, Tail(n.kids))
         IN Val(sv[1], FlattenSeq([k \in DOMAIN FieldOrder[t[2]] |-> sv[2][SelectInSeq(n.at, LAMBDA f : f = FieldOrder[t[2]][k])]]))
    [] s.ctl = "next" /\ n.kind = "call" ->
         LET sv == EvalAll(s, Tail(n.kids))
             f == types[Sub(1)][2]
         IN Invoke(sv[1], f, <<>>, sv[2], Functions[f].params, Functions[f].ret)
    [] s.ctl = "next" /\ n.kind = "method" ->
         LET f == MethodOf(Determined(types[Sub(1)]), n.at)
             self == Functions[f].self
             caller == IF f[1] = Determined(types[Sub(1)]) THEN PlaceOf(s, Sub(1)) ELSE Eval(s, Sub(1))
             \* self by value is a copy, made when the call is.
             sv == EvalAll(caller, Tail(n.kids))
             copied == [sv[1] EXCEPT !.val = caller.val]
             value == Fetch(copied, f[1])
             object == New(value, value.val)
         IN IF self = NoType THEN Invoke(sv[1], f, <<>>, sv[2], Functions[f].params, Functions[f].ret)
            ELSE IF IsRef(self) THEN Invoke(sv[1], f, caller.val, sv[2], Functions[f].params, Functions[f].ret)
            ELSE Invoke(object, f, IF Indirect(f[1]) THEN object.val ELSE value.val, sv[2], Functions[f].params, Functions[f].ret)
    [] s.ctl = "next" /\ n.kind \in {"block", "body"} ->
         LET sv == EvalAll([s EXCEPT !.env = Append(@, <<>>)], n.kids)
         IN Leave(Val(sv[1], IF TailOf(n) = {} THEN <<>> ELSE sv[1].val), Len(s.env))
    [] s.ctl = "next" /\ n.kind = "let" ->
         LET u == New(one, one.val)
             v == New(u, u.val)
             bound == IF n.at[1][1] = "nameref" THEN v ELSE u
         IN On(bound, LAMBDA w : [w EXCEPT !.env[Len(w.env)] = Set(@, n.at[1][2][1], At(w)), !.val = <<>>])
    [] s.ctl = "next" /\ n.kind = "if" ->
         IF one.ctl # "next" THEN one
         ELSE IF Num(one.val) = 1 THEN two
         ELSE IF Len(n.kids) = 3 THEN Eval(one, Sub(3)) ELSE Val(one, <<>>)
    [] s.ctl = "next" /\ n.kind \in {"loop", "while"} -> Repeat(s, id)
    [] s.ctl = "next" /\ n.kind \in {"break", "return", "continue"} ->
         On(IF n.kids = <<>> THEN Val(s, <<>>) ELSE one, LAMBDA u : [u EXCEPT !.ctl = n.kind])

\* What the function prints and returns.
Ending(s) ==
  IF s.ctl \in {"more", "panic"} THEN [out |-> s.out, end |-> s.ctl, val |-> <<>>]
  ELSE [out |-> s.out, end |-> "returned", val |-> s.val]
Evaluated ==
  LET start == [mem |-> Arguments0.mem, out |-> <<>>, env |-> <<<<>>>>, ctl |-> "next", val |-> <<>>, fuel |-> Fuel]
      Param(s, k) ==
        LET u == IF Indirect(ParamTypes[k]) THEN Val(s, Arguments0.args[k]) ELSE New(s, Arguments0.args[k])
        IN [u EXCEPT !.env[1] = Set(@, ParamNames[k][2][1], At(u))]
  IN Ending(Eval(FoldLeft(Param, start, [k \in DOMAIN ParamTypes |-> k]), 1))

-----------------------------------------------------------------------------
\* The blocks.  A register holds the cells of a value.
Execute(op, t, x, y) ==
  LET w == Width(t)
      a == SignedOf(x, w)
      b == SignedOf(y, w)
      Bit(p) == IF p THEN 1 ELSE 0
  IN CASE op = "add" -> (x + y) % 2 ^ w [] op = "sub" -> (x - y) % 2 ^ w [] op = "mul" -> (x * y) % 2 ^ w
       [] op = "udiv" -> x \div y [] op = "urem" -> x % y
       [] op = "sdiv" -> Quotient(a, b) % 2 ^ w [] op = "srem" -> (a - b * Quotient(a, b)) % 2 ^ w
       [] op = "and" -> x & y [] op = "or" -> x | y [] op = "xor" -> x ^^ y
       [] op = "shl" -> (x * Power(y)) % 2 ^ w [] op = "lshr" -> x \div Power(y) [] op = "ashr" -> (a \div Power(y)) % 2 ^ w
       [] op = "icmp eq" -> Bit(x = y) [] op = "icmp ne" -> Bit(x # y)
       [] op = "icmp ult" -> Bit(x < y) [] op = "icmp ule" -> Bit(x <= y)
       [] op = "icmp ugt" -> Bit(x > y) [] op = "icmp uge" -> Bit(x >= y)
       [] op = "icmp slt" -> Bit(a < b) [] op = "icmp sle" -> Bit(a <= b)
       [] op = "icmp sgt" -> Bit(a > b) [] op = "icmp sge" -> Bit(a >= b)
\* cast_op: zext, sext, trunc or bitcast by the types.
Cast(from, to, x) == Pattern(to, IF IsUnsigned(from) \/ from = Bool THEN x ELSE SignedOf(x, Width(from)))

BlockOf(l) == SelectInSeq(ir.blocks, LAMBDA b : b.label = l)
Allocas == FlattenSeq([b \in DOMAIN ir.blocks |-> SelectSeq(ir.blocks[b].insns, LAMBDA i : i.op = "alloca")])
OperValue(f, o) == IF o[1] = "imm" THEN <<IntCell(Pattern(o[3], o[2]))>> ELSE f.regs[o[2]]
\* Whether an operand has a value, of the size its type says.
HasValue(f, o) == o[1] = "imm" \/ (o[2] \in DOMAIN f.regs /\ Len(f.regs[o[2]]) = Cells(o[3]) /\ NoCell \notin ToSet(f.regs[o[2]]))
Incoming(f, inst) == SelectInSeq(inst.labels, LAMBDA l : l = f.from)
Comparing == {"icmp " \o c : c \in {"eq", "ne", "ult", "ule", "ugt", "uge", "slt", "sle", "sgt", "sge"}}
RECURSIVE Step(_)
Step(f) ==
  LET block == ir.blocks[f.b]
      inst == block.insns[f.i]
      V(k) == OperValue(f, inst.args[k])
      Address(k) == V(k)[1][2]
      Go(g) == Step([g EXCEPT !.i = f.i + 1, !.fuel = f.fuel - 1])
      Result(v) == Go([f EXCEPT !.regs = Set(@, inst.dst, v)])
      Goto(l) == Step([f EXCEPT !.b = BlockOf(l), !.i = 1, !.from = block.label, !.fuel = @ - 1])
      End(how, v) == [out |-> f.out, end |-> how, val |-> v]
      applied == Apply(inst.callee, [k \in DOMAIN inst.args |-> V(k)[1]], f.mem)
      n == Cells(inst.type)
  IN
  CASE f.fuel = 0 -> End("more", <<>>)
    [] f.fuel > 0 /\ f.i > Len(block.insns) -> End("ran off", <<>>)
    [] f.fuel > 0 /\ f.i <= Len(block.insns) ->
    IF (inst.op # "phi" /\ \E o \in ToSet(inst.args) : ~HasValue(f, o)) \/ (inst.op = "phi" /\ Incoming(f, inst) = 0)
    THEN End("stuck", <<>>)
    ELSE
    CASE inst.op = "alloca" -> Go(f)
      [] inst.op = "load" -> IF Address(1) + n - 1 > Len(f.mem) THEN End("stuck", <<>>) ELSE Result(IF n > 1 THEN <<NoCell>> ELSE ReadAt(f.mem, Address(1), n))
      [] inst.op = "store" -> Go([f EXCEPT !.mem = WriteAt(@, Address(2), V(1))])
      [] inst.op = "gep" ->
           Result(<<PtrCell(Address(1) + (IF Len(inst.args) = 2 THEN Address(2) * n ELSE Before(inst.type, Address(3))))>>)
      [] inst.op = "cast" -> Result(<<IntCell(Cast(inst.args[1][3], inst.type, Num(V(1))))>>)
      [] inst.op = "phi" -> IF HasValue(f, inst.args[Incoming(f, inst)]) THEN Result(V(Incoming(f, inst))) ELSE End("stuck", <<>>)
      [] inst.op = "br" -> Goto(inst.labels[1])
      [] inst.op = "cbr" -> Goto(inst.labels[IF Num(V(1)) = 1 THEN 1 ELSE 2])
      [] inst.op = "ret" ->
           End("returned", IF HasSret THEN ReadAt(f.mem, 1, Cells(program.ret)) ELSE IF inst.args = <<>> THEN <<>> ELSE V(1))
      [] inst.op = "unreachable" -> End("fell through", <<>>)
      [] inst.op = "call" /\ inst.callee[2] = "memcpy" ->
           Go([f EXCEPT !.mem = WriteAt(@, Address(1), ReadAt(@, Address(2), Cells(inst.callee[1])))])
      [] inst.op = "call" /\ inst.callee[2] # "memcpy" ->
           Go([f EXCEPT !.mem = applied.mem, !.out = @ \o applied.out,
                        !.regs = IF inst.dst = NoReg THEN @ ELSE Set(@, inst.dst, applied.val)])
      [] OTHER -> Result(<<IntCell(Execute(inst.op, inst.type, Num(V(1)), Num(V(2))))>>)

\* Every alloca has one place in the frame.
Executed ==
  LET placed == FoldLeft(LAMBDA f, a : [f EXCEPT !.mem = @ \o [k \in 1..Cells(a.type) |-> NoCell],
                                                 !.regs = Set(@, a.dst, <<PtrCell(Len(f.mem) + 1)>>)],
                         [regs |-> <<>>, mem |-> Arguments0.mem, out |-> <<>>, b |-> 1, i |-> 1, from |-> <<>>, fuel |-> 20 * Fuel], Allocas)
      args == (IF HasSret THEN <<<<PtrCell(1)>>>> ELSE <<>>) \o Arguments0.args
  IN Step([placed EXCEPT !.regs = FoldLeft(LAMBDA r, k : Set(r, k - 1, args[k]), @, [k \in DOMAIN args |-> k])])


-----------------------------------------------------------------------------
\* What the generator does not do, or does in another order, each at a node.
Acts(k) == \E j \in Descendants(nodes, k, {}) : nodes[j].kind \in {"call", "method", "assign", "compound"}
Lets == {k \in DOMAIN nodes : nodes[k].kind = "let"}
BoundAt(k) ==
  LET n == nodes[k] IN ToSet(Bind(n.at[1], IF n.at[2] = <<>> THEN types[n.kids[1]] ELSE n.at[2], TRUE).names)
\* The types a name is declared with.
Declared(x) ==
  {Settled(b[2].type) : b \in {d \in ToSet(Parameters.names) \cup UNION {BoundAt(k) : k \in Lets} : d[1] = x}}
NotHandled(k) ==
  LET n == nodes[k]
  IN \* tuples, enums, patterns that are not names, ! of an integer
     \/ types[k][1] \in {"enum", "tuple"} /\ types[k] # Unit
     \/ n.kind = "let" /\ n.at[1][1] \notin {"name", "nameref"}
     \/ n.kind = "negation" /\ n.at = "!" /\ types[k] # Bool
     \* a shift by an operand of another width
     \/ /\ n.kind \in {"arith", "compound"} /\ n.at \in Shifts
        /\ IRString(types[n.kids[1]]) # IRString(types[n.kids[2]])
     \* an index or shift of another type is given the type it should have
     \/ n.kind = "path" /\ Declared(n.at[1]) # {} /\ Settled(types[k]) \notin Declared(n.at[1])
     \* an argument of a method passed by address is cloned with the type of
     \* the object the method belongs to
     \/ /\ n.kind = "method"
        /\ LET f == MethodOf(Determined(types[n.kids[1]]), n.at)
           IN \E t \in ToSet(Functions[f].params) : Indirect(t) /\ t # f[1]
     \* an object as the value of a block is held in a register
     \/ n.kind \in {"block", "if", "loop"} /\ Indirect(types[k])
     \* a break of a while stores its value nowhere
     \/ n.kind = "while" /\ \E j \in Descendants(nodes, k, {}) : nodes[j].kind = "break" /\ nodes[j].kids # <<>>
     \* the place is computed, and by += read, before the right side; fields
     \* are computed in the order of the declaration
     \/ n.kind = "assign" /\ Acts(n.kids[1]) /\ Acts(n.kids[2])
     \/ n.kind = "compound" /\ Acts(n.kids[2])
     \/ n.kind = "struct" /\ n.at # FieldOrder[types[k][2]] /\ \E j \in DOMAIN n.at : Acts(n.kids[j + 1])
\* A parameter that is not a name is refused too, and ref before one ignored.
Handled ==
  /\ Covered /\ \A k \in DOMAIN program.params : program.params[k][1][1] = "name"
  /\ \A k \in DOMAIN nodes : Agree(k) /\ ~NotHandled(k)

\* What is generated for a function does what its tree says: it prints the
\* same and returns the same.
Implements(run, meaning) == meaning.end = "returned" => run.end = "more" \/ run = meaning
RunsAsWritten == ir.status # "none" /\ Handled => ir.status = "done" /\ Implements(Executed, Evaluated)

-----------------------------------------------------------------------------
(* The rules of the IR. *)

Terminators == {"br", "cbr", "ret", "unreachable"}
Labels == {ir.blocks[b].label : b \in DOMAIN ir.blocks}
BlockAt(l) == ir.blocks[BlockOf(l)]
SuccsOf(l) == ToSet(Last(BlockAt(l).insns).labels)
PredsOf(l) == {m \in Labels : l \in SuccsOf(m)}
RECURSIVE Avoiding(_, _)
\* The blocks reached from those of ls on ways that do not enter d.
Avoiding(ls, d) == LET more == (UNION {SuccsOf(l) : l \in ls} \ {d}) \ ls IN IF more = {} THEN ls ELSE Avoiding(ls \cup more, d)
Dominates(d, l) == d = l \/ l \notin Avoiding({ir.blocks[1].label} \ {d}, d)
ResultOf(i) ==
  CASE i.op = "alloca" -> Pointer(i.type)
    [] i.op = "gep" /\ Len(i.args) = 2 -> Pointer(i.type)
    [] i.op = "gep" /\ Len(i.args) = 3 -> Pointer(IF i.type[1] = "array" THEN i.type[3] ELSE FieldTypesOf(i.type[2])[i.args[3][2] + 1])
    [] i.op \in Comparing -> Bool
    [] OTHER -> i.type
ParamType(r) == IF HasSret /\ r = 0 THEN Pointer(program.ret)
                ELSE LET t == ParamTypes[r + 1 - FirstParam] IN IF Indirect(t) THEN Pointer(t) ELSE t
Sites == UNION {{<<b, i>> : i \in DOMAIN ir.blocks[b].insns} : b \in DOMAIN ir.blocks}
InstAt(p) == ir.blocks[p[1]].insns[p[2]]
Defining(r) == {p \in Sites : InstAt(p).dst = r}
IsParam(r) == r < FirstParam + Len(ParamTypes)
\* The condition of a branch is printed as an i1, whatever its type says.
Printed(p, k) == IF InstAt(p).op = "cbr" THEN RegOper(InstAt(p).args[k][2], Bool) ELSE InstAt(p).args[k]
Agrees(o, p, k) ==
  \/ o[1] = "imm"
  \/ IsParam(o[2]) /\ IRString(o[3]) = IRString(ParamType(o[2]))
  \/ \E d \in Defining(o[2]) :
       /\ IRString(o[3]) = IRString(ResultOf(InstAt(d)))
       /\ IF InstAt(p).op = "phi" THEN Dominates(ir.blocks[d[1]].label, InstAt(p).labels[k])
          ELSE (d[1] = p[1] /\ d[2] < p[2]) \/ (d[1] < p[1] /\ Dominates(ir.blocks[d[1]].label, ir.blocks[p[1]].label))
\* Labels are unique, every block ends in its only jump, jumps lead to blocks, a
\* register is written once, a phi has an income for each of its two predecessors,
\* and what is read has the type it was written with, where it dominates the
\* reader and, in the order of the blocks, comes first (the live intervals begin
\* where a register is written).
ValidIR == ir.status = "done" /\ Handled =>
  /\ Cardinality(Labels) = Len(ir.blocks)
  /\ \A b \in DOMAIN ir.blocks :
       LET insns == ir.blocks[b].insns
       IN insns # <<>> /\ \A i \in DOMAIN insns : insns[i].op \in Terminators <=> i = Len(insns)
  /\ \A l \in Labels : SuccsOf(l) \subseteq Labels
  /\ \A p \in Sites :
       /\ InstAt(p).dst # NoReg => ~IsParam(InstAt(p).dst) /\ Defining(InstAt(p).dst) = {p}
       /\ InstAt(p).op = "phi" => /\ ToSet(InstAt(p).labels) = PredsOf(ir.blocks[p[1]].label)
                                  /\ Cardinality(ToSet(InstAt(p).labels)) = 2
       /\ PredsOf(ir.blocks[p[1]].label) # {} \/ p[1] = 1 => \A k \in DOMAIN InstAt(p).args : Agrees(Printed(p, k), p, k)
=============================================================================
