------------------------------ MODULE MCCompile ------------------------------
EXTENDS Meaning, TLC

I32 == Prime("i32")
U8 == Prime("u8")
S == StructType("S")
RefS == Ref(FALSE, S)
MutS == Ref(TRUE, S)
ArrT == ArrayType(2, I32)
Two == {I32, U8}

Lit(n) == Literal(n, "int")
Yes == Literal(1, "bool")
X == Path("x")
Y == Path("y")

MCStructs == [s \in {"S"} |-> [n |-> I32, a |-> ArrT]]
Method(self, params, ret) == [self |-> self, params |-> params, ret |-> ret]
MCFunctions ==
  (<<NoType, "f">> :> Method(NoType, <<>>, Unit)) @@
  (<<NoType, "g">> :> Method(NoType, <<U8, RefS>>, I32)) @@
  (<<NoType, "exit">> :> Method(NoType, <<I32>>, Unit)) @@
  (<<NoType, "show">> :> Method(NoType, <<I32>>, I32)) @@
  (<<NoType, "first">> :> Method(NoType, <<ArrT>>, I32)) @@
  (<<S, "get">> :> Method(RefS, <<>>, I32)) @@
  (<<S, "put">> :> Method(MutS, <<I32>>, Unit)) @@
  (<<S, "take">> :> Method(S, <<>>, I32)) @@
  (<<S, "join">> :> Method(MutS, <<S>>, Unit)) @@
  (<<S, "fill">> :> Method(MutS, <<ArrT>>, Unit)) @@
  (<<S, "new">> :> Method(NoType, <<I32>>, S))
Symbol(kind, type) == [kind |-> kind, type |-> type, mut |-> FALSE]
MCGlobals ==
  [f \in {"f", "g", "exit", "show", "first", "main", "h"} |-> Symbol("function", FunctionType(<<NoType, f>>))] @@
  ("S" :> Symbol("struct", S)) @@ ("E" :> Symbol("enum", EnumType("E"))) @@
  ("C" :> Symbol("constant", Prime("usize")))
MCEnums == {<<"E", "A">>}
Fn(name, params, ret, body) ==
  [decls |-> <<>>, name |-> name, self |-> "none", impl |-> NoType, params |-> params, ret |-> ret, body |-> body]
H(params, ret, body) == Fn("h", params, ret, body)
NoParams == <<>>
XY == << <<Name("x", FALSE), U8>>, <<Name("y", FALSE), I32>> >>

-----------------------------------------------------------------------------
\* Literals, their operators and what a let makes of them.
Atoms == {Lit(1), Lit(200), Lit(300), Literal(1, "u8"), Literal(128, "i8"), Yes, X, Y}
Unaries(es) ==
  {Negation(op, e) : op \in {"-", "!"}, e \in es} \cup {Grouped(e) : e \in es}
    \cup {TypeCast(e, t) : e \in es, t \in {U8, Bool}}
    \cup {Borrow(FALSE, e) : e \in es} \cup {Repeated(e, 2) : e \in es}
Binaries(es, fs) ==
  {Arith(op, e, f) : op \in {"+", "&", "<<"}, e \in es, f \in fs}
    \cup {Comparison(op, e, f) : op \in {"<", "=="}, e \in es, f \in fs}
    \cup {Lazy("&&", e, f) : e \in es, f \in fs}
    \cup {ArrayOf(<<e, f>>) : e \in es, f \in fs}
    \cup {TupleExpr(<<e, f>>) : e \in es, f \in fs}
    \cup {IfElse(Yes, BlockValue(<<>>, e), BlockValue(<<>>, f)) : e \in es, f \in fs}
Depth1 == Atoms \cup Unaries(Atoms) \cup Binaries(Atoms, Atoms)
Tags == {<<>>, I32, U8, Bool, Ref(FALSE, U8), ArrayType(2, U8)}
LetOf(es, tags) ==
  {H(XY, Unit, Body(<<Let(Name("v", FALSE), tag, e)>>)) : tag \in tags, e \in es}
LitPrograms == LetOf(Depth1, Tags)

\* Undetermined literals behind grouping, branches and arrays.
Few == {Lit(200), X, Y}
Depth2 == Unaries(Binaries(Few, Few)) \cup Binaries(Binaries(Few, {Lit(200), X}), {Lit(200), Y})
DeepPrograms == LetOf(Depth2, {<<>>, U8})

-----------------------------------------------------------------------------
\* Where control goes: jumps in branches and loops, at the end or not.
Jumps == {Return(<<>>), Return(<<Lit(1)>>), Break(<<>>), Break(<<Lit(1)>>), Continue}
CallF == CallOf(Path("f"), <<>>)
Blocks(es) == {Block(<<>>)} \cup {Block(<<e>>) : e \in es} \cup {BlockValue(<<>>, e) : e \in es}
BranchesOf(bs) ==
  {If(Yes, b) : b \in bs} \cup {IfElse(Yes, b, c) : b \in bs, c \in bs} \cup
  {Loop(b) : b \in bs} \cup {While(Yes, b) : b \in bs}
Controls == BranchesOf(Blocks(Jumps \cup {Lit(1), CallF}))
Rets == {Unit, I32}
ControlBodies(es) == {Body(<<e>>) : e \in es} \cup {BodyValue(<<>>, e) : e \in es} \cup {BodyValue(<<e>>, Lit(2)) : e \in es}
ControlPrograms == {H(NoParams, r, b) : r \in Rets, b \in ControlBodies(Controls \cup Jumps)}
Inner == {If(Yes, b) : b \in {Block(<<j>>) : j \in Jumps}} \cup {Loop(Block(<<j>>)) : j \in {Return(<<>>), Break(<<>>)}}
NestedControls ==
  {IfElse(Yes, Block(<<i>>), Block(<<j>>)) : i \in Inner \cup Jumps, j \in Inner \cup Jumps} \cup
  {Loop(Block(<<i, j>>)) : i \in Inner, j \in Inner \cup Jumps} \cup
  {While(Yes, Block(<<i>>)) : i \in Inner} \cup {Block(<<i, j>>) : i \in Inner \cup Jumps, j \in Inner \cup Jumps}
NestedPrograms == {H(NoParams, r, b) : r \in Rets, b \in ControlBodies(NestedControls)}

\* exit in main, a let in a branch that returns, a condition that returns.
MainStatements == {CallOf(Path("exit"), <<Lit(1)>>), CallF, If(Yes, Block(<<CallOf(Path("exit"), <<Lit(1)>>)>>)),
                   Let(Name("v", FALSE), <<>>, Lit(1)), Let(Name("h", FALSE), <<>>, Lit(1)),
                   Let(Name("v", FALSE), I32, Return(<<>>)), If(Return(<<>>), Block(<<>>)), Return(<<>>)}
MainPrograms == {Fn(n, NoParams, Unit, Body(<<s, u>>)) : n \in {"main", "h"}, s \in MainStatements, u \in MainStatements}
  \cup {Fn(n, NoParams, Unit, BodyValue(<<s>>, u)) : n \in {"main", "h"}, s \in MainStatements, u \in MainStatements \ {Let(Name("v", FALSE), <<>>, Lit(1)), Let(Name("h", FALSE), <<>>, Lit(1)), Let(Name("v", FALSE), I32, Return(<<>>))}}

-----------------------------------------------------------------------------
\* Mutability of places, behind references, fields, elements and calls.
NewS == CallOf(Path2("S", "new"), <<Lit(1)>>)
Roots == { <<m, Let(Name("r", n), <<>>, e)>> : m \in BOOLEAN, n \in BOOLEAN,
           e \in {Borrow(FALSE, Path("s")), Borrow(TRUE, Path("s")), Path("s")} }
Objects == {Path("s"), Path("r"), Deref(Path("r")), Grouped(Deref(Path("r"))), Grouped(Path("s"))}
Parts(o) == {Field(o, "n"), Field(o, "a"), Index(Field(o, "a"), Lit(0)), Index(o, Lit(0)), Grouped(Field(o, "n")), o}
Uses(o) ==
  UNION {{Assign(q, Lit(1)), CompoundAssign("+", q, Lit(1)), Arith("+", q, Lit(1))} : q \in Parts(o)}
    \cup {MethodCall(o, "get", <<>>), MethodCall(o, "put", <<Lit(1)>>), MethodCall(o, "take", <<>>),
          MethodCall(Field(o, "n"), "get", <<>>), Assign(o, NewS), Assign(o, Borrow(FALSE, Path("s"))),
          Assign(Path("r"), Borrow(TRUE, o)), CallOf(Path("g"), <<Lit(1), Borrow(FALSE, o)>>), CallOf(Path("g"), <<Lit(1), o>>)}
PlacePrograms ==
  {H(<<>>, Unit, Body(<<Let(Name("s", root[1]), <<>>, NewS), root[2], u>>)) :
     root \in Roots, u \in UNION {Uses(o) : o \in Objects}}
SelfPrograms ==
  {[Fn("h", <<>>, Unit, Body(<<u>>)) EXCEPT !.self = k, !.impl = S] : k \in {"value", "ref", "refmut"},
     u \in Uses(Path("self")) \cup Uses(Deref(Path("self")))}

-----------------------------------------------------------------------------
\* Calls, struct expressions, patterns and constants.
Args == {Lit(1), Lit(300), Y, X, Borrow(FALSE, Path("s")), Borrow(TRUE, Path("s")), Path("s")}
Callees == {Path("f"), Path("g"), Path2("S", "new"), Path2("S", "get"), Path("x"), Path("S")}
ArgLists == {<<>>} \cup {<<a>> : a \in Args} \cup {<<a, b>> : a \in Args, b \in Args}
Structured ==
  {StructOf(Path(p), fs, es) : p \in {"S"}, fs \in {<<"n">>, <<"a">>}, es \in {<<Lit(1)>>}} \cup
  {StructOf(Path(p), fs, <<e, d>>) : p \in {"S", "E", "s"},
     fs \in {<<"n", "a">>, <<"a", "n">>, <<"n", "n">>, <<"n", "z">>},
     e \in {Lit(1), X, Repeated(Lit(1), 2)}, d \in {Lit(1), Repeated(Lit(1), 2), ArrayOf(<<Lit(1)>>), ArrayOf(<<Y, Lit(1)>>)}}
CallPrograms ==
  {H(XY, Unit, Body(<<Let(Name("s", TRUE), <<>>, NewS), e>>)) :
     e \in {CallOf(c, as) : c \in Callees, as \in ArgLists} \cup Structured
       \cup {Path2("E", "A"), Path2("E", "B"), Path2("S", "z"), Path("z"), Path("C"), Path("self"),
             MethodCall(Path("s"), "new", <<Lit(1)>>), MethodCall(Lit(1), "get", <<>>), Index(Path("s"), X),
             Index(ArrayOf(<<Y, Lit(3)>>), X), Index(ArrayOf(<<Y, Lit(3)>>), Y), Index(ArrayOf(<<Y, Lit(3)>>), Path("C")),
             Index(ArrayOf(<<Y, Lit(3)>>), Arith("+", Lit(1), Path("C"))), Arith("+", Index(ArrayOf(<<Lit(1), Lit(3)>>), X), X)}}
Patterns == {Name("v", FALSE), Name("v", TRUE), NameRef("v", TRUE), Wildcard, GroupedPattern(Name("v", FALSE)),
             TuplePattern(<<Name("v", TRUE), Wildcard>>), TuplePattern(<<Name("v", TRUE)>>),
             ReferencePattern(FALSE, Name("v", TRUE)), GroupedPattern(ReferencePattern(TRUE, Name("v", FALSE))),
             StructPattern("S", <<"n">>, <<Name("v", TRUE)>>), StructPattern("S", <<"z">>, <<Name("v", TRUE)>>),
             StructPattern("S", <<"n", "n">>, <<Name("v", TRUE), Wildcard>>),
             StructPattern("S", <<"a", "n">>, <<Name("v", FALSE), Name("v", TRUE)>>)}
Bound == {Lit(1), TupleExpr(<<Lit(1), X>>), TupleExpr(<<X>>), Borrow(FALSE, X), Borrow(TRUE, X), NewS, Borrow(FALSE, NewS), Yes, Return(<<>>)}
\* Parameters of the same forms, used with what they stand for.
ParameterPrograms ==
  {H(<< <<p, t>>, <<Name(n, FALSE), U8>> >>, U8, BodyValue(<<>>, Arith("+", Path("v"), Path(n)))) :
     p \in Patterns, t \in {U8, Ref(FALSE, U8), Ref(TRUE, U8), S, TupleType(<<U8>>)}, n \in {"x", "v"}}
\* A let that never ends, in a body and in a branch.
LetJumps == {Let(p, tag, j) : p \in {Name("v", FALSE), TuplePattern(<<Wildcard>>)}, tag \in {<<>>, I32}, j \in Jumps}
DivergingLets ==
  {H(NoParams, r, Body(<<l>>)) : r \in Rets, l \in LetJumps} \cup
  {H(NoParams, r, BodyValue(<<>>, IfElse(Yes, Block(<<l>>), BlockValue(<<>>, Lit(1))))) : r \in Rets, l \in LetJumps} \cup
  {H(NoParams, r, BodyValue(<<Loop(Block(<<If(Yes, BlockValue(<<l>>, Lit(1))), Break(<<>>)>>))>>, Lit(1))) : r \in Rets, l \in LetJumps} \cup
  {H(NoParams, Unit, Body(<<e>>)) :
     e \in {While(j, Block(<<>>)) : j \in Jumps} \cup {Lazy("&&", e, f) : e \in {Yes, Return(<<>>)}, f \in {Yes, Return(<<>>)}}}
PatternPrograms ==
  ParameterPrograms \cup DivergingLets \cup
  {H(XY, Unit, Body(<<Let(p, tag, e), u>>)) : p \in Patterns, e \in Bound,
     tag \in {<<>>, I32, Ref(FALSE, U8), S, TupleType(<<U8, U8>>)},
     u \in {Assign(Path("v"), Lit(2)), Assign(Path("v"), X), CompoundAssign("+", Path("v"), Y), Arith("+", Path("v"), X), Lit(1)}}
ReturnPrograms ==
  {H(XY, r, BodyValue(<<If(Yes, Block(<<Return(<<e>>)>>))>>, d)) : r \in {I32, U8, Bool, Ref(FALSE, U8)},
     e \in {Lit(1), Lit(300), X, Y, Borrow(TRUE, X), Yes}, d \in {Lit(1), Lit(300), X, Y, Borrow(FALSE, X), Yes}}

-----------------------------------------------------------------------------
\* Structs in either order, with fields of several alignments.
FieldTypes == {U8, I32, Prime("usize"), ArrayType(3, U8), TupleType(<<U8, I32>>), StructType("A"), StructType("B")}
FieldLists == {<<t>> : t \in FieldTypes} \cup {<<t, u>> : t \in FieldTypes, u \in {U8, I32}}
  \cup {<<U8, t, U8>> : t \in FieldTypes}
Decl(name, ts) == [name |-> name, types |-> ts]
LayoutPrograms ==
  {[H(<<>>, Unit, Body(<<>>)) EXCEPT !.decls = <<Decl("A", ts), Decl("B", us)>>] :
     ts \in {vs \in FieldLists : StructType("A") \notin ToSet(vs)},
     us \in {vs \in FieldLists : StructType("B") \notin ToSet(vs)}}
MCUnset == {[offsets |-> <<>>, size |-> 0, align |-> 0], [offsets |-> <<>>, size |-> 5, align |-> 1]}

-----------------------------------------------------------------------------
\* Code to generate: what is printed and returned tells the programs apart.
Show(e) == CallOf(Path("show"), <<e>>)
St == Path("s")
SN == Field(St, "n")
SA == Field(St, "a")
A0 == Index(SA, Lit(0))
A1 == Index(SA, Lit(1))
SLit(n, a) == StructOf(Path("S"), <<"n", "a">>, <<n, a>>)
Less(e, n) == Comparison("<", e, Lit(n))
LetMut(x, e) == Let(Name(x, TRUE), <<>>, e)
\* Two copies of an object, changed by turns.
Changes ==
  {Assign(SN, Show(Y)), LetMut("t", St), Assign(Path("t"), St), Assign(St, Path("t")), Assign(SA, Field(Path("t"), "a")),
   CompoundAssign("+", A0, Y), Assign(A1, A0), CallOf(Path("first"), <<SA>>), MethodCall(St, "take", <<>>),
   MethodCall(St, "put", <<Lit(3)>>), MethodCall(Path("t"), "put", <<Lit(4)>>), LetMut("r", Borrow(TRUE, St)),
   Assign(Field(Path("r"), "n"), Lit(5)), CompoundAssign("-", Index(Field(Deref(Path("r")), "a"), Lit(1)), Lit(6)),
   MethodCall(Path("r"), "put", <<Lit(8)>>), MethodCall(St, "join", <<Path("t")>>), MethodCall(Path("t"), "join", <<St>>),
   MethodCall(Path("r"), "join", <<Deref(Path("r"))>>), MethodCall(St, "fill", <<SA>>), LetMut("s", St), LetMut("t", SLit(A0, SA)), Assign(SA, ArrayOf(<<A1, A0>>)),
   Assign(Deref(Path("r")), NewS), LetMut("t", Deref(Path("r"))), Assign(SA, Repeated(SN, 2)),
   Let(NameRef("r", TRUE), <<>>, SN), Assign(Deref(Path("q")), Lit(9)), LetMut("q", Borrow(TRUE, SN)), LetMut("q", Borrow(TRUE, A1))}
Report == <<Show(SN), Show(A0)>>
CopyPrograms ==
  {H(XY, I32, BodyValue(<<LetMut("s", SLit(Lit(1), ArrayOf(<<Lit(2), Y>>))), LetMut("t", St), LetMut("r", Borrow(TRUE, St)),
                          LetMut("q", Borrow(TRUE, q)), c, d>> \o Report, A1)) :
     q \in {SN, A1}, c \in Changes, d \in Changes}
\* Results and parameters passed by address.
XYS == Append(XY, <<Name("s", TRUE), S>>)
Results ==
  {St, NewS, SLit(Y, SA), SLit(SN, Repeated(Lit(2), 2)), Grouped(St), BlockValue(<<>>, St), IfElse(Less(Y, 1), BlockValue(<<>>, St), BlockValue(<<>>, NewS)), Loop(Block(<<Break(<<St>>)>>))}
ResultPrograms ==
  {H(XYS, S, BodyValue(<<c, If(Less(Y, n), Block(<<Return(<<e>>)>>))>>, d)) :
     n \in {1, 9}, c \in {Assign(SN, Lit(1)), Show(SN)}, e \in Results, d \in Results} \cup
  {H(XYS, ArrT, BodyValue(<<c>>, d)) :
     c \in {Assign(SN, Lit(1)), LetMut("t", SA)}, d \in {SA, Repeated(SN, 2), ArrayOf(<<SN, A1>>), Field(NewS, "a"), Field(Path("t"), "a"), Path("t")}}

\* Loops that count, and values that leave them.
I == Path("i")
Steps == {CompoundAssign("+", I, Lit(1)), If(Less(I, 2), Block(<<Continue>>)), If(Less(Lit(1), 2), Block(<<Break(<<>>)>>)), Show(I),
          If(Lazy("||", Less(I, 1), Less(Show(I), 2)), Block(<<Show(Lit(7))>>)),
          If(Lazy("&&", Less(Lit(0), 1), Comparison("==", I, Lit(2))), Block(<<Break(<<>>)>>)),
          IfElse(Less(I, 1), Block(<<Show(Lit(8))>>), Block(<<Break(<<>>)>>)), LetMut("i", Arith("+", I, Lit(1)))}
Valued == {If(Less(Lit(1), 2), Block(<<Break(<<I>>)>>)), IfElse(Less(I, 2), Block(<<Show(I)>>), Block(<<Break(<<Show(Y)>>)>>)),
           If(Less(Lit(3), 2), Block(<<Break(<<Lit(1)>>)>>)), If(Less(I, 3), Block(<<Continue>>))}
Counting == LetMut("i", Arith("-", Y, Lit(5)))
Up == CompoundAssign("+", I, Lit(1))
LoopPrograms ==
  {H(XY, I32, BodyValue(<<Counting, While(Less(I, 3), Block(<<Up, b, d>>)), Show(Lit(6))>>, I)) : b \in Steps, d \in Steps} \cup
  {H(XY, I32, BodyValue(<<Counting, While(Less(I, 2), Block(<<Up, LetMut("j", Lit(0)), While(Less(Path("j"), 2), Block(<<CompoundAssign("+", Path("j"), Lit(1)), b>>)), d>>))>>, I)) : b \in Steps, d \in Steps} \cup
  {H(XY, I32, BodyValue(<<Counting, LetMut("v", Loop(Block(<<Up, b, d>>))), Show(I)>>, Path("v"))) : b \in Valued \cup Steps, d \in Valued} \cup
  {H(XY, I32, BodyValue(<<Counting>>, Loop(Block(<<Up, b, d>>)))) : b \in Valued \cup Steps, d \in Valued}

\* Operators at the widths and signs of their operands.
Ops == {"+", "-", "*", "/", "%", "&", "^"}
AsT(e, t) == TypeCast(e, Prime(t))
Numbers == {X, Y, Negation("-", Y), AsT(X, "i8"), AsT(Negation("-", Y), "u32"), AsT(AsT(X, "i8"), "i32"), AsT(Negation("-", Y), "i64"), Path("C"), Grouped(Arith("*", X, X))}
OperatorPrograms ==
  {H(XY, Unit, Body(<<LetMut("v", e), Let(Name("w", FALSE), <<>>, c), Show(AsT(Path("v"), "i32")), If(Path("w"), Block(<<Show(Lit(9))>>))>>)) :
     e \in {Arith(op, m, n) : op \in Ops, m \in Numbers, n \in Numbers} \cup {AsT(m, t) : m \in Numbers, t \in {"u8", "i8", "u32", "i64"}}
           \cup {Arith(op, m, AsT(Lit(3), "u8")) : op \in {"<<", ">>"}, m \in Numbers},
     c \in {Comparison(op, Negation("-", Y), Y) : op \in {"<", ">="}} \cup {Comparison(op, AsT(Negation("-", Y), "u32"), AsT(Y, "u32")) : op \in {"<", ">="}}} \cup
  {H(XY, Unit, Body(<<LetMut("v", m), CompoundAssign(op, Path("v"), n), Show(AsT(Path("v"), "i32"))>>)) : op \in Ops \cup {"<<", ">>"}, m \in Numbers, n \in Numbers \cup {Lit(3)}} \cup
  {H(XY, I32, BodyValue(<<LetMut("v", IfElse(c, BlockValue(<<Show(Lit(3))>>, e), BlockValue(<<>>, Show(d))))>>, IfElse(b, BlockValue(<<>>, Path("v")), BlockValue(<<>>, Y)))) :
     e \in {Y, Lit(1), Show(Y)}, d \in {Y, Lit(4)},
     b \in {Yes, Negation("!", Lazy("||", Less(Y, 1), Less(Show(Lit(2)), 2)))}, c \in {Lazy(op, Less(Show(Lit(1)), n), Less(Show(Y), m)) : op \in {"&&", "||"}, n \in {1, 2}, m \in {1, 9}}} \cup
  {H(XY, I32, BodyValue(<<LetMut("s", NewS), e>>, CallOf(Path("g"), <<AsT(Show(Lit(3)), "u8"), Borrow(FALSE, St)>>))) :
     e \in {Assign(Index(SA, AsT(Show(Lit(1)), "usize")), Show(Lit(2))), LetMut("s", SLit(Show(Lit(1)), ArrayOf(<<Show(Lit(2)), Show(Lit(3))>>))),
            LetMut("s", StructOf(Path("S"), <<"a", "n">>, <<ArrayOf(<<Show(Lit(2)), Show(Lit(3))>>), Show(Lit(1))>>)),
            CompoundAssign("+", SN, Show(Lit(1))), CompoundAssign("+", SN, BlockValue(<<Assign(SN, Lit(5))>>, Y)), Arith("+", Show(Lit(1)), Show(Lit(2)))}}

MCPrograms ==
  <<LitPrograms, DeepPrograms, ControlPrograms, NestedPrograms, MainPrograms, PlacePrograms,
    SelfPrograms, CallPrograms, PatternPrograms, ReturnPrograms, LayoutPrograms,
    CopyPrograms, ResultPrograms, LoopPrograms, OperatorPrograms>>
-----------------------------------------------------------------------------
\* The functions outside: get reads a field, put writes it, join and fill copy
\* an object into self, and what is given a copy of an object writes over it.
MCApply(f, args, mem) ==
  LET name == f[2]
      a == args[1][2]
      Plain0(out, val) == [mem |-> mem, out |-> out, val |-> val]
  IN CASE name = "f" -> Plain0(<<<<"f">>>>, <<>>)
       [] name = "g" -> Plain0(<<<<"g", a>>>>, <<mem[args[2][2]]>>)
       [] name = "exit" -> Plain0(<<<<"exit", a>>>>, <<>>)
       [] name = "show" -> Plain0(<<<<"show", a>>>>, <<args[1]>>)
       [] name = "get" -> Plain0(<<>>, <<mem[a]>>)
       [] name = "put" -> [mem |-> WriteAt(mem, a, <<args[2]>>), out |-> <<>>, val |-> <<>>]
       [] name \in {"take", "first"} -> [mem |-> WriteAt(mem, a, <<IntCell(77)>>), out |-> <<<<"first", mem[a + 1]>>>>, val |-> <<mem[a]>>]
       [] name \in {"join", "fill"} ->
            LET b == args[2][2]
                n == IF name = "join" THEN 3 ELSE 2
            IN [mem |-> WriteAt(WriteAt(mem, a + 3 - n, ReadAt(mem, b, n)), b, <<IntCell(77)>>), out |-> <<>>, val |-> <<>>]
       [] name = "new" -> [mem |-> WriteAt(mem, a, <<args[2], IntCell(1), IntCell(2)>>), out |-> <<>>, val |-> <<>>]
MCFieldOrder == [s \in {"S"} |-> <<"n", "a">>]
MCConstValues == [c \in {"C"} |-> 1]
MCSample(t) == CASE t = Bool -> 1 [] t = U8 -> 250 [] OTHER -> 5
=============================================================================
