------------------------------- MODULE MCCrate -------------------------------
(***************************************************************************)
(* Crates for the name passes of the front end (Scoping): declarations,    *)
(* uses and constants.  A family is a sequence of sets of pieces, a piece  *)
(* a sequence of nodes; its crates are all choices of one piece from each  *)
(* set, one after the other, whose scopes are closed and which hold items, *)
(* parameters and statements where the language has them.                  *)
(***************************************************************************)
EXTENDS Scoping

AllOf(family) == FoldLeft(LAMBDA cs, pieces : {c \o piece : c \in cs, piece \in pieces}, {<<>>}, family)

Fn(name) == <<"fn", name, "none">>
Close == <<"close">>
One == Literal(1, "int")
Const(name) == <<"const", name, "i32", One>>
Nothing == <<>>
Just(n) == {<<n>>}
Perhaps(n) == {Nothing, <<n>>}
Main(nodes) == <<Fn("main")>> \o nodes \o <<Close>>
Either(S) == {Nothing} \cup {<<n>> : n \in S}

\* A name bound outside, in a function, and in a block, an inner function or a
\* loop of it; used before, in and after.
Shadowing ==
  <<Either({Const("x"), <<"struct", "x">>}), Just(Fn("main")),
    Either({Const("x"), <<"let", "x">>}), Just(<<"path", "x">>),
    Either({<<"block">>, Fn("f"), <<"loop">>}),
    Either({Const("x"), <<"let", "x">>, <<"param", "x", "i32">>}), Perhaps(<<"path", "x">>),
    {<<Const("y"), <<"let", "z">>, Close>>, <<Close>>},
    Perhaps(<<"let", "x">>), Just(<<"path", "x">>), Just(Close)>>
\* Functions known before their definition, after it, and from inside.
Calls ==
  <<Perhaps(Fn("f")), Perhaps(<<"param", "f", "i32">>), Either({<<"path", "f">>, <<"path", "g">>}),
    {Nothing, <<Fn("g"), <<"path", "f">>, Close>>, <<Fn("f"), Close>>}, Perhaps(Close),
    {Main(<<<<"path", p>>>>) : p \in {"f", "g", "print", "main"}},
    {Nothing, <<Fn("f"), Close>>, <<Fn("print"), Close>>}>>
\* Types in a signature and a body, of structs and enums here and there.
TypeNames ==
  <<Either({<<"struct", "S">>, <<"enum", "S", {"A"}>>, <<"struct", "i32">>}), Just(Fn("main")),
    Perhaps(<<"type", "S">>), Just(<<"block">>),
    Either({<<"type", "S">>, <<"struct", "S">>, <<"member", "S", "A">>}), Either({Fn("f"), <<"loop">>}),
    Either({<<"type", "S">>, <<"enum", "S", {"A"}>>}), Perhaps(Close),
    Either({<<"type", "S">>, <<"member", "S", "A">>, <<"path", "S">>}), Just(Close),
    Perhaps(<<"type", "S">>), Just(Close)>>
\* Methods and associated functions, self and Self.
Members ==
  <<Just(<<"struct", "S">>), Just(<<"impl", "S">>),
    {<<<<"fn", "a", s>>>> : s \in {"none", "value", "ref"}},
    Either({<<"param", "x", "Self">>, <<"path", "self">>, <<"member", "Self", "b">>, Fn("h"), <<"impl", "S">>}),
    Either({<<"member", "S", "a">>, <<"path", "self">>, <<"type", "Self">>, Fn("b")}),
    {<<Close>>, <<Close, Close>>},
    {Nothing, <<Fn("b"), <<"path", "a">>, Close>>, <<<<"fn", "b", "ref">>, <<"path", "self">>, Close>>}, Just(Close),
    {Nothing, <<<<"impl", "S">>, Fn("b"), Close, Close>>},
    {Main(<<n>>) : n \in {<<"member", "S", "a">>, <<"member", "S", "b">>, <<"type", "Self">>, <<"path", "self">>}}>>
\* Breaks in loops, blocks and functions.
Loops ==
  <<Just(Fn("main")), Either({<<"break">>, <<"loop">>, <<"block">>}), Either({<<"break">>, <<"loop">>, Fn("f")}),
    Either({<<"break">>, <<"loop">>, Fn("g")}), Perhaps(<<"break">>), Either({Close}), Perhaps(<<"break">>),
    Either({Close}), {Nothing, <<Close>>, <<<<"break">>, Close>>}, Just(Close)>>
\* What main must be.
HasOneMain == <<{Nothing, <<Fn("f"), Close>>}, Either({Fn("main"), Const("main"), Fn("f")}),
           Perhaps(<<"param", "x", "i32">>), {Nothing, <<Fn("main"), Close>>}, Perhaps(Close)>>

Leaves == {Literal(3, "int"), Literal(2, "u8"), Literal(0, "int"), Path("A"), Path("B"),
           Negation("-", Literal(128, "int")), TypeCast(Literal(200, "int"), Prime("i8"))}
Written2 ==
  {Literal(1, "bool"), Literal(300, "int"), TypeCast(Path("A"), Prime("u8")), Comparison("<", Path("A"), One)}
    \cup Leaves
    \cup {Arith(op, a, b) : op \in {"+", "-", "/", "%", "&", "<<"}, a \in {Path("A"), Literal(3, "int")}, b \in Leaves}
    \cup {Arith("*", Grouped(Arith("-", a, One)), b) : a, b \in {Path("A"), Literal(3, "int"), Literal(2, "u8")}}
    \cup {Negation(op, e) : op \in {"-", "!"}, e \in {Path("A"), Literal(1, "bool")}}
    \cup {Lazy(op, a, b) : op \in {"||", "&&"}, a \in {Path("A"), Literal(1, "bool")}, b \in {Path("A"), Literal(0, "bool")}}
Constants ==
  <<{<<<<"const", "A", a[1], a[2]>>>> :
       a \in {<<"i8", Literal(3, "int")>>, <<"i8", Literal(3, "i8")>>, <<"u8", Literal(2, "u8")>>,
              <<"i8", Literal(2, "u8")>>, <<"bool", Literal(0, "bool")>>, <<"i8", Negation("-", Literal(128, "int"))>>,
              <<"u8", TypeCast(Literal(2, "int"), Prime("u8"))>>}},
    {<<<<"const", "B", t, e>>>> : t \in {"i8", "u8", "bool"}, e \in Written2}, {Main(<<<<"path", "B">>>>)}>>
Lengths ==
  <<{<<<<"const", "A", t, Literal(3, s)>>>> : t \in {"usize", "i8"}, s \in {"usize", "int"}},
    {Main(<<<<"const", "A", "usize", Literal(2, "usize")>>, <<"length", e>>>>) : e \in Written2} \cup
    {Main(<<<<"length", e>>, <<"const", "B", "usize", Path("A")>>>>) : e \in Written2}>>

\* What may stand in a crate, in an impl and in a function or block.
Holds(opener) == CASE opener = "impl" -> {"fn", "close"}
                   [] opener = "crate" -> {"fn", "impl", "struct", "enum", "const"}
                   [] OTHER -> Openers \cup {"close", "struct", "enum", "const", "param", "type", "length", "let", "path", "member", "break"}
Nested(open, node) ==
  IF open = <<>> \/ node[1] \notin Holds(Last(open)) THEN <<>>
  ELSE CASE node[1] \in Openers -> Append(open, node[1])
         [] node[1] = "close" -> Front(open)
         [] OTHER -> open
Formed(c) == /\ FoldLeft(Nested, <<"crate">>, c) = <<"crate">>
             /\ \A n \in DOMAIN c : c[n][1] = "param" => n > 1 /\ c[n - 1][1] \in {"fn", "param"}
NameCrates == {c \in UNION {AllOf(f) : f \in {Shadowing, Calls, TypeNames, Members, Loops, HasOneMain, Constants, Lengths}} : Formed(c)}
MCBits == [t \in SignedInts \cup UnsignedInts |-> CASE t \in {"i8", "u8"} -> 8 [] t \in {"i32", "u32"} -> 12 [] OTHER -> 15]
=============================================================================
