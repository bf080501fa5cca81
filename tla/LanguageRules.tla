---------------------------- MODULE LanguageRules ----------------------------
(***************************************************************************)
(* What the checker should accept, stated without its order of visits: the *)
(* set of types an expression may have.  A literal may have any integer    *)
(* type it fits in, and an expression every type its parts agree on; a     *)
(* function is well typed when its body may have the type it returns.      *)
(***************************************************************************)
EXTENDS TypeFiller

Integer == {Prime(p) : p \in SignedInts \cup UnsignedInts}
Signed == {Prime(p) : p \in SignedInts}
Holds(t, value) == value <= MaxValue(t[2])

\* A value of type t where one of type to is wanted.
RECURSIVE Coerces(_, _)
Coerces(to, t) ==
  \/ to = t
  \/ IsRef(to) /\ IsRef(t) /\ (to[2] => t[2]) /\ Coerces(to[3], t[3])
\* Some value the set of types P describes can be used where to is wanted;
\* one that is never computed always can.
Accepts(P, to) == Never \in P \/ \E t \in P : Coerces(to, t)
Join(P, Q) == {t \in P \cup Q : Accepts(P, t) /\ Accepts(Q, t)}
Default(P) == IF Prime("i32") \in P /\ P \subseteq Integer THEN Prime("i32") ELSE CHOOSE t \in P : TRUE

Symbols(env, x) == IF x \in DOMAIN env THEN env[x] ELSE [kind |-> "none", type |-> NoType, mut |-> FALSE]

\* The names a pattern binds in a value of type t, in order, and whether such a
\* value has the pattern's form.  &p has the form of a reference, and p that of
\* what it refers to; a struct pattern may leave fields out.  What is taken apart
\* through a reference is bound by reference (by is <<>>, or <<mutable>>).
RECURSIVE BindingBy(_, _, _)
BindingBy(p, t, by) ==
  LET no == [fits |-> FALSE, names |-> <<>>]
      Variable(type, mut) ==
        [fits |-> TRUE, names |-> <<<<p[2][1], [kind |-> "variable", type |-> type, mut |-> mut]>>>>]
      Parts(ts, mode) ==
        LET parts == [k \in DOMAIN ts |-> BindingBy(p[3][k], ts[k], mode)]
        IN [fits |-> \A k \in DOMAIN ts : parts[k].fits,
            names |-> FlattenSeq([k \in DOMAIN ts |-> parts[k].names])]
      fields == p[2][2]
  IN CASE p[1] = "name" -> Variable(IF by = <<>> \/ p[2][2] THEN t ELSE Ref(by[1], t), p[2][2])
       [] p[1] = "nameref" -> Variable(Ref(p[2][2], t), FALSE)
       [] p[1] = "wildcard" -> Parts(<<>>, by)
       [] p[1] = "grouped" -> Parts(<<t>>, by)
       [] p[1] = "reference" -> IF IsRef(t) /\ t[2] = p[2] THEN Parts(<<t[3]>>, <<>>) ELSE no
       [] p[1] \in {"tuple", "struct"} /\ IsRef(t) -> BindingBy(p, t[3], <<t[2] /\ (by # <<>> => by[1])>>)
       [] p[1] = "tuple" /\ ~IsRef(t) ->
            IF t[1] = "tuple" /\ Len(t[2]) = Len(p[3]) THEN Parts(t[2], by) ELSE no
       [] p[1] = "struct" /\ ~IsRef(t) ->
            IF t = StructType(p[2][1]) /\ ToSet(fields) \subseteq DOMAIN Structs[t[2]] /\ IsInjective(fields)
            THEN Parts([k \in DOMAIN fields |-> Structs[t[2]][fields[k]]], by)
            ELSE no
Binding(p, t) == BindingBy(p, t, <<>>)
NamesOf(bound) == [k \in DOMAIN bound.names |-> bound.names[k][1]]
Binds(bound) == bound.fits /\ IsInjective(NamesOf(bound))

RECURSIVE Poss(_, _), After(_, _), MutPlace(_, _)
\* The state after some statements: whether they are well typed, whether one
\* never ends, and the names in scope.
After(env, stmts) ==
  FoldLeft(LAMBDA st, s :
    LET P == Poss(st.env, IF s[1] = "let" THEN s[3][1] ELSE s)
    IN IF s[1] # "let" THEN [st EXCEPT !.ok = st.ok /\ P # {}, !.ends = st.ends \/ P = {Never}]
       ELSE LET tag == s[2][2]
                derefs == s[3][1][1] \in {"index", "field"} /\ \E t \in P : IsRef(t) /\ Coerces(tag, t[3])
                t == IF tag = <<>> THEN Default(P) ELSE tag
                bound == Binding(s[2][1], t)
            IN IF P = {} \/ (tag # <<>> /\ ~Accepts(P, tag) /\ ~derefs) THEN [st EXCEPT !.ok = FALSE]
               ELSE [ok |-> st.ok /\ Binds(bound), ends |-> st.ends \/ P = {Never},
                     env |-> WithNames(st.env, bound.names)],
    [ok |-> TRUE, ends |-> FALSE, env |-> env], stmts)

MutPlace(env, e) ==
  CASE e[1] = "path" -> Len(e[2]) = 1 /\ Symbols(env, e[2][1]).mut
    [] e[1] = "grouped" -> MutPlace(env, e[3][1])
    [] e[1] = "deref" -> \E t \in Poss(env, e[3][1]) : IsRef(t) /\ t[2]
    [] e[1] \in {"field", "index"} ->
         \E t \in Poss(env, e[3][1]) : IF IsRef(t) THEN t[2] ELSE MutPlace(env, e[3][1])
    [] OTHER -> FALSE

\* The type a part is taken from: of a struct or an array, or behind a reference.
Behind(t) == IF IsRef(t) THEN t[3] ELSE t
Operands(op, P, Q) ==
  CASE op \in {"+", "-", "*", "/", "%"} -> P \cap Q \cap Integer
    [] op \in BitOps -> P \cap Q \cap (Integer \cup {Bool})
    [] op \in Shifts -> IF Q \cap Integer = {} THEN {} ELSE P \cap Integer
\* Called by its path, a method takes its object as the first argument.
WithSelf(f) == (IF f.self = NoType THEN <<>> ELSE <<f.self>>) \o f.params
ArgumentsAgree(env, params, es) ==
  Len(params) = Len(es) /\ \A k \in DOMAIN es : Accepts(Poss(env, es[k]), params[k])
SelfAgrees(self, t, mutable) ==
  \/ self = NoType \/ self = t
  \/ IsRef(self) /\ Behind(t) = self[3] /\ (self[2] => IF IsRef(t) THEN t[2] ELSE mutable)
RECURSIVE BreaksIn(_)
BreaksIn(e) ==
  IF e[1] = "break" THEN {e}
  ELSE UNION {BreaksIn(c) : c \in {d \in ToSet(e[3]) : d[1] \notin Loops}}

Poss(env, e) ==
  LET kids == e[3]
      P(k) == Poss(env, kids[k])
      args == SubSeq(kids, 2, Len(kids))
  IN CASE e[1] = "literal" ->
            IF e[2][2] = "int" THEN {t \in Integer : Holds(t, e[2][1])}
            ELSE IF e[2][2] = "bool" THEN {Bool}
            ELSE {t \in {Prime(e[2][2])} : Holds(t, e[2][1])}
       [] e[1] = "path" ->
            IF Len(e[2]) = 2
            THEN LET s == Symbols(env, e[2][1])
                 IN IF s.kind = "struct" /\ <<s.type, e[2][2]>> \in DOMAIN Functions THEN {FunctionType(<<s.type, e[2][2]>>)}
                    ELSE IF s.kind = "enum" /\ e[2] \in Enums THEN {s.type} ELSE {}
            ELSE IF e[2][1] = "self" THEN (IF program.self = "none" THEN {} ELSE {SelfType})
            ELSE IF Symbols(env, e[2][1]).kind \in {"none", "enum"} THEN {} ELSE {Symbols(env, e[2][1]).type}
       [] e[1] = "borrow" -> {Ref(e[2], t) : t \in P(1)}
       [] e[1] = "deref" -> {t[3] : t \in {u \in P(1) : IsRef(u)}}
       [] e[1] = "negation" /\ e[2] = "!" -> P(1) \cap (Integer \cup {Bool})
       [] e[1] = "negation" /\ e[2] = "-" ->
            IF kids[1][1] = "literal" /\ kids[1][2][2] # "bool"
            THEN {t \in Signed : /\ kids[1][2][1] <= MaxValue(t[2]) + 1
                                 /\ kids[1][2][2] = "int" \/ t = Prime(kids[1][2][2])}
            ELSE P(1) \cap Signed
       [] e[1] = "arith" -> Operands(e[2], P(1), P(2))
       [] e[1] = "comparison" ->
            IF \E t \in P(1) : (e[2] \in {"==", "!="} \/ IsPrime(t)) /\ \E u \in P(2) : Coerces(t, u) \/ Coerces(u, t)
            THEN {Bool} ELSE {}
       [] e[1] = "lazy" -> IF Accepts(P(1), Bool) /\ Accepts(P(2), Bool) THEN {Bool} ELSE {}
       [] e[1] = "cast" ->
            IF \E t \in P(1) : IsPrime(t) /\ (IsInteger(e[2]) \/ t = e[2]) THEN {e[2]} ELSE {}
       [] e[1] = "assign" -> IF MutPlace(env, kids[1]) /\ \E t \in P(1) : Accepts(P(2), t) THEN {Unit} ELSE {}
       [] e[1] = "compound" -> IF MutPlace(env, kids[1]) /\ Operands(e[2], P(1), P(2)) # {} THEN {Unit} ELSE {}
       [] e[1] = "grouped" -> P(1)
       [] e[1] = "array" -> {ArrayType(Len(kids), t) : t \in {u \in UNION {P(k) : k \in DOMAIN kids} : \A k \in DOMAIN kids : Accepts(P(k), u)}}
       [] e[1] = "repeated" -> {ArrayType(e[2], t) : t \in P(1)}
       [] e[1] = "index" ->
            IF \E t \in P(2) : IsUnsigned(t) THEN {Behind(t)[3] : t \in {u \in P(1) : Behind(u)[1] = "array"}} ELSE {}
       [] e[1] = "tuple" ->
            {TupleType(ts) : ts \in FoldLeft(LAMBDA S, k : {Append(s, t) : s \in S, t \in P(k)}, {<<>>}, [k \in DOMAIN kids |-> k])}
       [] e[1] = "struct" ->
            {t \in P(1) : /\ t[1] = "struct"
                          /\ ToSet(e[2]) = DOMAIN Structs[t[2]] /\ Cardinality(ToSet(e[2])) = Len(e[2])
                          /\ \A k \in DOMAIN e[2] : Accepts(P(k + 1), Structs[t[2]][e[2][k]])}
       [] e[1] = "call" ->
            {Functions[t[2]].ret : t \in {u \in P(1) : /\ u[1] = "function"
                                                        /\ ArgumentsAgree(env, WithSelf(Functions[u[2]]), args)}}
       [] e[1] = "method" ->
            {Functions[MethodOf(t, e[2])].ret :
               t \in {u \in P(1) : /\ MethodOf(u, e[2]) # <<>>
                                   /\ SelfAgrees(Functions[MethodOf(u, e[2])].self, u, MutPlace(env, kids[1]))
                                   /\ ArgumentsAgree(env, Functions[MethodOf(u, e[2])].params, args)}}
       [] e[1] = "field" ->
            {Structs[Behind(t)[2]][e[2]] :
               t \in {u \in P(1) : Behind(u)[1] = "struct" /\ e[2] \in DOMAIN Structs[Behind(u)[2]]}}
       [] e[1] = "continue" -> {Never}
       [] e[1] = "break" -> IF kids # <<>> /\ P(1) = {} THEN {} ELSE {Never}
       [] e[1] = "return" ->
            IF IF kids = <<>> THEN program.ret = Unit ELSE Accepts(P(1), program.ret) THEN {Never} ELSE {}
       [] e[1] \in {"block", "body"} ->
            LET st == After(env, IF e[2] THEN Front(kids) ELSE kids)
                tail == IF e[2] THEN Poss(st.env, Last(kids)) ELSE {Unit}
            IN IF ~st.ok \/ tail = {} THEN {} ELSE IF st.ends THEN {Never} ELSE tail
       [] e[1] = "loop" ->
            LET values == {IF b[3] = <<>> THEN {Unit} ELSE Poss(env, b[3][1]) : b \in BreaksIn(kids[1])}
            IN IF P(1) = {} THEN {}
               ELSE IF values = {} THEN {Never}
               ELSE {t \in UNION values : \A Q \in values : Accepts(Q, t)}
       [] e[1] = "while" -> IF Accepts(P(1), Bool) /\ Accepts(P(2), Unit) THEN {Unit} ELSE {}
       [] e[1] = "if" ->
            IF ~Accepts(P(1), Bool) THEN {} ELSE Join(P(2), IF Len(kids) = 3 THEN P(3) ELSE {Unit})

-----------------------------------------------------------------------------
\* The ways control can leave a node of the table.
RECURSIVE Leaves(_)
Leaves(k) ==
  LET n == nodes[k]
      Then(ways, next) == IF "next" \in ways THEN (ways \ {"next"}) \cup next ELSE ways
      Sequence(kids) == FoldLeft(LAMBDA ways, j : Then(ways, Leaves(j)), {"next"}, kids)
      block == Leaves(Last(n.kids))
  IN CASE n.kind \in {"break", "continue", "return"} -> Then(Sequence(n.kids), {n.kind})
       [] n.kind = "lazy" -> Then(Leaves(n.kids[1]), {"next"} \cup Leaves(n.kids[2]))
       [] n.kind = "if" ->
            Then(Leaves(n.kids[1]), Leaves(n.kids[2]) \cup (IF Len(n.kids) = 3 THEN Leaves(n.kids[3]) ELSE {"next"}))
       [] n.kind = "loop" -> {w \in block : w = "return"} \cup {"next" : w \in block \cap {"break"}}
       [] n.kind = "while" -> Then(Leaves(n.kids[1]), {"next"} \cup {w \in block : w = "return"})
       [] OTHER -> Sequence(n.kids)

\* exit is called in main only, and no statement is begun after it.
Exits == {k \in DOMAIN nodes : nodes[k].kind = "call" /\ nodes[nodes[k].kids[1]].at = <<"exit">>}
Statements == UNION {ToSet(nodes[k].kids) : k \in {j \in DOMAIN nodes : nodes[j].kind \in {"block", "body"}}}
ExitsLast ==
  \A k \in Exits : program.name = "main" /\ \A s \in Statements : s > k => s \in Descendants(nodes, k, {})

\* The parameters are bound together.
Parameters ==
  LET bound == [k \in DOMAIN program.params |-> Binding(program.params[k][1], program.params[k][2])]
  IN [fits |-> \A k \in DOMAIN bound : bound[k].fits,
      names |-> FlattenSeq([k \in DOMAIN bound |-> bound[k].names])]
WellTyped ==
  /\ Collected(nodes) /\ ExitsLast /\ Binds(Parameters)
  /\ Accepts(Poss(WithNames(Globals, Parameters.names), program.body), program.ret)

-----------------------------------------------------------------------------
(***************************************************************************)
(* Where the checker decides differently, each at a node of the program.   *)
(***************************************************************************)
\* An operand no type is determined for when its operator is checked.
Loose(k) == \E j \in Descendants(nodes, k, {}) : nodes[j].kind = "literal" /\ nodes[j].at[2] \in {"int", "bool"}
Large(k) == \E j \in Descendants(nodes, k, {}) : nodes[j].kind = "literal" /\ nodes[j].at[2] = "int" /\ nodes[j].at[1] > 127
\* Patterns bound otherwise, or not at all.
RECURSIVE PatternGap(_, _)
PatternGap(p, t) ==
  \/ p[1] = "grouped" /\ PatternGap(p[3][1], t)
  \* what is behind & is bound with the type of the reference
  \/ p[1] = "reference" /\ IsRef(t)
  \* tuples and structs are not taken apart through a reference
  \/ p[1] \in {"tuple", "struct"} /\ IsRef(t)
  \* members of a tuple pattern after the first are not found
  \/ /\ p[1] = "tuple" /\ t[1] = "tuple" /\ Len(p[3]) = Len(t[2])
     /\ Len(p[3]) > 1 \/ \E k \in DOMAIN p[3] : PatternGap(p[3][k], t[2][k])
  \* a field may be given twice
  \/ /\ p[1] = "struct" /\ t = StructType(p[2][1])
     /\ \/ ~IsInjective(p[2][2])
        \/ \E k \in DOMAIN p[3] : p[2][2][k] \in DOMAIN Structs[t[2]] /\ PatternGap(p[3][k], Structs[t[2]][p[2][2][k]])
\* A name may be bound twice, and the function is looked up after its own names.
NamesGap(names) == ~IsInjective(names) \/ program.name \in ToSet(names)
LetGap(n) ==
  LET t == IF n.at[2] = <<>> THEN types[n.kids[1]] ELSE n.at[2]
  IN PatternGap(n.at[1], t) \/ NamesGap(NamesOf(Binding(n.at[1], t)))
ParametersGap ==
  \/ \E k \in DOMAIN program.params : PatternGap(program.params[k][1], program.params[k][2])
  \/ NamesGap(NamesOf(Parameters))
LoopGap(k) == nodes[k].kind \in Loops /\ "next" \notin Leaves(Last(nodes[k].kids))
Gap(k) ==
  LET n == nodes[k]
      Kid(j) == nodes[n.kids[j]]
  IN \* the left operand of a bit operator must be determined, bool cannot be
     \* but can be added, and a shift brings its operands to one type
     \/ n.kind \in {"arith", "compound"} /\ n.at \in BitOps \cup Shifts /\ (Loose(n.kids[1]) \/ Loose(n.kids[2]))
     \/ n.kind \in {"arith", "compound"} /\ \E j \in {1, 2} : types[n.kids[j]] = Bool
     \* a literal operand is taken to be negative, whatever the operator
     \/ n.kind = "negation" /\ Kid(1).kind = "literal" /\ (n.at = "!" \/ Kid(1).at[2] # "int")
     \* set_type is called without a look at what it returns
     \/ n.kind \in {"if", "array", "repeated", "assign", "struct", "return", "body"} /\ Large(k)
     \* a method called by its path is not given its object
     \/ /\ n.kind = "call" /\ types[n.kids[1]][1] = "function"
        /\ Functions[types[n.kids[1]][2]].self # NoType
     \* what a method is called on is a left side, even for &self
     \/ n.kind = "method" /\ Kid(1).kind \in {"field", "index"}
     \* a place in parentheses is no left side
     \/ n.kind \in {"assign", "compound"} /\ Kid(1).kind = "grouped"
     \* a loop returns when its block does, and never ends without a break
     \/ LoopGap(k)
     \* a while has the type of the tail of its block
     \/ n.kind = "while" /\ Kid(2).at
     \/ n.kind = "loop" /\ Breaks(nodes, k) = <<>>
     \/ n.kind = "loop" /\ Cardinality({Carried(Breaks(nodes, k)[j]) : j \in DOMAIN Breaks(nodes, k)}) > 1
     \* a condition must come to a value
     \/ n.kind \in {"if", "while", "lazy"} /\ \E j \in (IF n.kind = "lazy" THEN {1, 2} ELSE {1}) : types[n.kids[j]] = Never
     \/ n.kind = "let" /\ LetGap(n)
     \* a block goes on after a let that does not
     \/ /\ n.kind = "block" \/ (n.kind = "body" /\ program.ret # Unit)
        /\ \E j \in DOMAIN n.kids : Kid(j).kind = "let" /\ "next" \notin Leaves(n.kids[j])
Covered == ~ParametersGap /\ \A k \in DOMAIN nodes : ~Gap(k)

\* A function is accepted exactly when it is well typed.
Decides == verdict # "running" /\ Covered => (verdict = "accepted" <=> WellTyped)

\* A node marked always_returns is never left by reaching its end.
NeverCompletes == \A k \in always : (\A j \in Descendants(nodes, k, {}) : ~LoopGap(j)) => "next" \notin Leaves(k)

-----------------------------------------------------------------------------
\* The type a node is given code for: what was never determined is i32.
RECURSIVE Settled(_)
Settled(t) ==
  CASE t = KInt -> Prime("i32")
    [] IsRef(t) -> Ref(t[2], Settled(t[3]))
    [] t[1] = "array" -> ArrayType(t[2], Settled(t[3]))
    [] t[1] = "tuple" -> TupleType([k \in DOMAIN t[2] |-> Settled(t[2][k])])
    [] OTHER -> t
Agree(k) ==
  LET n == nodes[k]
      T(j) == Settled(types[n.kids[j]])
      t == Settled(types[k])
      Gives(j, u) == T(j) = Never \/ Coerces(u, T(j))
      Give(params) == \A j \in DOMAIN params : Gives(j + 1, params[j])
  IN CASE n.kind = "arith" -> T(1) = t /\ (n.at \notin Shifts => T(2) = t)
       [] n.kind = "comparison" -> Coerces(T(1), T(2)) \/ Coerces(T(2), T(1))
       [] n.kind \in {"negation", "grouped"} -> T(1) = t
       [] n.kind = "borrow" -> t[3] = T(1)
       [] n.kind \in {"array", "repeated"} -> \A j \in DOMAIN n.kids : Coerces(t[3], T(j))
       [] n.kind = "tuple" -> \A j \in DOMAIN n.kids : t[2][j] = T(j)
       [] n.kind = "assign" -> Gives(2, T(1))
       [] n.kind = "compound" -> n.at \notin Shifts => T(1) = T(2)
       [] n.kind = "index" -> T(2) = Prime("usize")
       [] n.kind = "struct" -> \A j \in DOMAIN n.at : Gives(j + 1, Structs[t[2]][n.at[j]])
       [] n.kind = "call" -> Give(Functions[T(1)[2]].params)
       [] n.kind = "method" -> Give(Functions[MethodOf(T(1), n.at)].params)
       [] n.kind = "return" -> n.kids # <<>> => Gives(1, program.ret)
       [] n.kind = "if" -> Gives(2, t) /\ (Len(n.kids) = 3 => Gives(3, t))
       [] n.kind \in {"block", "body"} -> TailOf(n) = {} \/ t = Never \/ Gives(Len(n.kids), t)
       [] n.kind = "let" -> n.at[2] = <<>> \/ Gives(1, n.at[2]) \/ (IsRef(T(1)) /\ Coerces(n.at[2], T(1)[3]))
       [] OTHER -> TRUE
\* What set_type does not reach: the tails of blocks and the members of tuples.
Late(k) ==
  \/ nodes[k].kind \in {"if", "block", "tuple"} /\ Loose(k)
  \/ nodes[k].kind \in {"array", "repeated", "assign", "struct", "return", "body"} /\ Large(k)

\* In an accepted function the type of every node agrees with those of its parts.
OneType ==
  verdict = "accepted" /\ (\A k \in DOMAIN nodes : ~Late(k)) => \A k \in DOMAIN nodes : Agree(k)

-----------------------------------------------------------------------------
RECURSIVE Mentions(_)
Mentions(t) ==
  CASE t[1] = "struct" -> {t[2]}
    [] t[1] = "array" -> Mentions(t[3])
    [] t[1] = "tuple" -> UNION {Mentions(t[2][k]) : k \in DOMAIN t[2]}
    [] OTHER -> {}
Apart(ts, layout) ==
  /\ layout.size % layout.align = 0
  /\ \A k \in DOMAIN ts :
       /\ layout.offsets[k] % Align(layouts, ts[k]) = 0
       /\ layout.offsets[k] + Size(layouts, ts[k])
            <= IF k = Len(ts) THEN layout.size ELSE layout.offsets[k + 1]
\* A struct that uses structs declared before it, and nothing without an
\* alignment, has its fields one after the other, each aligned, within its size.
FieldsApart ==
  LET decls == program.decls
      Before(k) == {decls[j].name : j \in 1..k - 1}
  IN \A k \in DOMAIN decls :
       LET ts == decls[k].types
       IN (/\ ts # <<>> /\ Len(layouts[decls[k].name].offsets) = Len(ts)
           /\ \A i \in DOMAIN ts : Mentions(ts[i]) \subseteq Before(k) /\ Align(layouts, ts[i]) # 0)
          => Apart(ts, layouts[decls[k].name])
=============================================================================
