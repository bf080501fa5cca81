------------------------------ MODULE TypeFiller ------------------------------
(***************************************************************************)
(* TypeFiller in src/frontend/syntax_check.cpp: the pass over the body of  *)
(* a function that gives every expression its type, checks the rules of    *)
(* the language and marks places and expressions that always return.       *)
(*                                                                         *)
(* A recursive visitor is run here as a stack of pending visits: "visit"   *)
(* is preVisit and the visits of the children, "stmt" the visit of a child *)
(* of a block by visit(Statements), "post" the postVisit handler, of which *)
(* there is one action per kind of node, and "function" the rest of        *)
(* visit(Function).  Types are determined late: set_type on an expression  *)
(* already typed passes the type on to its parts (Reach).                  *)
(*                                                                         *)
(* A report makes main.cpp stop after the pass with an error, so the       *)
(* first one ends the run here: "rejected".  "crashed" stands for a null   *)
(* pointer followed and for an exception.                                  *)
(***************************************************************************)
EXTENDS Ast, Types, FiniteSets

CONSTANTS
  Programs,  \* families of programs, each a set of
             \* [decls, name, self, impl, params, ret, body]: the structs a crate
             \* declares, [name, types] in its order, and a function to check
  Globals,   \* symbols of the crate's scope: name -> [kind, type, mut]
  Structs,   \* structs: name -> sequence of [name, type]
  Functions, \* <<type, name>> -> [self, params, ret]: the methods of a type, and
             \* the functions, of type NoType; self is NoType without a caller
  Enums,     \* <<enum, variant>>
  Unset      \* layouts a struct may have by chance before its fields are set

VARIABLES
  program,   \* the function being checked
  nodes,     \* its body as a table
  layouts,   \* size, alignment and offsets of the declared structs
  types,     \* TypeInfo: the type of each node, or NoType
  placeMut,  \* nodes with is_place_mut
  lside,     \* nodes with is_lside
  always,    \* nodes with always_returns
  scopes,    \* symbols of the open scopes, innermost last
  exited,    \* _might_have_exited
  todo,      \* pending visits
  verdict    \* "running", "accepted", "rejected" or "crashed"

vars == <<program, nodes, layouts, types, placeMut, lside, always, scopes, exited, todo, verdict>>

\* The largest value of an integer type, cut to the integers of the checker:
\* literals are far below the limit of the wide types.
MaxValue(p) == CASE p = "i8" -> 127 [] p = "u8" -> 255 [] OTHER -> 2147483646

-----------------------------------------------------------------------------
\* What SymbolCollector records: the loop a break belongs to and the returns.
RECURSIVE Descendants(_, _, _)
Descendants(tab, id, stop) ==
  {id} \cup UNION {Descendants(tab, k, stop) : k \in {j \in ToSet(tab[id].kids) : tab[j].kind \notin stop}}
Sorted(S) == SetToSortSeq(S, LAMBDA a, b : a < b)
Loops == {"loop", "while"}
Breaks(tab, loop) == Sorted({k \in Descendants(tab, loop, Loops) : tab[k].kind = "break"})
Returns(tab) == Sorted({k \in DOMAIN tab : tab[k].kind = "return"})
\* break and continue outside a loop are reported before this pass.
Collected(tab) ==
  \A k \in Descendants(tab, 1, Loops) : tab[k].kind \notin {"break", "continue"}

Lookup(name) ==
  LET in == {k \in DOMAIN scopes : name \in DOMAIN scopes[k]}
  IN IF in = {} THEN [kind |-> "none", type |-> NoType, mut |-> FALSE]
     ELSE scopes[CHOOSE k \in in : \A j \in in : j <= k][name]
TailOf(n) == IF n.kids # <<>> /\ n.at THEN {Last(n.kids)} ELSE {}
\* The expression statements of a block: its children but let and the tail.
ExpressionStatements(n) == {k \in ToSet(n.kids) \ TailOf(n) : nodes[k].kind # "let"}

-----------------------------------------------------------------------------
\* set_type(t) on node id: the nodes it reaches, with the type each receives.
\* negated is the from_neg of a literal's set_type.
RECURSIVE Reach(_, _, _)
Reach(id, t, negated) ==
  LET n == nodes[id]
      All(kids, u) == UNION {Reach(k, u, FALSE) : k \in kids}
  IN {<<id, t, negated>>} \cup
     CASE n.kind = "borrow" /\ IsRef(t) -> All(ToSet(n.kids), t[3])
       [] n.kind = "negation" -> Reach(n.kids[1], t, nodes[n.kids[1]].kind = "literal")
       [] n.kind \in {"arith", "grouped"} -> All(ToSet(n.kids), t)
       [] n.kind \in {"array", "repeated"} /\ t[1] = "array" -> All(ToSet(n.kids), t[3])
       [] n.kind = "body" ->
            All(TailOf(n) \cup UNION {ToSet(nodes[r].kids) : r \in ToSet(Returns(nodes))}, t)
       [] OTHER -> {}

\* LiteralExpression::set_type: an integer must fit, a negated one is never
\* unsigned and may be one larger.
Takes(r) ==
  LET value == nodes[r[1]].at[1]
      t == r[2]
  IN IsInteger(t) => /\ nodes[r[1]].at[2] # "bool"
                     /\ IsUnsigned(t) => ~r[3]
                     /\ value <= MaxValue(t[2]) + (IF r[3] THEN 1 ELSE 0)
IsLiteral(r) == nodes[r[1]].kind = "literal"
\* What set_type returns, and whether it follows a null pointer or throws on
\* the way.
Fits(reach) == \A r \in reach : IsLiteral(r) => Takes(r)
Derails(reach) == \E r \in reach :
  \/ nodes[r[1]].kind = "borrow" /\ ~IsRef(r[2])
  \/ nodes[r[1]].kind \in {"array", "repeated"} /\ r[2][1] # "array"
SetTypes(ts, reach) ==
  LET done == {r \in reach : IsLiteral(r) => Takes(r)}
  IN [k \in DOMAIN ts |-> IF \E r \in done : r[1] = k THEN (CHOOSE r \in done : r[1] = k)[2] ELSE ts[k]]

-----------------------------------------------------------------------------
Here == todo[1][2]
N == nodes[Here]
Ty(k) == types[N.kids[k]]
Running(event) == verdict = "running" /\ todo # <<>> /\ todo[1][1] = event
Post(kind) == Running("post") /\ N.kind = kind

\* The end of a handler: checks says that nothing was reported, reach what its
\* set_type calls on other nodes reached, own what its call on the node itself
\* did, and passed what the verdict is then.
Reject == verdict' = "rejected" /\ todo' = <<>> /\ UNCHANGED types
Crash == verdict' = "crashed" /\ todo' = <<>> /\ UNCHANGED types
Finish(checks, reach, own, passed) ==
  /\ \/ ~checks /\ Reject
     \/ checks /\ Derails(reach \cup own) /\ Crash
     \/ /\ checks /\ ~Derails(reach \cup own)
        /\ types' = SetTypes(SetTypes(types, reach), own)
        /\ todo' = Tail(todo) /\ verdict' = passed
  /\ UNCHANGED <<program, nodes, layouts, lside>>
\* The node gets the type t, when its parts have one: a literal too large for
\* its suffix has none.
Got == N.kind \in {"block", "body"} \/ \A k \in ToSet(N.kids) : types[k] # NoType
Outcome(checks, reach, t) == Finish(Got /\ checks, reach, Reach(Here, t, FALSE), "running")
Typed(checks, t) == Outcome(checks, {}, t)
MarkPlace(b) == placeMut' = IF b THEN placeMut \cup {Here} ELSE placeMut
MarkAlways(b) == always' = IF b THEN always \cup {Here} ELSE always
Plain == UNCHANGED <<placeMut, always, scopes, exited>>

-----------------------------------------------------------------------------
\* PreTypeFiller::postVisit(StructStruct), which comes before: the fields of a
\* struct are placed with the sizes their types have by then.
DeclareStruct ==
  /\ Running("struct")
  /\ LET decl == program.decls[Here]
     IN layouts' = [layouts EXCEPT ![decl.name] = Fill(layouts, decl.types)]
  /\ todo' = Tail(todo)
  /\ UNCHANGED <<program, nodes, types, placeMut, lside, always, scopes, exited, verdict>>

\* RecursiveVisitor::visit and the preVisit handlers: what is assigned to, and
\* what a method is called on, is a left side; so is what it is a part of.
PreLside ==
  IF \/ N.kind \in {"assign", "compound", "method"}
     \/ N.kind \in {"index", "field"} /\ Here \in lside
  THEN {N.kids[1]} ELSE {}
Visit ==
  /\ Running("visit")
  /\ LET event == IF N.kind \in {"block", "body"} THEN "stmt" ELSE "visit"
     IN todo' = [k \in DOMAIN N.kids |-> <<event, N.kids[k]>>] \o <<<<"post", Here>>>> \o Tail(todo)
  /\ lside' = lside \cup PreLside
  /\ scopes' = IF N.kind = "block" THEN Append(scopes, <<>>) ELSE scopes
  /\ UNCHANGED <<program, nodes, layouts, types, placeMut, always, exited, verdict>>

\* visit(Statements): nothing may follow a call of exit in main.
VisitStatement ==
  /\ Running("stmt")
  /\ IF program.name = "main" /\ exited
     THEN verdict' = "rejected" /\ todo' = <<>>
     ELSE todo' = <<<<"visit", Here>>>> \o Tail(todo) /\ UNCHANGED verdict
  /\ UNCHANGED <<program, nodes, layouts, types, lside>> /\ Plain

PostLiteral == Post("literal") /\ Typed(TRUE, Prime(N.at[2])) /\ Plain

\* self has the type its parameter gives it; a name of two parts is a method
\* or an enum variant.
SelfType ==
  CASE program.self = "value" -> program.impl
    [] program.self = "ref" -> Ref(FALSE, program.impl)
    [] program.self = "refmut" -> Ref(TRUE, program.impl)
PostPath ==
  /\ Post("path")
  /\ LET info == Lookup(N.at[1])
         name == <<info.type, N.at[Len(N.at)]>>
     IN IF Len(N.at) = 2
        THEN /\ Typed(\/ info.kind = "struct" /\ name \in DOMAIN Functions
                      \/ info.kind = "enum" /\ <<N.at[1], N.at[2]>> \in Enums,
                      IF info.kind = "struct" THEN FunctionType(name) ELSE info.type)
             /\ UNCHANGED placeMut
        ELSE IF N.at[1] = "self"
        THEN Typed(program.self # "none", SelfType) /\ UNCHANGED placeMut
        ELSE /\ Typed(info.kind \in {"constant", "variable", "function", "struct"}, info.type)
             /\ MarkPlace(info.kind = "variable" /\ info.mut)
  /\ UNCHANGED <<always, scopes, exited>>

PostBorrow == Post("borrow") /\ Typed(TRUE, Ref(N.at, Ty(1))) /\ Plain
PostDeref ==
  /\ Post("deref")
  /\ Typed(IsRef(Ty(1)), Ty(1)[3])
  /\ MarkPlace(IsRef(Ty(1)) /\ Ty(1)[2])
  /\ UNCHANGED <<always, scopes, exited>>
PostNegation ==
  /\ Post("negation")
  /\ Typed(/\ IsPrime(Ty(1))
           /\ N.at = "-" => IsNumber(Ty(1)) /\ ~IsUnsigned(Ty(1)),
           Ty(1))
  /\ Plain

\* combine_prime
Combine(p, q) ==
  CASE p = q -> p
    [] p = KInt /\ IsInteger(q) -> q
    [] q = KInt /\ IsInteger(p) -> p
    [] OTHER -> NoType
\* The type two operands are brought to, and what set_type reaches by it.
Common(t, u) == IF Convertible(u, t) THEN u ELSE t
Induced_RightOnly(t, u) == IF Common(t, u) # u THEN Reach(N.kids[2], Common(t, u), FALSE) ELSE {}
Induced(t, u) ==
  (IF Common(t, u) # t THEN Reach(N.kids[1], Common(t, u), FALSE) ELSE {})
    \cup (IF Common(t, u) # u THEN Reach(N.kids[2], Common(t, u), FALSE) ELSE {})
Shifts == {"<<", ">>"}
BitOps == {"&", "|", "^"}
\* The default type of a literal that nothing determines.
Determined(t) == IF t = KInt THEN Prime("i32") ELSE t
OperatorAllows(op, t, u) ==
  IF op \in Shifts THEN IsInteger(Determined(t)) /\ (IsInteger(u) \/ u = KInt)
  ELSE Combine(t, u) # NoType /\ (op \in BitOps => IsInteger(t))
PostArith ==
  /\ Post("arith")
  /\ LET t == Ty(1)
         u == Ty(2)
     IN Outcome(/\ IsPrime(t) /\ IsPrime(u)
                /\ Fits(Induced(t, u)) /\ OperatorAllows(N.at, t, u),
                IF IsPrime(t) /\ IsPrime(u) THEN Induced(t, u) ELSE {},
                IF N.at \in Shifts THEN Determined(t) ELSE Combine(t, u))
  /\ Plain
PostComparison ==
  /\ Post("comparison")
  /\ LET t == Ty(1)
         u == Ty(2)
     IN Outcome(/\ Fits(Induced(t, u))
                /\ IF N.at \in {"==", "!="} THEN Convertible(t, u) \/ Convertible(u, t)
                   ELSE IsPrime(t) /\ IsPrime(u) /\ Combine(t, u) # NoType,
                Induced(t, u), Bool)
  /\ Plain
PostLazy == Post("lazy") /\ Typed(Ty(1) = Bool /\ Ty(2) = Bool, Bool) /\ Plain
PostCast ==
  /\ Post("cast")
  /\ Typed(IsPrime(Ty(1)) /\ IsPrime(N.at) /\ (IsInteger(N.at) \/ Ty(1) = N.at), N.at)
  /\ Plain

PostAssign ==
  /\ Post("assign")
  /\ LET t == Ty(1)
         u == Ty(2)
     IN Outcome(N.kids[1] \in placeMut /\ Convertible(t, u),
                IF t # u THEN Reach(N.kids[2], t, FALSE) ELSE {}, Unit)
  /\ Plain
PostCompound ==
  /\ Post("compound")
  /\ LET t == Ty(1)
         u == Ty(2)
     IN Outcome(/\ N.kids[1] \in placeMut
                /\ IsPrime(t) /\ IsPrime(u) /\ Fits(Induced(t, u))
                /\ OperatorAllows(N.at, t, u)
                /\ N.at \notin Shifts => Combine(t, u) = t,
                Induced(t, u), Unit)
  /\ Plain
PostGrouped ==
  /\ Post("grouped")
  /\ Typed(TRUE, Ty(1))
  /\ MarkPlace(N.kids[1] \in placeMut)
  /\ UNCHANGED <<always, scopes, exited>>

-----------------------------------------------------------------------------
\* Elements, returned values: each must be convertible to or from the type of
\* those before it, and the wider of the two is kept.
Merge(t, u) ==
  CASE Convertible(u, t) -> u
    [] ~Convertible(u, t) /\ Convertible(t, u) -> t
    [] OTHER -> NoType
\* The same for the branches of an if, where never gives way.
MergeBranches(t, u) ==
  CASE Coercible(u, t) -> u
    [] ~Coercible(u, t) /\ Coercible(t, u) -> t
    [] OTHER -> NoType
Merged(ts) == FoldLeft(Merge, Head(ts), ts)
PostArray ==
  /\ Post("array")
  /\ LET t == Merged([k \in DOMAIN N.kids |-> Ty(k)])
     IN Typed(t # NoType, ArrayType(Len(N.kids), t))
  /\ Plain
PostRepeated == Post("repeated") /\ Typed(TRUE, ArrayType(N.at, Ty(1))) /\ Plain

\* An element of an array, or of an array behind a reference.
PostIndex ==
  /\ Post("index")
  /\ LET t == Ty(1)
         array == IF IsRef(t) THEN t[3] ELSE t
         reach == IF Ty(2) = Prime("usize") THEN {} ELSE Reach(N.kids[2], Prime("usize"), FALSE)
         isArray == array[1] = "array"
     IN /\ Outcome((IsUnsigned(Ty(2)) \/ Ty(2) = KInt) /\ Fits(reach) /\ isArray, reach,
                   IF isArray THEN array[3] ELSE NoType)
        /\ MarkPlace(Here \in lside /\ (IF IsRef(t) THEN t[2] ELSE N.kids[1] \in placeMut))
  /\ UNCHANGED <<always, scopes, exited>>
PostTuple == Post("tuple") /\ Typed(TRUE, TupleType([k \in DOMAIN N.kids |-> Ty(k)])) /\ Plain

\* A struct expression gives each field once; its first child is the path.
PostStruct ==
  /\ Post("struct")
  /\ LET isStruct == Ty(1)[1] = "struct"
         fields == IF isStruct THEN Structs[Ty(1)[2]] ELSE <<>>
         given == {k \in DOMAIN N.at : N.at[k] \in DOMAIN fields}
     IN Outcome(/\ isStruct /\ given = DOMAIN N.at
                /\ \A k, j \in given : k # j => N.at[k] # N.at[j]
                /\ \A k \in given : Convertible(fields[N.at[k]], Ty(k + 1))
                /\ DOMAIN fields \subseteq ToSet(N.at),
                UNION {Reach(N.kids[k + 1], fields[N.at[k]], FALSE) : k \in given},
                Ty(1))
  /\ Plain

\* The arguments are the children after the first, which is the function or
\* the caller.  Whether a value fits is asked of undetermined ones only.
Arguments == DOMAIN SubSeq(N.kids, 2, Len(N.kids))
ReachArguments(params) ==
  UNION {Reach(N.kids[k + 1], params[k], FALSE) :
           k \in {j \in Arguments : j \in DOMAIN params /\ Ty(j + 1) # params[j]}}
ArgumentsFit(params) ==
  /\ Arguments = DOMAIN params
  /\ \A k \in Arguments :
       /\ Convertible(params[k], Ty(k + 1))
       /\ Ty(k + 1) = KInt => Fits(Reach(N.kids[k + 1], params[k], FALSE))
PostCall ==
  /\ Post("call")
  /\ LET isFunction == Ty(1)[1] = "function"
         f == IF isFunction THEN Functions[Ty(1)[2]] ELSE [params |-> <<>>, ret |-> NoType]
         exits == isFunction /\ Ty(1)[2][2] = "exit"
         allowed == isFunction /\ (exits => program.name = "main")
     IN \* The report of missing arguments counts them, and there are none.
        IF allowed /\ Arguments = {} /\ f.params # <<>>
        THEN Crash /\ UNCHANGED <<program, nodes, layouts, lside, exited>>
        ELSE /\ Outcome(allowed /\ ArgumentsFit(f.params), ReachArguments(f.params), f.ret)
             /\ exited' = (exited \/ exits)
  /\ UNCHANGED <<placeMut, always, scopes>>

\* A method of the caller's type, or of the type the caller refers to.
MethodOf(t, name) ==
  CASE <<t, name>> \in DOMAIN Functions -> <<t, name>>
    [] IsRef(t) /\ <<t, name>> \notin DOMAIN Functions /\ <<t[3], name>> \in DOMAIN Functions -> <<t[3], name>>
    [] OTHER -> <<>>
\* The caller is passed as it is, borrowed, or borrowed again.
CallerFits(self, t, mutable) ==
  \/ self = NoType
  \/ Convertible(self, t)
  \/ IsRef(self) /\ Convertible(self[3], t) /\ (mutable \/ ~self[2])
  \/ IsRef(self) /\ IsRef(t) /\ (t[2] \/ ~self[2]) /\ self[3] = t[3]
PostMethod ==
  /\ Post("method")
  /\ LET t == Determined(Ty(1))
         method == MethodOf(t, N.at)
         f == IF method # <<>> THEN Functions[method] ELSE [self |-> NoType, params |-> <<>>, ret |-> NoType]
     IN Outcome(/\ method # <<>>
                /\ CallerFits(f.self, t, N.kids[1] \in placeMut)
                /\ ArgumentsFit(f.params),
                (IF t # Ty(1) THEN Reach(N.kids[1], t, FALSE) ELSE {}) \cup ReachArguments(f.params),
                f.ret)
  /\ Plain

\* A field of a struct, or of a struct behind a reference; a left side must be
\* reached through something mutable.
PostField ==
  /\ Post("field")
  /\ LET t == Ty(1)
         struct == IF IsRef(t) THEN t[3] ELSE t
         has == struct[1] = "struct" /\ N.at \in DOMAIN Structs[struct[2]]
         mutable == IF IsRef(t) THEN t[2] ELSE N.kids[1] \in placeMut
     IN /\ Typed(has /\ (Here \in lside => mutable),
                 IF has THEN Structs[struct[2]][N.at] ELSE NoType)
        /\ MarkPlace(mutable /\ (IsRef(t) => Here \in lside))
  /\ UNCHANGED <<always, scopes, exited>>

-----------------------------------------------------------------------------
\* break, continue and return never reach their end.
PostJump ==
  /\ Running("post") /\ N.kind \in {"break", "continue", "return"}
  /\ Typed(TRUE, Never)
  /\ MarkAlways(TRUE)
  /\ UNCHANGED <<placeMut, scopes, exited>>

\* A block always returns when one of its expression statements or its tail
\* does; otherwise it has the type of its tail.
AlwaysReturns == \E k \in ExpressionStatements(N) \cup TailOf(N) : k \in always
TailType(n) == IF TailOf(n) = {} THEN Unit ELSE types[Last(n.kids)]
StatementsType == IF AlwaysReturns THEN Never ELSE TailType(N)
PostBlock ==
  /\ Post("block")
  /\ Typed(TailType(N) # NoType, StatementsType)
  /\ MarkAlways(AlwaysReturns)
  /\ scopes' = Front(scopes)
  /\ UNCHANGED <<placeMut, exited>>

\* The value of a jump that carries none is unit.
Carried(k) == IF nodes[k].kids = <<>> THEN Unit ELSE types[nodes[k].kids[1]]
PostBody ==
  /\ Post("body")
  /\ LET returned == [k \in DOMAIN Returns(nodes) |-> Carried(Returns(nodes)[k])]
         r == Merged(returned)
         t == StatementsType
     IN IF returned = <<>> THEN Typed(TailType(N) # NoType, t)
        ELSE Typed(TailType(N) # NoType /\ r # NoType /\ (Coercible(r, t) \/ Coercible(t, r)), IF Coercible(r, t) THEN r ELSE t)
  /\ MarkAlways(AlwaysReturns)
  /\ UNCHANGED <<placeMut, scopes, exited>>

\* The first break gives the type of a loop: the others are compared with the
\* type of the break itself, which is never.
PostLoop ==
  /\ Post("loop")
  /\ LET breaks == Breaks(nodes, Here)
     IN /\ Typed(breaks # <<>> => Carried(breaks[1]) # NoType, IF breaks = <<>> THEN Never ELSE Carried(breaks[1]))
        /\ MarkAlways(breaks # <<>> /\ N.kids[1] \in always)
  /\ UNCHANGED <<placeMut, scopes, exited>>
PostWhile ==
  /\ Post("while")
  /\ Typed(Ty(1) = Bool /\ TailType(nodes[N.kids[2]]) # NoType, TailType(nodes[N.kids[2]]))
  /\ MarkAlways(N.kids[1] \in always \/ N.kids[2] \in always)
  /\ UNCHANGED <<placeMut, scopes, exited>>

\* Without an else the other branch is unit, and returns not always.
IfReturns_Then(kids) == kids[1] \in always \/ ToSet(Tail(kids)) \subseteq always
IfReturns(kids) == kids[1] \in always \/ (Len(kids) = 3 /\ ToSet(Tail(kids)) \subseteq always)
PostIf ==
  /\ Post("if")
  /\ LET hasElse == Len(N.kids) = 3
         t == MergeBranches(Ty(2), IF hasElse THEN Ty(3) ELSE Unit)
     IN /\ Typed(Ty(1) = Bool /\ t # NoType, t)
        /\ MarkAlways(IfReturns(N.kids))
  /\ UNCHANGED <<placeMut, scopes, exited>>

-----------------------------------------------------------------------------
\* bind_pattern: the names a pattern binds, and whether the value has its form.
\* Without a type written, an undetermined literal gets the default type.  The
\* second member of a tuple pattern is read past the end of a vector (strays).
RECURSIVE Bind(_, _, _)
Bind(p, t, defaults) ==
  LET nothing == [fits |-> TRUE, strays |-> FALSE, names |-> <<>>]
      no == [nothing EXCEPT !.fits = FALSE]
      bound == IF defaults THEN Determined(t) ELSE t
      Variable(type, mut) == [nothing EXCEPT !.names = <<<<p[2][1], [kind |-> "variable", type |-> type, mut |-> mut]>>>>]
      Both(b, c) == [fits |-> b.fits /\ c.fits, strays |-> b.strays \/ c.strays, names |-> b.names \o c.names]
      Members(ts) == FoldLeft(Both, nothing, [k \in DOMAIN p[3] |-> Bind(p[3][k], ts[k], defaults)])
      fields == p[2][2]
  IN CASE p[1] = "name" -> Variable(bound, p[2][2])
       [] p[1] = "nameref" -> Variable(Ref(p[2][2], bound), FALSE)
       [] p[1] = "wildcard" -> nothing
       [] p[1] = "grouped" -> Bind(p[3][1], t, defaults)
       [] p[1] = "reference" -> IF IsRef(t) /\ t[2] = p[2] THEN Bind(p[3][1], t, defaults) ELSE no
       [] p[1] = "tuple" -> IF t[1] # "tuple" THEN no
                            ELSE IF Len(t[2]) # Len(p[3]) THEN no
                            ELSE IF Len(p[3]) > 1 THEN [no EXCEPT !.strays = TRUE]
                            ELSE Members(t[2])
       [] p[1] = "struct" -> IF t = StructType(p[2][1]) /\ ToSet(fields) \subseteq DOMAIN Structs[t[2]]
                             THEN Members([k \in DOMAIN fields |-> Structs[t[2]][fields[k]]])
                             ELSE no
\* A name bound again in its scope is replaced.
WithNames(scope, names) ==
  FoldLeft(LAMBDA s, b : [x \in DOMAIN s \cup {b[1]} |-> IF x = b[1] THEN b[2] ELSE s[x]], scope, names)

\* A let takes what the type written coerces from, and a value read through a
\* reference by an index or a field.
PostLet ==
  /\ Post("let")
  /\ LET e == N.kids[1]
         t == Ty(1)
         tag == N.at[2]
         coerces == tag # <<>> /\ Coercible(tag, t)
         reach == IF coerces THEN Reach(e, tag, FALSE) ELSE {}
         derefs == nodes[e].kind \in {"index", "field"} /\ IsRef(t) /\ Convertible(tag, t[3])
         allowed == t # NoType /\ (tag # <<>> => coerces \/ derefs) /\ Fits(reach)
         bound == Bind(N.at[1], IF tag = <<>> THEN t ELSE tag, tag = <<>>)
     IN /\ \/ allowed /\ bound.strays /\ Crash /\ UNCHANGED <<program, nodes, layouts, lside>>
           \/ Finish(allowed /\ bound.fits, reach, {}, "running")
        /\ scopes' = Append(Front(scopes), WithNames(Last(scopes), bound.names))
  /\ UNCHANGED <<placeMut, always, exited>>

\* The end of visit(Function): the function is looked up by its name among all
\* symbols in scope, those of its body included.
FinishFunction ==
  /\ Running("function")
  /\ LET reach == Reach(1, program.ret, FALSE)
     IN IF Lookup(program.name).kind # "function"
        THEN Crash /\ UNCHANGED <<program, nodes, layouts, lside>>
        ELSE Finish(Convertible(program.ret, types[1]), reach, {}, "accepted")
  /\ Plain

Init ==
  /\ \E family \in DOMAIN Programs : program \in Programs[family]
  /\ nodes = Table(program.body)
  /\ layouts \in [{program.decls[k].name : k \in DOMAIN program.decls} -> Unset]
  /\ types = [k \in DOMAIN nodes |-> NoType]
  /\ placeMut = {} /\ lside = {} /\ always = {} /\ exited = FALSE
  /\ LET bound == [k \in DOMAIN program.params |->
                     Bind(program.params[k][1], program.params[k][2], FALSE)]
     IN /\ scopes = <<Globals, WithNames(<<>>, FlattenSeq([k \in DOMAIN bound |-> bound[k].names]))>>
        /\ verdict = IF Collected(nodes) /\ \A k \in DOMAIN bound : bound[k].fits THEN "running" ELSE "rejected"
  /\ todo = IF verdict = "running" 
             THEN [k \in DOMAIN program.decls |-> <<"struct", k>>] \o <<<<"visit", 1>>, <<"function", 1>>>> ELSE <<>>

Next ==
  \/ DeclareStruct \/ Visit \/ VisitStatement
  \/ PostLiteral \/ PostPath \/ PostBorrow \/ PostDeref \/ PostNegation \/ PostArith
  \/ PostComparison \/ PostLazy \/ PostCast \/ PostAssign \/ PostCompound \/ PostGrouped
  \/ PostArray \/ PostRepeated \/ PostIndex \/ PostTuple \/ PostStruct \/ PostCall
  \/ PostMethod \/ PostField \/ PostJump \/ PostBlock \/ PostBody \/ PostLoop \/ PostWhile
  \/ PostIf \/ PostLet \/ FinishFunction

Spec == Init /\ [][Next]_vars
=============================================================================
