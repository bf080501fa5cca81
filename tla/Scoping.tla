------------------------------- MODULE Scoping -------------------------------
(***************************************************************************)
(* What names mean in Rust, and what Declarations makes of them.  Items    *)
(* are visible in the whole of the block that holds them, the blocks and   *)
(* the functions in it included; parameters and variables from their       *)
(* declaration on, and not in functions inside; the functions of an impl   *)
(* by the type only.                                                       *)
(***************************************************************************)
EXTENDS Declarations

\* The scopes open after n nodes, and those around a node.
Open == LET O[n \in 0..Len(code)] ==
              IF n = 0 THEN <<0>>
              ELSE IF code[n][1] \in Openers THEN Append(O[n - 1], n)
              ELSE IF code[n][1] = "close" THEN Front(O[n - 1]) ELSE O[n - 1]
        IN O
Around(k) == Open[k - 1]
Home(k) == Last(Around(k))
IsA(k, kinds) == k > 0 /\ code[k][1] \in kinds

TypeItems == {"struct", "enum"}
ValueItems == {"fn", "const"}
Items(scope, kinds, name) ==
  IF IsA(scope, {"impl"}) THEN {}
  ELSE {k \in DOMAIN code : IsA(k, kinds) /\ code[k][2] = name /\ Home(k) = scope}
Locals(k, scope, name) ==
  {j \in 1..k - 1 : IsA(j, {"let", "param"}) /\ code[j][2] = name /\ Home(j) = scope}
\* Number of functions between node k and the i-th of the scopes around it.
Functions(k, i) == Cardinality({j \in i + 1..Len(Around(k)) : IsA(Around(k)[j], {"fn"})})

\* The item a name means at node k: 0 for a builtin one, -1 for none.
TypeAt(k, name) ==
  LET in == {i \in DOMAIN Around(k) : Items(Around(k)[i], TypeItems, name) # {}}
  IN IF in # {} THEN Max(Items(Around(k)[Max(in)], TypeItems, name))
     ELSE IF name \in Primes THEN 0 ELSE -1
ValueAt(k, name) ==
  LET local(i) == Locals(k, Around(k)[i], name)
      items(i) == Items(Around(k)[i], ValueItems, name)
      in == {i \in DOMAIN Around(k) : local(i) \cup items(i) # {}}
      i == Max(in)
  IN CASE in = {} -> IF name \in Builtins THEN 0 ELSE -1
       [] in # {} /\ local(i) = {} -> Max(items(i))
       [] OTHER -> IF Functions(k, i) = 0 THEN Max(local(i)) ELSE -1
\* The impl whose type Self is: a function inside a method has none.
ImplAt(k) ==
  LET in == {i \in DOMAIN Around(k) : IsA(Around(k)[i], {"impl"})}
  IN IF in # {} /\ Functions(k, Max(in)) <= 1 THEN Around(k)[Max(in)] ELSE -1
SelfAt(k) ==
  LET in == {i \in DOMAIN Around(k) : IsA(Around(k)[i], {"fn"})}
  IN IF in # {} /\ code[Around(k)[Max(in)]][3] # "none" THEN Home(Around(k)[Max(in)]) ELSE -1
LoopAt(k) ==
  LET in == {i \in DOMAIN Around(k) : IsA(Around(k)[i], {"loop"})}
  IN IF in # {} /\ Functions(k, Max(in)) = 0 THEN Around(k)[Max(in)] ELSE -1
TypeNamed(k, name) ==
  IF name # "Self" THEN TypeAt(k, name)
  ELSE IF ImplAt(k) = -1 THEN -1 ELSE TypeAt(ImplAt(k), code[ImplAt(k)][2])
Associated(type) == {f \in DOMAIN code : /\ IsA(f, {"fn"}) /\ IsA(Home(f), {"impl"})
                                         /\ TypeAt(Home(f), code[Home(f)][2]) = type}
MemberAt(k, type, name) ==
  LET found == {f \in Associated(type) : code[f][2] = name}
  IN CASE type > 0 /\ found # {} -> Max(found)
       [] IsA(type, {"enum"}) /\ name \in code[type][3] -> type
       [] OTHER -> -1

Uses == {k \in DOMAIN code : \/ IsA(k, {"type", "param", "impl", "path", "member", "break"})
                             \/ IsA(k, {"close"}) /\ IsA(Home(k), {"fn"})}
Designated(k) ==
  CASE IsA(k, {"type", "param", "impl"}) -> TypeNamed(k, Last(code[k]))
    [] IsA(k, {"path"}) -> IF code[k][2] = "self" THEN SelfAt(k) ELSE ValueAt(k, code[k][2])
    [] IsA(k, {"member"}) -> MemberAt(k, TypeNamed(k, code[k][2]), code[k][3])
    [] IsA(k, {"break"}) -> LoopAt(k)
    [] IsA(k, {"close"}) -> Home(k)

\* No scope has two types, or two functions or constants, of one name, nor has
\* a type two associated functions.
Distinct ==
  /\ \A kinds \in {TypeItems, ValueItems} : \A j, k \in {i \in DOMAIN code : IsA(i, kinds)} :
       j # k /\ Home(j) = Home(k) => code[j][2] # code[k][2]
  /\ \A f, g \in {i \in DOMAIN code : IsA(i, {"fn"}) /\ IsA(Home(i), {"impl"})} :
       f # g /\ TypeAt(Home(f), code[Home(f)][2]) = TypeAt(Home(g), code[Home(g)][2]) => code[f][2] # code[g][2]
  /\ \A k \in DOMAIN code : IsA(k, TypeItems \cup ValueItems) /\ Home(k) = 0 => code[k][2] \notin Primes \cup Builtins
\* The pattern of a let or parameter that is the name of a constant in scope is
\* the constant, which may not match (E0005), and binds nothing.  What a
\* parameter is called is looked up outside of the body.
IsConstant(k) ==
  /\ IsA(k, {"let", "param"})
  /\ IsA(ValueAt(IF IsA(k, {"let"}) THEN k ELSE Home(k), code[k][2]), {"const"})
HasMain == \E f \in Items(0, {"fn"}, "main") : Parameters(f) = {}
Legal ==
  /\ Distinct /\ HasMain
  /\ \A k \in Uses : Designated(k) # -1
  /\ \A k \in DOMAIN code : ~IsConstant(k)
  /\ \A f \in DOMAIN code : IsA(f, {"fn"}) /\ code[f][3] # "none" => IsA(Home(f), {"impl"})

-----------------------------------------------------------------------------
\* Where the passes go another way.
\*
\* One scope serves types and values, and the functions of an impl too; the name
\* of a struct passes for a value.
OneNamespace ==
  \E j, k \in DOMAIN code : /\ IsA(j, TypeItems) /\ IsA(k, ValueItems \cup {"let", "param", "path"})
                            /\ code[j][2] = code[k][2]
BareMember == \E k, f \in DOMAIN code : /\ IsA(k, {"path"}) /\ IsA(f, {"fn"}) /\ IsA(Home(f), {"impl"})
                                        /\ code[k][2] = code[f][2]
\* A variable of a function around is found.
Captures == \E k, j \in DOMAIN code :
  /\ IsA(k, {"path"}) /\ IsA(j, {"let", "param"}) /\ code[k][2] = code[j][2]
  /\ \E i \in DOMAIN Around(k) : Home(j) = Around(k)[i] /\ Functions(k, i) > 0
\* A parameter or variable replaces an item of its scope, before it or after,
\* and hides the function that is checked; so does an item in the body.
Replaces == \E j, k \in DOMAIN code :
  /\ IsA(j, {"let", "param"} \cup TypeItems \cup ValueItems) /\ IsA(k, ValueItems) /\ code[j][2] = code[k][2]
  /\ \/ IsA(j, {"let", "param"}) /\ Home(j) = Home(k)
     \/ IsA(k, {"fn"}) /\ Home(j) = k
\* A parameter or variable hides a constant of a scope around.
HidesConstant == \E k \in DOMAIN code : IsConstant(k)
\* The signature of a function is read in the scope of its body.
LocalInSignature == \E k, j \in DOMAIN code :
  /\ IsA(k, {"param", "type"}) /\ IsA(j, TypeItems) /\ Last(code[k]) = code[j][2] /\ Home(j) = Home(k)
  /\ IsA(k, {"param"}) \/ IsA(k - 1, {"fn", "param"})
\* What is known of an impl, of self and of a loop is not set aside for a
\* function inside.
InMethod == \E k \in DOMAIN code : /\ IsA(k, {"fn", "impl"}) /\ IsA(Home(k), {"fn", "block", "loop"})
                                   /\ \E i \in DOMAIN Around(k) : IsA(Around(k)[i], {"impl"})
BreakOut == \E k \in DOMAIN code : /\ IsA(k, {"break"}) /\ LoopAt(k) = -1
                                   /\ \E i \in DOMAIN Around(k) : IsA(Around(k)[i], {"loop"})
\* The functions of all structs of a name are in one place.
Confused == \E j, k \in DOMAIN code : /\ j # k /\ IsA(j, {"struct"}) /\ IsA(k, {"struct"}) /\ code[j][2] = code[k][2]
                                      /\ \E f \in DOMAIN code : IsA(f, {"impl"}) /\ code[f][2] = code[j][2]
FirstStays == \E f, g \in DOMAIN code : /\ IsA(f, {"fn"}) /\ IsA(g, {"fn"}) /\ code[f][2] = code[g][2] /\ Home(f) # Home(g)
                                        /\ IsA(Home(f), {"impl"}) /\ IsA(Home(g), {"impl"})
NameGap == OneNamespace \/ BareMember \/ Captures \/ Replaces \/ HidesConstant
           \/ LocalInSignature \/ InMethod \/ BreakOut \/ Confused \/ FirstStays

-----------------------------------------------------------------------------
\* The value of expression e of type t, written at node k: a set of at most one
\* number.  checked: every operand and result must be in range.  seen are the
\* constants on the way, which may not lead back to themselves.
Kept(checked, t, S) == {v \in S : checked => v \in Least(t[2])..Greatest(t[2])}
Div(op, a, b) == IF op = "/" THEN Quot(a, b) ELSE a - b * Quot(a, b)
Result(op, t, a, b) ==
  CASE op = "+" -> {a + b} [] op = "-" -> {a - b} [] op = "*" -> {a * b}
    [] op \in {"/", "%"} -> IF b = 0 THEN {} ELSE {Div(op, a, b)}
    [] op \in {"&", "|", "^"} -> {Narrowed(t[2], BitOp(op, a % Pow2[Bits["i64"]], b % Pow2[Bits["i64"]]))}
    [] OTHER -> {}
\* The type an expression has by itself, KInt if its literals leave it open.
RECURSIVE OwnType(_, _)
OwnType(e, k) ==
  CASE e[1] = "literal" -> Prime(e[2][2])
    [] e[1] = "path" -> LET j == ValueAt(k, e[2][1]) IN IF IsA(j, {"const"}) THEN Prime(code[j][3]) ELSE KInt
    [] e[1] = "cast" -> e[2]
    [] e[1] \in {"comparison", "lazy"} -> Bool
    [] OTHER -> LET of == {OwnType(e[3][i], k) : i \in DOMAIN e[3]} \ {KInt}
                IN IF of = {} THEN KInt ELSE CHOOSE t \in of : TRUE
RECURSIVE Denotes(_, _, _, _, _)
Denotes(e, t, k, seen, checked) ==
  LET part(i) == Denotes(e[3][i], t, k, seen, checked)
      open == OwnType(e, k) = KInt
      own == IF OwnType(e[3][1], k) = KInt THEN t ELSE OwnType(e[3][1], k)
  IN IF e[1] # "cast" /\ ~(OwnType(e, k) = t \/ (open /\ IsInteger(t))) THEN {}
     ELSE CASE e[1] = "literal" -> IF t = Bool THEN {e[2][1]} ELSE Kept(checked, t, {e[2][1]})
       [] e[1] = "path" ->
            LET j == ValueAt(k, e[2][1])
            IN IF IsA(j, {"const"}) /\ j \notin seen THEN Denotes(code[j][4], t, j, seen \cup {j}, checked) ELSE {}
       [] e[1] = "grouped" -> part(1)
       [] e[1] = "negation" /\ e[2] = "!" -> IF t = Bool THEN {1 - v : v \in part(1)} ELSE {}
       [] e[1] = "negation" ->
            IF t = Bool \/ (checked /\ IsUnsigned(t)) THEN {}
            ELSE Kept(checked, t, {-v : v \in IF e[3][1][1] = "literal" THEN {e[3][1][2][1]} ELSE part(1)})
       [] e[1] = "arith" /\ t # Bool ->
            UNION {Kept(checked, t, Result(e[2], t, a, b)) : a \in part(1), b \in part(2)}
       [] e[1] = "lazy" -> UNION {IF a = (IF e[2] = "||" THEN 1 ELSE 0) THEN {a} ELSE part(2) : a \in part(1)}
       [] e[1] = "cast" ->
            IF e[2] # t THEN {} ELSE {IF t = Bool THEN v ELSE Narrowed(t[2], v) : v \in Denotes(e[3][1], own, k, seen, checked)}
       [] OTHER -> {}

\* The expressions of constants and of lengths, with their nodes and types.
Expressions == {<<k, Last(code[k]), IF IsA(k, {"const"}) THEN Prime(code[k][3]) ELSE Prime("usize")>> :
                  k \in {j \in DOMAIN code : IsA(j, {"const", "length"})}}
Exactly(x) == Denotes(x[2], x[3], x[1], {x[1]}, TRUE)
ValuesExist == \A x \in Expressions : Exactly(x) # {}

\* Where evaluation goes another way: shifts, comparisons, the complement of an
\* integer and a bool as a number are refused, overflow is not noticed, constants
\* are known from their definition on, a number and one of the same unsigned type
\* that is kept in another representation do not go together, and a length may
\* be of any integer type but is zero in one representation only.
RECURSIVE Within(_)
Within(e) == {e} \cup UNION {Within(e[3][i]) : i \in DOMAIN e[3]}
Refused(e, k) == \/ e[1] = "comparison"
                 \/ e[1] = "arith" /\ e[2] \in {"<<", ">>"}
                 \/ e[1] = "negation" /\ e[2] = "!" /\ OwnType(e, k) # Bool
                 \/ e[1] = "cast" /\ e[2] # Bool /\ OwnType(e[3][1], k) = Bool
Forward(e, k) == e[1] = "path" /\ ValueAt(k, e[2][1]) >= k
RECURSIVE Forms(_, _, _)
Forms(e, k, seen) ==
  CASE e[1] = "literal" -> {e[2][2] \in UnsignedInts}
    [] e[1] = "cast" -> {IsUnsigned(e[2])}
    [] e[1] = "path" -> LET j == ValueAt(k, e[2][1])
                        IN IF IsA(j, {"const"}) /\ j \notin seen THEN Forms(code[j][4], j, seen \cup {j}) ELSE {}
    [] OTHER -> UNION {Forms(e[3][i], k, seen) : i \in DOMAIN e[3]}
OddLength(x) == /\ IsA(x[1], {"length"})
                /\ OwnType(x[2], x[1]) \notin {KInt, Prime("usize")} \/ Exactly(x) = {0}
ValueGap ==
  \E x \in Expressions :
    \/ OddLength(x)
    \/ Exactly(x) = {} /\ Denotes(x[2], x[3], x[1], {x[1]}, FALSE) # {}
    \/ \E e \in Within(x[2]) : \/ Refused(e, x[1]) \/ Forward(e, x[1])
                               \/ e[1] = "arith" /\ Cardinality(Forms(e, x[1], {})) > 1

-----------------------------------------------------------------------------
\* A crate is accepted if and only if its names are used as the language
\* allows, and then each of them was resolved to the item it means: types,
\* values, members, self, the loop a break leaves and, at the end of a
\* function, the function itself.
NamesResolve ==
  verdict # "running" /\ ~NameGap /\ ~ValueGap /\ ValuesExist =>
    /\ verdict = "accepted" <=> Legal
    /\ verdict = "accepted" => \A k \in Uses : means[k] = Designated(k)

\* A crate of legal names is accepted if and only if its constants and array
\* lengths have values of their types, and those are the values they get.
ConstantsExact ==
  verdict # "running" /\ ~NameGap /\ ~ValueGap /\ Legal =>
    /\ verdict = "accepted" <=> ValuesExist
    /\ verdict = "accepted" =>
         \A x \in Expressions :
           {IF IsA(x[1], {"length"}) THEN lengths[x[1]] ELSE symbols[Home(x[1])][code[x[1]][2]].val.v} = Exactly(x)

TypeOK ==
  /\ pass \in {"collect", "declare", "prefill", "fill", "done"} /\ at \in 1..Len(code) + 1
  /\ verdict \in {"running", "accepted", "rejected", "crashed"}
  /\ ToSet(scopes) \subseteq DOMAIN symbols /\ ToSet(loops) \subseteq DOMAIN code
  /\ inAsso \in BOOLEAN /\ implType \in 0..Len(code)
  /\ self \in {"none", "value", "ref", "refmut"}
  /\ \A m \in DOMAIN methods : IsA(methods[m], {"fn"})
=============================================================================
