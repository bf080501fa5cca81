---------------------------- MODULE ConstEvaluator ----------------------------
(***************************************************************************)
(* ConstEvaluator of src/frontend/syntax_check.cpp: the value of the       *)
(* expression of a constant item or of an array length.                    *)
(*                                                                         *)
(* A value is kept in one of a few representations, whatever its type: an  *)
(* unsigned suffix or a cast to an unsigned type makes it "uint", other    *)
(* integers are "int", and setting the type does not change it.  Widths    *)
(* are scaled down; "i64" stands for the 64 bits of both representations.  *)
(***************************************************************************)
EXTENDS Types, Ast, Bitwise

CONSTANT Bits   \* integer type |-> its width

ASSUME ConstAssumption == \A t \in SignedInts \cup UnsignedInts : Bits[t] \in 1..15 /\ Bits[t] <= Bits["i64"]

Pow2[n \in 0..15] == IF n = 0 THEN 1 ELSE 2 * Pow2[n - 1]
\* The value of a 64 bit pattern read as a signed or as an unsigned integer.
Signed(w, v) == LET u == v % Pow2[w] IN IF u >= Pow2[w - 1] THEN u - Pow2[w] ELSE u
Least(t) == IF t \in SignedInts THEN -Pow2[Bits[t] - 1] ELSE 0
Greatest(t) == IF t \in SignedInts THEN Pow2[Bits[t] - 1] - 1 ELSE Pow2[Bits[t]] - 1
Narrowed(t, v) == IF t \in SignedInts THEN Signed(Bits[t], v) ELSE v % Pow2[Bits[t]]
InRepr(repr, v) == IF repr = "int" THEN Signed(Bits["i64"], v) ELSE v % Pow2[Bits["i64"]]
Abs(n) == IF n < 0 THEN -n ELSE n
Quot(a, b) == IF (a < 0) = (b < 0) THEN Abs(a) \div Abs(b) ELSE -(Abs(a) \div Abs(b))

BitOp(op, a, b) == CASE op = "&" -> a & b [] op = "|" -> a | b [] op = "^" -> a ^^ b

\* What evaluation comes to: a value, a reported error, or a std::runtime_error.
Value(type, repr, v) == [out |-> "value", type |-> type, repr |-> repr, v |-> v]
Fails == [out |-> "error"]
Throws == [out |-> "throw"]
Yields(r) == r.out = "value"

\* Expression::set_type: the literals that would take type t fit it.
RECURSIVE Takes(_, _)
Takes(e, t) ==
  CASE e[1] = "literal" -> IsInteger(t) /\ e[2][2] # "bool" => e[2][1] <= Greatest(t[2])
    [] e[1] = "negation" /\ e[3][1][1] = "literal" ->
         IsInteger(t) => t[2] \in SignedInts /\ e[3][1][2][1] <= Greatest(t[2]) + 1
    [] e[1] \in {"negation", "grouped", "arith"} -> \A k \in DOMAIN e[3] : Takes(e[3][k], t)
    [] OTHER -> TRUE

\* is_one_of<T1, int64_t, uint64_t> asks of a reference type, so no shift is evaluated.
Computed(op, repr, type, a, b) ==
  IF op \in {"/", "%"} /\ b = 0 THEN Fails
  ELSE Value(type, repr, InRepr(repr,
         CASE op = "+" -> a + b [] op = "-" -> a - b [] op = "*" -> a * b
           [] op = "/" -> Quot(a, b) [] op = "%" -> a - b * Quot(a, b)
           [] OTHER -> BitOp(op, a % Pow2[Bits["i64"]], b % Pow2[Bits["i64"]])))

\* Both operands get one type if one of the types converts to the other.
Unify(e, x, y) ==
  /\ Convertible(x.type, y.type) \/ Convertible(y.type, x.type)
  /\ LET t == IF Convertible(y.type, x.type) THEN y.type ELSE x.type
     IN /\ t # x.type => Takes(e[3][1], t)
        /\ t # y.type => Takes(e[3][2], t)

Arithmetic(e, x, y) ==
  IF e[2] \in {"<<", ">>"} \/ ~Unify(e, x, y) THEN Fails
  ELSE IF x.repr # y.repr \/ x.repr \notin {"int", "uint", "bool"} THEN Throws
  ELSE IF x.repr = "bool" THEN Fails
  ELSE Computed(e[2], x.repr, IF Convertible(x.type, y.type) THEN x.type ELSE y.type, x.v, y.v)

Negated(op, x) ==
  CASE x.repr = "int" /\ op = "-" /\ ~(IsInteger(x.type) /\ x.v = Least(x.type[2])) ->
         Value(x.type, "int", InRepr("int", -x.v))
    [] x.repr = "bool" /\ op = "!" -> Value(x.type, "bool", 1 - x.v)
    [] OTHER -> Fails

Cast_Unnarrowed(x, t) ==
  CASE t = Bool /\ x.repr = "bool" -> x
    [] IsInteger(t) /\ x.repr \in {"int", "uint"} -> Value(t, IF IsUnsigned(t) THEN "uint" ELSE "int", x.v)
    [] OTHER -> Fails
Cast(x, t) ==
  CASE t = Bool /\ x.repr = "bool" -> x
    [] IsInteger(t) /\ x.repr \in {"int", "uint"} ->
         Value(t, IF IsUnsigned(t) THEN "uint" ELSE "int", Narrowed(t[2], x.v))
    [] OTHER -> Fails

\* get_usize: an "int" is a length from 1 on.
IsLength(x) == x.repr = "uint" \/ (x.repr = "int" /\ x.v > 0)

\* The kinds that have no handler, or only one that reports, come last; so do
\* borrows, whose operand would have to be on the left of an assignment.
\* Array values are left out.
Applied(e, x) ==
  CASE e[1] = "literal" -> Value(Prime(e[2][2]), IF e[2][2] = "bool" THEN "bool" ELSE
                             IF e[2][2] \in UnsignedInts THEN "uint" ELSE "int", e[2][1])
    [] e[1] = "grouped" -> x[1]
    [] e[1] = "negation" -> Negated(e[2], x[1])
    [] e[1] = "arith" -> Arithmetic(e, x[1], x[2])
    \* is_one_of is asked of ConstPrime, never of what it holds.
    [] e[1] = "comparison" -> IF Unify(e, x[1], x[2]) THEN Throws ELSE Fails
    [] e[1] = "cast" -> Cast(x[1], e[2])
    [] OTHER -> Fails

\* The second operand counts only if the first does not decide.
Lazily(op, x, y) ==
  IF ~Yields(x) THEN x
  ELSE IF x.repr # "bool" THEN Fails
  ELSE IF x.v = (IF op = "||" THEN 1 ELSE 0) THEN x
  ELSE IF Yields(y) /\ y.repr # "bool" THEN Fails
  ELSE y

\* consts: the values of the constants in scope that have one by now.
RECURSIVE Evaluate(_, _)
Evaluate(e, consts) ==
  LET x == [k \in DOMAIN e[3] |-> Evaluate(e[3][k], consts)]
  IN IF e[1] = "lazy" THEN Lazily(e[2], x[1], x[2])
     ELSE IF \E k \in DOMAIN x : x[k] = Throws THEN Throws
     ELSE IF \E k \in DOMAIN x : x[k] = Fails THEN Fails
     ELSE IF e[1] = "path" /\ Len(e[2]) = 1 /\ e[2][1] \in DOMAIN consts THEN consts[e[2][1]]
     ELSE Applied(e, x)
=============================================================================
