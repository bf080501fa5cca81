------------------------------- MODULE Parser -------------------------------
(***************************************************************************)
(* The parser (parser.cpp).  A token is its type, written as its text      *)
(* ("id", "int", "float", "string" and "char" where the text varies).      *)
(* Each parseX is a row of Rules: the things it expects in their order.    *)
(* Match does what a row says: it is the code that the rows share, written *)
(* once.  Expressions are parsed by precedence, in Infix and Prefix.       *)
(*                                                                         *)
(* An outcome is [ok, at, tree, throws]: where the context stands, also    *)
(* when the rule failed, and the tree.  Trees are kept where a decision or *)
(* a property depends on them: of expressions, their kind, operator and    *)
(* operands; of any other rule, its name.                                  *)
(*                                                                         *)
(* A step parses one item of a crate (the loop of parseCrate), or the      *)
(* whole text as another goal: the rules that a crate reaches only through *)
(* long texts are looked at on their own.                                  *)
(***************************************************************************)
EXTENDS Integers, Sequences, FiniteSets, TLC

CONSTANTS Texts, Goals

VARIABLES goal, tokens, pos, parsed, status
vars == <<goal, tokens, pos, parsed, status>>
-----------------------------------------------------------------------------
\* What a row is made of.
T(ws) == [k \in DOMAIN ws |-> [is |-> "token", of |-> {ws[k]}]]
OneOf(S) == <<[is |-> "token", of |-> S]>>
R(rule) == <<[is |-> "rule", rule |-> rule]>>
\* An attempt whose failure does not matter.
Try(rule) == <<[is |-> "try", rule |-> rule]>>
\* The first of these rules that succeeds.
Choice(rules) == <<[is |-> "choice", rules |-> rules]>>
\* If the token is there it is consumed and the first part is due.
If(token, then, else) == <<[is |-> "if", token |-> token, then |-> then, else |-> else]>>
Maybe(token) == If(token, <<>>, <<>>)
Unless(token, part) == <<[is |-> "unless", token |-> token, part |-> part]>>
\* As long as the closing token is not there, or a leading token is.
Until(close, rule) == <<[is |-> "until", close |-> close, rule |-> rule]>>
While(token, part) == <<[is |-> "while", token |-> token, part |-> part]>>
\* rule (',' rule)* ','? before the closing token.
List(rule, close) == <<[is |-> "list", rule |-> rule, close |-> close]>>

FunctionRules ==
  [FunctionBodyExpr |-> T(<<"{">>) \o Try("Statements") \o T(<<"}">>),
   Function |-> Maybe("const") \o T(<<"fn", "id", "(">>) \o Try("FunctionParameters") \o T(<<")">>)
                \o If("->", R("Type"), <<>>) \o If(";", <<>>, R("FunctionBodyExpr")),
   FunctionParam |-> Choice(<<"FunctionParamPattern", "FunctionParamType">>),
   FunctionParamPattern |-> R("PatternNoTopAlt") \o T(<<":">>) \o R("Type"),
   FunctionParamType |-> R("Type"),
   SelfParam |-> Maybe("&") \o Maybe("mut") \o T(<<"self">>) \o If(":", R("Type"), <<>>)]

TypeRules ==
  [Type |-> R("TypeNoBounds"),
   TypeNoBounds |-> Choice(<<"TypePath", "ParenthesizedType", "TupleType", "ReferenceType",
                             "ArrayType", "SliceType">>),
   ParenthesizedType |-> T(<<"(">>) \o R("Type") \o T(<<")">>),
   TupleType |-> T(<<"(">>) \o Unless(")", List("Type", ")")) \o T(<<")">>),
   ReferenceType |-> T(<<"&">>) \o Maybe("mut") \o R("TypeNoBounds"),
   ArrayType |-> T(<<"[">>) \o R("Type") \o T(<<";">>) \o R("Expression") \o T(<<"]">>),
   SliceType |-> T(<<"[">>) \o R("Type") \o T(<<"]">>)]

DataRules ==
  [Struct |-> R("StructStruct"),
   StructStruct |-> T(<<"struct", "id">>) \o If("{", R("StructFields") \o T(<<"}">>), T(<<";">>)),
   StructFields |-> List("StructField", "}"),
   StructField |-> T(<<"id", ":">>) \o R("Type"),
   Enumeration |-> T(<<"enum", "id", "{">>) \o Try("EnumItems") \o T(<<"}">>),
   EnumItems |-> List("EnumItem", "}"),
   EnumItem |-> T(<<"id">>) \o Try("EnumItemDiscriminant"),
   EnumItemDiscriminant |-> T(<<"=">>) \o R("Expression")]

ItemRules ==
  [ConstantItem |-> T(<<"const">>) \o OneOf({"id", "_"}) \o T(<<":">>) \o R("Type")
                    \o If("=", R("Expression"), <<>>) \o T(<<";">>),
   Trait |-> T(<<"trait", "id", "{">>) \o Until("}", "AssociatedItem") \o T(<<"}">>),
   AssociatedItem |-> Choice(<<"TypeAlias", "ConstantItem", "Function">>),
   TypeAlias |-> T(<<"type", "id">>) \o If("=", R("Type"), <<>>) \o T(<<";">>),
   Implementation |-> Choice(<<"InherentImpl", "TraitImpl">>)]

ImplRules ==
  [InherentImpl |-> T(<<"impl">>) \o R("Type") \o T(<<"{">>) \o Until("}", "AssociatedItem")
                    \o T(<<"}">>),
   TraitImpl |-> T(<<"impl">>) \o R("TypePath") \o T(<<"for">>) \o R("Type") \o T(<<"{">>)
                 \o Until("}", "AssociatedItem") \o T(<<"}">>),
   TypePath |-> Maybe("::") \o R("PathIdentSegment") \o While("::", R("PathIdentSegment")),
   PathIdentSegment |-> OneOf({"id", "super", "self", "Self", "crate"})]

VisItemRules ==
  [Item |-> Choice(<<"Function", "TypeAlias", "Struct", "Enumeration", "ConstantItem", "Trait",
                     "Implementation">>)]

ArrayRules ==
  [PathExpression |-> Maybe("::") \o R("PathIdentSegment") \o While("::", R("PathIdentSegment")),
   ArrayExpression |-> T(<<"[">>) \o Try("ArrayElements") \o T(<<"]">>),
   ArrayElements |-> Choice(<<"ExplicitArrayElements", "RepeatedArrayElements">>),
   ExplicitArrayElements |-> List("Expression", "]"),
   RepeatedArrayElements |-> R("Expression") \o T(<<";">>) \o R("Expression"),
   IndexExpression |-> T(<<"[">>) \o R("Expression") \o T(<<"]">>)]

CallRules ==
  [StructExpression |-> R("PathExpression") \o T(<<"{">>) \o Try("StructExprFields") \o T(<<"}">>),
   StructExprFields |-> List("StructExprField", "}"),
   StructExprField |-> OneOf({"id", "int"}) \o T(<<":">>) \o R("Expression"),
   CallExpression |-> T(<<"(">>) \o Try("CallParams") \o T(<<")">>),
   CallParams |-> List("Expression", ")"),
   ContinueExpression |-> T(<<"continue">>),
   BreakExpression |-> T(<<"break">>) \o Try("Expression"),
   ReturnExpression |-> T(<<"return">>) \o Try("Expression"),
   UnderscoreExpression |-> T(<<"_">>)]

StatementRules ==
  [BlockExpression |-> T(<<"{">>) \o Try("Statements") \o T(<<"}">>),
   Statement |-> Choice(<<"EmptyStatement", "Item", "LetStatement", "ExpressionStatement">>),
   EmptyStatement |-> T(<<";">>),
   LetStatement |-> T(<<"let">>) \o R("PatternNoTopAlt") \o If(":", R("Type"), <<>>)
                    \o If("=", R("Expression"), <<>>) \o T(<<";">>)]

BranchRules ==
  [InfiniteLoopExpression |-> T(<<"loop">>) \o R("BlockExpression"),
   PredicateLoopExpression |-> T(<<"while">>) \o R("Conditions") \o R("BlockExpression"),
   IfExpression |-> T(<<"if", "(">>) \o R("Conditions") \o T(<<")">>) \o R("BlockExpression")
                    \o If("else", Choice(<<"BlockExpression", "IfExpression">>), <<>>),
   MatchExpression |-> T(<<"match">>) \o R("Conditions") \o T(<<"{">>) \o R("MatchArms")
                       \o T(<<"}">>),
   MatchArm |-> R("Pattern") \o Try("MatchArmGuard"),
   MatchArmGuard |-> T(<<"if">>) \o R("Expression")]

PatternRules ==
  [Pattern |-> Maybe("|") \o R("PatternNoTopAlt") \o While("|", Try("PatternNoTopAlt")),
   PatternNoTopAlt |-> R("PatternWithoutRange"),
   PatternWithoutRange |-> Choice(<<"LiteralPattern", "WildcardPattern", "ReferencePattern",
                                    "TuplePattern", "GroupedPattern", "SlicePattern",
                                    "NamePattern">>),
   LiteralPattern |-> Maybe("-") \o R("LiteralExpression"),
   IdentifierPattern |-> Maybe("ref") \o Maybe("mut") \o T(<<"id">>)
                         \o If("@", R("PatternNoTopAlt"), <<>>),
   WildcardPattern |-> T(<<"_">>),
   ReferencePattern |-> OneOf({"&", "&&"}) \o Maybe("mut") \o R("PatternWithoutRange")]

CompoundPatternRules ==
  [StructPattern |-> R("PathExpression") \o T(<<"{">>) \o Try("StructPatternElements")
                     \o T(<<"}">>),
   StructPatternElements |-> R("StructPatternFields") \o Maybe(","),
   StructPatternFields |-> R("StructPatternField") \o While(",", R("StructPatternField")),
   StructPatternField |-> T(<<"id", ":">>) \o R("Pattern"),
   TuplePattern |-> T(<<"(">>) \o Try("TuplePatternItems") \o T(<<")">>),
   TuplePatternItems |-> R("Pattern") \o T(<<",">>) \o Unless(")", List("Pattern", ")")),
   GroupedPattern |-> T(<<"(">>) \o R("Pattern") \o T(<<")">>),
   SlicePattern |-> T(<<"[">>) \o Try("SlicePatternItems") \o T(<<"]">>),
   SlicePatternItems |-> List("Pattern", "]"),
   PathPattern |-> R("PathExpression")]

Rules ==
  FunctionRules @@ TypeRules @@ DataRules @@ ItemRules @@ ImplRules @@ VisItemRules @@ ArrayRules
  @@ CallRules @@ StatementRules @@ BranchRules @@ PatternRules @@ CompoundPatternRules
-----------------------------------------------------------------------------
Token(p) == IF p <= Len(tokens) THEN tokens[p] ELSE "invalid"

Ok(p, tree) == [ok |-> TRUE, at |-> p, tree |-> tree, throws |-> FALSE]
Fails(p) == [ok |-> FALSE, at |-> p, tree |-> <<>>, throws |-> FALSE]
Throws(p) == [ok |-> FALSE, at |-> p, tree |-> <<>>, throws |-> TRUE]
\* Mutant: the context stays where the failure was met.
TrackedNot(p, r, tree) == IF r.ok THEN Ok(r.at, tree) ELSE r
\* The Backtracker: a rule that fails leaves the context where it found it.
Tracked(p, r, tree) ==
  IF r.ok THEN Ok(r.at, tree) ELSE IF r.throws THEN r ELSE Fails(p)
\* r, and then what f makes of the place where it ended.
Then(r, f(_)) == IF r.ok THEN f(r.at) ELSE r

RECURSIVE Rule(_, _), Match(_, _, _), Repeat(_, _), Items(_, _), First(_, _, _),
          Infix(_, _, _), InfixLoop(_, _, _), Prefix(_, _), TupleRest(_), Statements(_),
          StatementsFrom(_, _, _), MatchArms(_), Unary(_, _, _, _)

\* The part of a row from its k-th element on.
Match(part, k, p) ==
  IF k > Len(part) THEN Ok(p, <<>>)
  ELSE
    LET e == part[k]
        r == CASE e.is = "token" -> IF Token(p) \in e.of THEN Ok(p + 1, <<>>) ELSE Fails(p)
               [] e.is = "rule" -> Rule(e.rule, p)
               [] e.is = "try" ->
                    LET t == Rule(e.rule, p) IN IF t.ok \/ t.throws THEN t ELSE Ok(t.at, <<>>)
               [] e.is = "choice" -> First(e.rules, 1, p)
               [] e.is = "if" -> IF Token(p) = e.token THEN Match(e.then, 1, p + 1)
                                 ELSE Match(e.else, 1, p)
               [] e.is = "unless" -> IF Token(p) = e.token THEN Ok(p, <<>>)
                                     ELSE Match(e.part, 1, p)
               [] e.is = "list" -> Then(Rule(e.rule, p), LAMBDA q : Items(e, q))
               [] OTHER -> Repeat(e, p)
    IN IF k = Len(part) THEN r ELSE Then(r, LAMBDA q : Match(part, k + 1, q))

First(rules, k, p) ==
  LET r == Rule(rules[k], p)
  IN IF r.ok \/ r.throws \/ k = Len(rules) THEN r ELSE First(rules, k + 1, r.at)

Repeat(e, p) ==
  IF e.is = "until"
  THEN IF Token(p) = e.close THEN Ok(p, <<>>) ELSE Then(Rule(e.rule, p), LAMBDA q : Repeat(e, q))
  ELSE IF Token(p) = e.token THEN Then(Match(e.part, 1, p + 1), LAMBDA q : Repeat(e, q))
       ELSE Ok(p, <<>>)

\* The loop behind the first item of a list.
Items(e, p) ==
  IF Token(p) = e.close THEN Ok(p, <<>>)
  ELSE IF Token(p) # "," THEN Fails(p)
  ELSE IF Token(p + 1) = e.close THEN Ok(p + 1, <<>>)
  ELSE Then(Rule(e.rule, p + 1), LAMBDA q : Items(e, q))
-----------------------------------------------------------------------------
\* Precedence, from 0 for kLowest; -1 for a token that is no infix operator.
Assignments == {"=", "+=", "-=", "*=", "/=", "%=", "^=", "&=", "|=", "<<=", ">>="}
Levels ==
  <<Assignments, {"..", "...", "..="}, {"||"}, {"&&"}, {"==", "!=", ">", "<", ">=", "<="}, {"|"},
    {"^"}, {"&"}, {"<<", ">>"}, {"+", "-"}, {"*", "/", "%"}, {"as"}, {}, {"(", "[", ".", "::"}>>
kLowest == 0
kPrefix == 13
Precedence(t) ==
  IF \E k \in DOMAIN Levels : t \in Levels[k] THEN CHOOSE k \in DOMAIN Levels : t \in Levels[k]
  ELSE -1

Leaf(kind) == [kind |-> kind, op |-> "", kids |-> <<>>]
Node(kind, op, kids) == [kind |-> kind, op |-> op, kids |-> kids]
\* has_block and is_predict_without_value of the nodes.
WithoutValue == {"IfExpression", "InfiniteLoopExpression", "PredicateLoopExpression"}
WithBlock == WithoutValue \cup {"BlockExpression", "MatchExpression"}

\* Mutant: the operand is parsed like any expression.
UnaryLoose(op, delim, p, times) ==
  LET r == Infix(kLowest, delim, p)
      one == Node("unary", op, <<r.tree>>)
  IN IF r.ok THEN Ok(r.at, one) ELSE r
\* parsePrefixExpression for a unary operator: its operand binds as tightly.
Unary(op, delim, p, times) ==
  LET r == Infix(kPrefix, delim, p)
      one == Node("unary", op, <<r.tree>>)
  IN IF r.ok THEN Ok(r.at, IF times = 2 THEN Node("unary", op, <<one>>) ELSE one) ELSE r

\* The expressions of a tuple behind a comma, up to the parenthesis.
TupleRest(p) ==
  IF Token(p) = ")" THEN Ok(p + 1, Leaf("TupleExpression"))
  ELSE LET r == Infix(kLowest, "invalid", p)
       IN IF ~r.ok THEN r
          ELSE IF Token(r.at) = "," THEN TupleRest(r.at + 1)
          ELSE IF Token(r.at) = ")" THEN TupleRest(r.at) ELSE Fails(r.at)

Keyworded ==
  ("_" :> "UnderscoreExpression") @@ ("break" :> "BreakExpression")
  @@ ("continue" :> "ContinueExpression") @@ ("return" :> "ReturnExpression")
  @@ ("if" :> "IfExpression") @@ ("loop" :> "InfiniteLoopExpression")
  @@ ("while" :> "PredicateLoopExpression") @@ ("match" :> "MatchExpression")
  @@ ("{" :> "BlockExpression") @@ ("[" :> "ArrayExpression")
Literals == {"int", "float", "string", "char", "true", "false"}

Prefix(delim, p) ==
  LET t == Token(p)
      mut == IF Token(p + 1) = "mut" THEN p + 2 ELSE p + 1
  IN CASE t \in Literals -> Rule("LiteralExpression", p)
       [] t \in {"self", "Self"} -> Rule("PathExpression", p)
       [] t = "id" -> IF Token(p + 1) = "{" /\ delim # "{" THEN Rule("StructExpression", p)
                      ELSE Rule("PathExpression", p)
       [] t \in {"-", "!", "*"} -> Unary(t, delim, p + 1, 1)
       [] t = "&" -> Unary("&", delim, mut, 1)
       [] t = "&&" -> Unary("&", delim, mut, 2)
       [] t = ".." -> LET r == Rule("Expression", p + 1)
                      IN IF r.throws THEN r
                         ELSE IF r.ok THEN Ok(r.at, Node("range", t, <<Leaf("none"), r.tree>>))
                         ELSE Ok(p + 1, Leaf("RangeFullExpr"))
       [] t = "..=" -> LET r == Rule("Expression", p + 1)
                       IN IF r.ok THEN Ok(r.at, Node("range", t, <<Leaf("none"), r.tree>>)) ELSE r
       [] t \in DOMAIN Keyworded -> Rule(Keyworded[t], p)
       [] t = "(" /\ Token(p + 1) = ")" -> Ok(p + 2, Leaf("TupleExpression"))
       [] t = "(" /\ Token(p + 1) # ")" ->
            LET r == Rule("Expression", p + 1)
            IN IF ~r.ok THEN r
               ELSE IF Token(r.at) = ")" THEN Ok(r.at + 1, Node("GroupedExpression", "", <<r.tree>>))
               ELSE IF Token(r.at) = "," THEN TupleRest(r.at + 1) ELSE Fails(r.at)
       [] OTHER -> Fails(p)

Infix(precedence, delim, p) ==
  LET r == Prefix(delim, p) IN IF r.ok THEN InfixLoop(precedence, delim, r) ELSE r

\* The loop of parseInfixExpression, with what lft has become in r.
InfixLoop(precedence, delim, r) ==
  LET t == Token(r.at)
      own == Precedence(t)
      q == r.at + 1
      Binary(new, right) ==
        LET rht == Infix(right, delim, q)
        IN IF rht.ok THEN Ok(rht.at, Node(new, t, <<r.tree, rht.tree>>)) ELSE rht
      Postfix(x, kids) == IF x.ok THEN Ok(x.at, Node("postfix", t, kids)) ELSE x
      range == Rule("Expression", q)
      next ==
        CASE t = "." /\ Token(q) = "int" -> Ok(q + 1, Node("postfix", t, <<r.tree>>))
          [] t = "." /\ Token(q) # "int" ->
               LET name == Rule("PathIdentSegment", q)
               IN IF ~name.ok THEN name
                  ELSE IF Token(name.at) = "(" THEN Postfix(Rule("CallExpression", name.at), <<r.tree>>)
                  ELSE IF Token(q) # "id" THEN Fails(name.at)
                  ELSE Ok(name.at, Node("postfix", t, <<r.tree>>))
          [] t = "(" -> Postfix(Rule("CallExpression", r.at), <<r.tree>>)
          [] t = "[" -> Postfix(Rule("IndexExpression", r.at), <<r.tree>>)
          [] t = "as" -> Postfix(Rule("TypeNoBounds", q), <<r.tree>>)
          [] t = ".." -> IF range.throws THEN range
                         ELSE IF range.ok THEN Ok(range.at, Node("range", t, <<r.tree, range.tree>>))
                         ELSE Ok(q, Node("range", t, <<r.tree, Leaf("none")>>))
          [] t = "..=" -> IF range.ok THEN Ok(range.at, Node("range", t, <<r.tree, range.tree>>))
                          ELSE range
          [] t \in {"...", "::"} -> Fails(r.at)
          [] t \in Assignments -> Binary("assign", own - 1)
          [] OTHER -> Binary("binary", own)
  IN IF own <= precedence \/ (t \in {"&", "-", "*", "("} /\ r.tree.kind \in WithoutValue) THEN r
     ELSE IF next.ok THEN InfixLoop(precedence, delim, next) ELSE next
-----------------------------------------------------------------------------
\* SP ','? {')'} | (SP ',')? FP (',' FP)* ','? {')'}
FunctionParameters(p) ==
  LET self == Rule("SelfParam", p)
      params(q) == Match(List("FunctionParam", ")"), 1, q)
      comma == Token(self.at) = ","
      after == IF comma THEN self.at + 1 ELSE self.at
  IN IF self.throws THEN self
     ELSE IF ~self.ok THEN params(self.at)
     ELSE IF Token(after) = ")" THEN Ok(after, <<>>)
     ELSE IF comma THEN params(after) ELSE Fails(after)

ExpressionStatement(p) ==
  LET r == Rule("Expression", p)
  IN IF ~r.ok THEN r
     ELSE IF Token(r.at) = ";" THEN Ok(r.at + 1, Leaf("Statement"))
     ELSE IF r.tree.kind \in WithBlock THEN Ok(r.at, Leaf("value")) ELSE Fails(r.at)

\* parseStatements: count statements have been taken, the last of which is an
\* expression without a semicolon iff last = "value".
StatementsFrom(p, count, last) ==
  LET s == Rule("Statement", p)
      tail == Rule("Expression", s.at)
  IN IF Token(p) = "}" THEN IF count = 0 THEN Fails(p) ELSE Ok(p, <<>>)
     ELSE IF s.throws THEN s
     ELSE IF s.ok THEN StatementsFrom(s.at, count + 1, s.tree.kind)
     ELSE IF ~tail.ok THEN tail
     ELSE IF Token(tail.at) = "}" THEN Ok(tail.at, <<>>) ELSE Fails(tail.at)
Statements(p) == StatementsFrom(p, 0, "none")

\* Mutant: an arm without a block needs no comma.
MatchArmsJoined(p) ==
  IF Token(p) = "}" THEN Ok(p, <<>>)
  ELSE
    LET arm == Match(R("MatchArm") \o T(<<"=>">>) \o R("Expression"), 1, p)
    IN IF ~arm.ok THEN arm
       ELSE IF Token(arm.at) = "," THEN MatchArms(arm.at + 1) ELSE MatchArms(arm.at)
MatchArms(p) ==
  IF Token(p) = "}" THEN Ok(p, <<>>)
  ELSE
    LET arm == Match(R("MatchArm") \o T(<<"=>">>) \o R("Expression"), 1, p)
        comma == Token(arm.at) = ","
        after == IF comma THEN arm.at + 1 ELSE arm.at
    IN IF ~arm.ok THEN arm
       ELSE IF Token(after) = "}" THEN Ok(after, <<>>)
       ELSE IF comma \/ arm.tree.kind \in WithBlock THEN MatchArms(after) ELSE Fails(after)

\* The end of parsePatternWithoutRange.
NamePattern(p) ==
  LET next == Token(p + 1)
  IN CASE Token(p) \in {"ref", "mut"} -> Rule("IdentifierPattern", p)
       [] Token(p) = "::" -> Rule("PathPattern", p)
       [] Token(p) = "id" -> IF next = "::" THEN Rule("PathPattern", p)
                             ELSE IF next = "{" THEN Rule("StructPattern", p)
                             ELSE Rule("IdentifierPattern", p)
       [] OTHER -> Fails(p)

\* parseLiteralExpression consumes before it looks: consume() throws at the end.
LiteralExpression(p) ==
  IF p > Len(tokens) THEN Throws(p)
  ELSE IF Token(p) \in Literals THEN Ok(p + 1, <<>>) ELSE Fails(p + 1)

\* A rule: what it expects, and the Backtracker around it.
Rule(name, p) ==
  CASE name = "Expression" ->
         LET r == Infix(kLowest, "invalid", p) IN Tracked(p, r, r.tree)
    [] name = "Conditions" ->
         LET r == Infix(kLowest, "{", p) IN Tracked(p, r, r.tree)
    [] name = "ExpressionStatement" ->
         LET r == ExpressionStatement(p) IN Tracked(p, r, r.tree)
    [] name = "Statement" ->
         LET r == Match(Rules[name], 1, p) IN Tracked(p, r, r.tree)
    [] name = "FunctionParameters" -> Tracked(p, FunctionParameters(p), Leaf(name))
    [] name = "Statements" -> Tracked(p, Statements(p), Leaf(name))
    [] name = "MatchArms" -> Tracked(p, MatchArms(p), Leaf(name))
    [] name = "NamePattern" -> Tracked(p, NamePattern(p), Leaf(name))
    [] name = "LiteralExpression" -> Tracked(p, LiteralExpression(p), Leaf(name))
    [] OTHER -> Tracked(p, Match(Rules[name], 1, p), Leaf(name))
-----------------------------------------------------------------------------
InitWith(g, t) ==
  /\ goal = g /\ tokens = t /\ pos = 1 /\ parsed = <<>> /\ status = "running"
Init == \E g \in Goals, t \in Texts : InitWith(g, t)

\* One turn of parseCrate's loop; a goal other than a crate is parsed once.
Parse ==
  /\ status = "running"
  /\ goal = "Crate" => pos <= Len(tokens)
  /\ goal # "Crate" => parsed = <<>>
  /\ LET r == Rule(IF goal = "Crate" THEN "Item" ELSE goal, pos)
     IN /\ pos' = (IF r.ok THEN r.at ELSE 1)   \* the crate is tracked too
        /\ IF r.ok THEN parsed' = Append(parsed, r.tree) /\ status' = status
           ELSE parsed' = parsed /\ status' = IF r.throws THEN "thrown" ELSE "failed"
  /\ UNCHANGED <<goal, tokens>>

Finish ==
  /\ status = "running"
  /\ IF goal = "Crate" THEN pos > Len(tokens) ELSE parsed # <<>>
  /\ status' = "good"
  /\ UNCHANGED <<goal, tokens, pos, parsed>>

Next == Parse \/ Finish
Spec == Init /\ [][Next]_vars
-----------------------------------------------------------------------------
\* The grammar of docs/semantic_rules.md: the rows where the document says what
\* they say, and its own where they differ.  Behind the bar of a pattern stands
\* an alternative.  (Where the document asks for statements in the body of a
\* function an empty one is taken for a sentence, as it is in Rust.)
Grammar ==
  [Rules EXCEPT !.Pattern = Maybe("|") \o R("PatternNoTopAlt") \o While("|", R("PatternNoTopAlt"))]

\* Which of its rows derive the tokens from i to j - 1, however they are split
\* and in whatever order alternatives are tried.  Cuts: where a row's k-th
\* element may end.
RECURSIVE Derives(_, _, _, _), Star(_, _, _), RuleDerives(_, _, _), Operand(_, _, _),
          Tails(_, _, _), Derived(_, _, _), ArmsDerive(_, _), StatementsDerive(_, _), BlockDerives(_, _, _)
Cuts(part, k, i, j) ==
  LET behind == Len(part) - k
  IN IF part[k].is = "token" THEN {i + 1} \cap 1..j
     ELSE IF \A n \in k + 1..Len(part) : part[n].is = "token" THEN {j - behind} \cap i..j
     ELSE IF part[k + 1].is = "token" THEN {m \in i..j - 1 : Token(m) \in part[k + 1].of}
     ELSE i..j
Derives(part, k, i, j) ==
  IF k > Len(part) THEN i = j
  ELSE
    LET e == part[k]
        Spans(m) ==
          CASE e.is = "token" -> Token(i) \in e.of
            [] e.is = "rule" -> RuleDerives(e.rule, i, m)
            [] e.is = "try" -> m = i \/ RuleDerives(e.rule, i, m)
            [] e.is = "choice" -> \E r \in DOMAIN e.rules : RuleDerives(e.rules[r], i, m)
            [] e.is = "if" -> \/ m > i /\ Token(i) = e.token /\ Derives(e.then, 1, i + 1, m)
                              \/ Derives(e.else, 1, i, m)
            [] e.is = "unless" -> m = i \/ Derives(e.part, 1, i, m)
            [] e.is = "until" -> Star(R(e.rule), i, m)
            [] e.is = "while" -> Star(T(<<e.token>>) \o e.part, i, m)
            [] OTHER -> \E n \in i + 1..m, comma \in {0, 1} :
                          /\ RuleDerives(e.rule, i, n)
                          /\ comma = 1 => m > n /\ Token(m - 1) = ","
                          /\ Star(T(<<",">>) \o R(e.rule), n, m - comma)
    IN \E m \in Cuts(part, k, i, j) : Spans(m) /\ Derives(part, k + 1, m, j)
Star(part, i, j) ==
  i = j \/ \E m \in i + 1..j : Derives(part, 1, i, m) /\ Star(part, m, j)

StatementsDerive(i, j) ==
  \/ Derived("invalid", i, j)
  \/ \E m \in i + 1..j : RuleDerives("Statement", i, m) /\ (m = j \/ StatementsDerive(m, j))
ArmsDerive(i, j) ==
  \/ i = j
  \/ \E p \in {n \in i + 1..j - 1 : Token(n) = "=>"} : \E m \in p + 2..j :
       /\ \/ m = j
          \/ Token(m) = "," /\ ArmsDerive(m + 1, j)
          \/ BlockDerives(WithBlock, p + 1, m) /\ ArmsDerive(m, j)
       /\ RuleDerives("MatchArm", i, p) /\ RuleDerives("Expression", p + 1, m)

\* An operand: unary operators and what they stand before.  delim = "{" says
\* that a path begins no struct expression.
Operand(delim, i, j) ==
  LET t == Token(i)
      mut == IF Token(i + 1) = "mut" THEN i + 2 ELSE i + 1
      Free(m, n) == RuleDerives("Expression", m, n)
  IN i < j /\
     \/ j = i + 1 /\ t \in Literals \cup {".."}
     \/ RuleDerives("PathExpression", i, j)
     \/ delim # "{" /\ RuleDerives("StructExpression", i, j)
     \/ t \in {"-", "!", "*"} /\ Operand(delim, i + 1, j)
     \/ t \in {"&", "&&"} /\ Operand(delim, mut, j)
     \/ t \in {"..", "..="} /\ Free(i + 1, j)
     \/ t \in DOMAIN Keyworded /\ RuleDerives(Keyworded[t], i, j)
     \/ /\ t = "(" /\ Token(j - 1) = ")"
        /\ \/ j = i + 2
           \/ Free(i + 1, j - 1)
           \/ \E m \in i + 1..j - 2 :
                /\ Token(m) = "," /\ Free(i + 1, m)
                /\ m + 1 = j - 1 \/ Derives(List("Expression", ")"), 1, m + 1, j - 1)

\* What may follow an operand: an operator and its operand, or a postfix.
Follows(delim, i, j) ==
  LET op == Token(i)
  IN CASE op = "." -> \/ j = i + 2 /\ Token(i + 1) \in {"int", "id"}
                      \/ /\ j > i + 3 /\ RuleDerives("PathIdentSegment", i + 1, i + 2)
                         /\ RuleDerives("CallExpression", i + 2, j)
       [] op = "(" -> RuleDerives("CallExpression", i, j)
       [] op = "[" -> RuleDerives("IndexExpression", i, j)
       [] op = "as" -> RuleDerives("TypeNoBounds", i + 1, j)
       [] op = ".." -> i + 1 = j \/ RuleDerives("Expression", i + 1, j)
       [] op = "..=" -> RuleDerives("Expression", i + 1, j)
       [] op \in {"...", "::"} -> FALSE
       [] OTHER -> Precedence(op) > 0 /\ Operand(delim, i + 1, j)
Tails(delim, i, j) == i = j \/ \E m \in i + 1..j : Follows(delim, i, m) /\ Tails(delim, m, j)

\* An if or a loop on its own is no left operand of & - * (.
Derived(delim, i, j) ==
  \E m \in i + 1..j :
    /\ Operand(delim, i, m) /\ Tails(delim, m, j)
    /\ (m < j /\ Token(m) \in {"&", "-", "*", "("}) => ~BlockDerives(WithoutValue, i, m)
BlockDerives(kinds, i, j) ==
  Token(i) \in DOMAIN Keyworded /\ Keyworded[Token(i)] \in kinds /\ Operand("{", i, j)

RuleDerives(name, i, j) ==
  CASE name = "Expression" -> Derived("invalid", i, j)
    [] name = "Conditions" -> Derived("{", i, j)
    [] name = "ExpressionStatement" ->
         \/ BlockDerives(WithBlock, i, j)
         \/ j > i /\ Token(j - 1) = ";" /\ Derived("invalid", i, j - 1)
    [] name = "Statements" -> StatementsDerive(i, j)
    [] name = "MatchArms" -> ArmsDerive(i, j)
    [] name = "FunctionParameters" ->
         \/ Derives(R("SelfParam") \o Maybe(","), 1, i, j)
         \/ Derives(R("SelfParam") \o T(<<",">>) \o List("FunctionParam", ")"), 1, i, j)
         \/ Derives(List("FunctionParam", ")"), 1, i, j)
    [] name = "NamePattern" -> \E r \in {"IdentifierPattern", "PathPattern", "StructPattern"} :
                                 RuleDerives(r, i, j)
    [] name = "LiteralExpression" -> j = i + 1 /\ Token(i) \in Literals
    [] OTHER -> Derives(Grammar[name], 1, i, j)
-----------------------------------------------------------------------------
Accepted == status = "good" /\ pos > Len(tokens)
IsSentence ==
  IF goal = "Crate" THEN Star(R("Item"), 1, Len(tokens) + 1)
  ELSE RuleDerives(goal, 1, Len(tokens) + 1)

Before(k) == IF k = 1 THEN "invalid" ELSE Token(k - 1)

\* The parser does not ask whether an alternative came behind the bar of a
\* pattern: it takes one that is missing before what ends a pattern.
MissingAlternative ==
  \E k \in 1..Len(tokens) : Token(k) = "|" /\ Token(k + 1) \in {",", ")", "]", "|", "=>", "if"}

\* What the parser takes to the end is a sentence of the grammar, but for the
\* alternatives that are missing.
OnlySentences == (Accepted /\ ~MissingAlternative) => IsSentence

\* And a sentence of the grammar in docs/semantic_rules.md is taken to the
\* end: neither an alternative tried too early, nor an operand or a list that
\* is too greedy, nor a context not restored after a failure hides it.
NothingHidden == (status \in {"good", "failed", "thrown"} /\ IsSentence) => Accepted

\* The sentences that the code does hide: a path in an expression that begins
\* with :: or super or crate, and one in a pattern that begins with a keyword
\* (their first token is not looked for); a struct expression or pattern whose
\* name is not one identifier (only the next token is looked at for the
\* brace); a range, break or return before the block of a condition (its
\* operand is parsed as if a brace could follow); the comma after the last
\* field of a struct pattern; a parameter type that begins with self (taken
\* for the receiver).
Keywords == {"super", "self", "Self", "crate"}
Gap ==
  \E k \in DOMAIN tokens :
    \/ /\ goal \in {"Expression", "BlockExpression"}
       /\ \/ Token(k) = "::" /\ Before(k) \notin {"id"} \cup Keywords
          \/ Token(k) \in {"super", "crate"} /\ Before(k) \notin {"::", "."}
    \/ goal = "PatternNoTopAlt" /\ Token(k) \in Keywords /\ Before(k) # "::"
    \/ goal # "Crate" /\ Token(k) = "::" /\ Token(k + 2) = "{"
    \/ goal # "Crate" /\ Token(k) \in Keywords /\ Token(k + 1) = "{"
    \/ Token(k) \in {"..", "break", "return"} /\ Token(k + 1) = "{"
    \/ goal = "PatternNoTopAlt" /\ Token(k) = "," /\ Token(k + 1) = "}"
    \/ goal = "Crate" /\ Token(k) = "self" /\ Token(k + 1) = "::"
\* It hides no others.
NothingElseHidden == ~Gap => NothingHidden

\* How tightly a tree holds together at its root.
Tightness(t) ==
  CASE t.kind \in {"binary", "assign", "range"} -> Precedence(t.op)
    [] t.kind = "postfix" -> IF t.op = "as" THEN Precedence("as") ELSE Precedence("(")
    [] t.kind = "unary" -> kPrefix
    [] OTHER -> 15
RECURSIVE Bound(_)
Bound(t) ==
  /\ \A k \in DOMAIN t.kids : Bound(t.kids[k])
  /\ CASE t.kind = "binary" -> Tightness(t.kids[1]) >= Tightness(t) /\ Tightness(t.kids[2]) > Tightness(t)
       [] t.kind = "assign" -> Tightness(t.kids[1]) > Tightness(t) /\ Tightness(t.kids[2]) >= Tightness(t)
       [] t.kind = "range" -> \A k \in {1, 2} : Tightness(t.kids[k]) > Tightness(t)
       [] t.kind \in {"unary", "postfix"} -> Tightness(t.kids[1]) >= Tightness(t)
       [] OTHER -> TRUE

\* The tree of an expression groups its operators by the table of precedences:
\* left to right, assignments right to left.  Not so ranges, whose right
\* operand is parsed as an expression of its own, and an if or a loop as an
\* operand: behind one that is a right operand & - * ( end the inner loop and
\* are taken by the outer one.
RECURSIVE Regular(_)
Regular(t) == t.kind \notin {"range"} \cup WithoutValue /\ \A k \in DOMAIN t.kids : Regular(t.kids[k])
RegularPrecedence == \A k \in DOMAIN parsed : Regular(parsed[k]) => Bound(parsed[k])
=============================================================================
