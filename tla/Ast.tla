--------------------------------- MODULE Ast ---------------------------------
(***************************************************************************)
(* The expression tree of include/frontend/ast.hpp.  A node is             *)
(* <<kind, attribute, children>>, the children in the order in which       *)
(* RecursiveVisitor (src/frontend/recursive_visitor.cpp) visits them.      *)
(* Statements have no node of their own: the children of a block are its   *)
(* statements and, when hasTail holds, the tail expression.  A child that  *)
(* is neither a let statement nor the tail is an ExpressionStatement.      *)
(***************************************************************************)
EXTENDS Integers, Sequences, SequencesExt

\* suffix is "int" for a literal without one, "bool" for true and false.
Literal(value, suffix) == <<"literal", <<value, suffix>>, <<>>>>
Path(name) == <<"path", <<name>>, <<>>>>
Path2(type, name) == <<"path", <<type, name>>, <<>>>>
Borrow(mut, e) == <<"borrow", mut, <<e>>>>
Deref(e) == <<"deref", "*", <<e>>>>
Negation(op, e) == <<"negation", op, <<e>>>>
Arith(op, a, b) == <<"arith", op, <<a, b>>>>
Comparison(op, a, b) == <<"comparison", op, <<a, b>>>>
Lazy(op, a, b) == <<"lazy", op, <<a, b>>>>
TypeCast(e, type) == <<"cast", type, <<e>>>>
Assign(a, b) == <<"assign", "=", <<a, b>>>>
CompoundAssign(op, a, b) == <<"compound", op, <<a, b>>>>
Grouped(e) == <<"grouped", "(", <<e>>>>
ArrayOf(es) == <<"array", "[", es>>
Repeated(e, n) == <<"repeated", n, <<e>>>>
Index(e, i) == <<"index", "[", <<e, i>>>>
TupleExpr(es) == <<"tuple", "(", es>>
StructOf(path, fields, es) == <<"struct", fields, <<path>> \o es>>
CallOf(f, args) == <<"call", "(", <<f>> \o args>>
MethodCall(caller, method, args) == <<"method", method, <<caller>> \o args>>
Field(e, field) == <<"field", field, <<e>>>>
Continue == <<"continue", "continue", <<>>>>
Break(es) == <<"break", "break", es>>
Return(es) == <<"return", "return", es>>
Block(stmts) == <<"block", FALSE, stmts>>
BlockValue(stmts, tail) == <<"block", TRUE, Append(stmts, tail)>>
Body(stmts) == <<"body", FALSE, stmts>>
BodyValue(stmts, tail) == <<"body", TRUE, Append(stmts, tail)>>
Loop(block) == <<"loop", "loop", <<block>>>>
While(cond, block) == <<"while", "while", <<cond, block>>>>
If(cond, block) == <<"if", "if", <<cond, block>>>>
IfElse(cond, block, else) == <<"if", "if", <<cond, block, else>>>>
\* tag is the type written in the statement, <<>> without one.
Let(pattern, tag, e) == <<"let", <<pattern, tag>>, <<e>>>>

\* Patterns, also <<kind, attribute, children>>.
Name(x, mut) == <<"name", <<x, mut>>, <<>>>>
NameRef(x, mut) == <<"nameref", <<x, mut>>, <<>>>>
Wildcard == <<"wildcard", "_", <<>>>>
TuplePattern(ps) == <<"tuple", "(", ps>>
ReferencePattern(mut, p) == <<"reference", mut, <<p>>>>
StructPattern(S, fields, ps) == <<"struct", <<S, fields>>, ps>>
GroupedPattern(p) == <<"grouped", "(", <<p>>>>

-----------------------------------------------------------------------------
\* The nodes of a tree in preorder, numbered from first; a node names its
\* children by their numbers.
RECURSIVE Nodes(_, _)
Nodes(tree, first) ==
  LET AddChild(done, child) ==
        [kids |-> Append(done.kids, first + 1 + Len(done.nodes)),
         nodes |-> done.nodes \o Nodes(child, first + 1 + Len(done.nodes))]
      all == FoldLeft(AddChild, [kids |-> <<>>, nodes |-> <<>>], tree[3])
  IN <<[kind |-> tree[1], at |-> tree[2], kids |-> all.kids]>> \o all.nodes
Table(tree) == Nodes(tree, 1)
=============================================================================
