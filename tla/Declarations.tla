----------------------------- MODULE Declarations -----------------------------
(***************************************************************************)
(* The four passes over a crate in include/frontend/syntax_check.hpp and   *)
(* src/frontend/syntax_check.cpp, as far as names go: SymbolCollector      *)
(* opens the scopes and enters types and constants, TypeDeclarator makes   *)
(* the types and the builtin symbols, PreTypeFiller resolves the types     *)
(* written, evaluates constants and enters functions and methods, and      *)
(* TypeFiller enters parameters and variables and looks up what            *)
(* expressions name.  main.cpp starts a pass if the one before reported    *)
(* nothing, so the first report, or exception, ends the run: "rejected".   *)
(* What the last pass checks of types is module TypeFiller.                *)
(*                                                                         *)
(* A crate is the sequence of the nodes that concern names, in the order   *)
(* in which RecursiveVisitor (src/frontend/recursive_visitor.cpp) meets    *)
(* them:                                                                   *)
(*   <<"fn", name, self>> <<"param", name, type>>... <<"close">>           *)
(*   <<"impl", type>> ... <<"close">>   <<"block">> ... <<"close">>        *)
(*   <<"loop">> ... <<"close">>         <<"struct", S>>                    *)
(*   <<"enum", E, variants>>            <<"const", name, type, expression>> *)
(*   <<"type", name>>   a type written as a result, a field or in a let    *)
(*   <<"length", expression>>   the length of an array type                *)
(*   <<"let", name>>  <<"path", name>>  <<"member", type, name>>           *)
(*   <<"break">>                                                           *)
(* A scope is known by the position of the node it belongs to, the scope   *)
(* of the crate by 0.                                                      *)
(***************************************************************************)
EXTENDS ConstEvaluator, FiniteSets

CONSTANTS
  Crates,    \* the programs
  Primes,    \* names of primitive types
  Builtins   \* names of builtin functions

VARIABLES
  code,      \* the crate
  pass,      \* "collect", "declare", "prefill", "fill" or "done"
  at,        \* the node the pass has come to; 0 is the crate itself
  verdict,   \* "running", "accepted", "rejected" or "crashed"
  scopes,    \* _scopes: the scopes that are open, innermost last
  loops,     \* _loop_context of SymbolCollector
  inAsso,    \* _is_in_asso_block
  implType,  \* _impl_type: the impl whose type it is, 0 for null
  self,      \* _self_state
  symbols,   \* scope -> name -> [kind, item, type, val]
  methods,   \* the method table of the crate: <<type, name>> -> function
  tags,      \* get_type() of the types written: node -> type, or NoType
  lengths,   \* node -> length of the array type
  means      \* node -> the item a name was resolved to; not kept by the code

walk == <<pass, at, verdict>>
context == <<scopes, loops, inAsso, implType, self>>
tables == <<symbols, methods, tags, lengths>>
vars == <<code, walk, context, tables, means>>

Openers == {"fn", "impl", "block", "loop"}
Here == code[at]
Inner == Last(scopes)
Closing == code[Inner]   \* the node that a "close" belongs to
Symbol(kind, item, type) == [kind |-> kind, item |-> item, type |-> type, val |-> Fails]
None == Symbol("none", -1, NoType)

\* Scope::add_symbol throws when the scope has the name.
Vacant(name) == name \notin DOMAIN symbols[Inner]
With(scope, name, info) == [symbols EXCEPT ![scope] = (name :> info) @@ @]
Add(name, info) == symbols' = IF Vacant(name) THEN With(Inner, name, info) ELSE symbols
\* ScopedVisitor::find_symbol
Find_Outermost(name) ==
  LET in == {k \in DOMAIN scopes : name \in DOMAIN symbols[scopes[k]]}
  IN IF in = {} THEN None ELSE symbols[scopes[CHOOSE k \in in : \A j \in in : k <= j]][name]
Find(name) ==
  LET in == {k \in DOMAIN scopes : name \in DOMAIN symbols[scopes[k]]}
  IN IF in = {} THEN None ELSE symbols[scopes[CHOOSE k \in in : \A j \in in : j <= k]][name]

\* A handler for a node of one of these kinds, met by pass p, and its end:
\* without a report the pass goes on.
Meets(p, kinds) == pass = p /\ verdict = "running" /\ at \in DOMAIN code /\ Here[1] \in kinds
Proceed(ok) ==
  /\ at' = at + 1
  /\ verdict' = IF ok THEN verdict ELSE "rejected"
  /\ UNCHANGED <<code, pass>>
Resolve(item) == means' = [means EXCEPT ![at] = item]

-----------------------------------------------------------------------------
\* SymbolCollector
CollectScope ==
  /\ Meets("collect", Openers)
  /\ symbols' = (at :> <<>>) @@ symbols
  /\ scopes' = Append(scopes, at)
  /\ loops' = IF Here[1] = "loop" THEN Append(loops, at) ELSE loops
  /\ Proceed(TRUE)
  /\ UNCHANGED <<inAsso, implType, self, methods, tags, lengths, means>>
CollectClose ==
  /\ Meets("collect", {"close"})
  /\ scopes' = Front(scopes)
  /\ loops' = IF Closing[1] = "loop" THEN Front(loops) ELSE loops
  /\ Proceed(TRUE)
  /\ UNCHANGED <<inAsso, implType, self, tables, means>>
CollectItem ==
  /\ Meets("collect", {"struct", "enum", "const"})
  /\ Add(Here[2], Symbol(Here[1], at, NoType))
  /\ Proceed(Vacant(Here[2]))
  /\ UNCHANGED <<context, methods, tags, lengths, means>>
CollectBreak ==
  /\ Meets("collect", {"break"})
  /\ Proceed(loops # <<>>)
  /\ IF loops # <<>> THEN Resolve(Last(loops)) ELSE UNCHANGED means
  /\ UNCHANGED <<context, tables>>

-----------------------------------------------------------------------------
\* ScopedVisitor, which the other three passes extend.
EnterScope ==
  /\ \E p \in {"declare", "prefill", "fill"} :
       Meets(p, {"block", "loop"} \cup (IF p = "fill" THEN {} ELSE {"fn"}))
  /\ scopes' = Append(scopes, at)
  /\ Proceed(TRUE)
  /\ UNCHANGED <<loops, inAsso, implType, self, tables, means>>
LeaveScope ==
  /\ \E p \in {"declare", "prefill", "fill"} :
       /\ Meets(p, {"close"})
       /\ Closing[1] \in {"block", "loop"} \cup (IF p = "declare" THEN {"fn"} ELSE {})
  /\ scopes' = Front(scopes)
  /\ Proceed(TRUE)
  /\ UNCHANGED <<loops, inAsso, implType, self, tables, means>>
EnterImpl ==
  /\ Meets("declare", {"impl"}) \/ Meets("fill", {"impl"})
  /\ scopes' = Append(scopes, at)
  /\ inAsso' = TRUE
  /\ implType' = IF tags[at] = NoType THEN 0 ELSE at
  /\ Proceed(TRUE)
  /\ UNCHANGED <<loops, self, tables, means>>
LeaveImpl ==
  /\ \E p \in {"declare", "prefill", "fill"} : Meets(p, {"close"}) /\ Closing[1] = "impl"
  /\ scopes' = Front(scopes)
  /\ inAsso' = FALSE /\ implType' = 0
  /\ Proceed(TRUE)
  /\ UNCHANGED <<loops, self, tables, means>>

-----------------------------------------------------------------------------
\* TypeDeclarator.  Types are interned by their names.
DeclareType ==
  /\ Meets("declare", {"struct", "enum"})
  /\ LET info == Find(Here[2])
     IN symbols' = With(Inner, Here[2], [info EXCEPT !.type = <<Here[1], Here[2]>>])
  /\ Proceed(TRUE)
  /\ UNCHANGED <<context, methods, tags, lengths, means>>
BuiltinSymbols ==
  [x \in Primes \cup Builtins |->
     IF x \in Primes THEN Symbol("prime", 0, Prime(x)) ELSE Symbol("fn", 0, FunctionType(0))]

-----------------------------------------------------------------------------
\* PreTypeFiller::postVisit(TypePath)
Written(name) ==
  IF name = "Self" THEN IF implType = 0 THEN None ELSE Symbol("struct", means[implType], tags[implType])
  ELSE Find(name)
IsType(info) == info.kind \in {"struct", "enum", "prime"}
PreType ==
  /\ Meets("prefill", {"type", "param"})
  /\ LET info == Written(Last(Here))
     IN /\ Proceed(IsType(info))
        /\ tags' = [tags EXCEPT ![at] = info.type]
        /\ Resolve(info.item)
  /\ UNCHANGED <<context, symbols, methods, lengths>>
\* visit(InherentImpl): the scope is entered before the type is looked at.
PreImpl ==
  /\ Meets("prefill", {"impl"})
  /\ LET info == IF Here[2] = "Self" THEN None ELSE Find(Here[2])
     IN /\ Proceed(IsType(info))
        /\ tags' = [tags EXCEPT ![at] = info.type]
        /\ Resolve(info.item)
  /\ scopes' = Append(scopes, at)
  /\ inAsso' = TRUE /\ implType' = at
  /\ UNCHANGED <<loops, self, symbols, methods, lengths>>

\* The constants that have a value by now.
Names(e) == {n[2][1] : n \in {m \in ToSet(Table(e)) : m.kind = "path"}}
Known == LET visible == UNION {DOMAIN symbols[scopes[k]] : k \in DOMAIN scopes}
         IN {x \in visible : Find(x).kind = "const" /\ Yields(Find(x).val)}
Evaluated(e) == Evaluate(e, [x \in Known |-> Find(x).val])
\* postVisit(ConstantItem)
PreConstant ==
  /\ Meets("prefill", {"const"})
  /\ LET value == Evaluated(Here[4])
         type == Written(Here[3])
         own == Find(Here[2])
         ok == Yields(value) /\ IsType(type) /\ own.kind = "const" /\ Convertible(type.type, value.type)
     IN /\ symbols' = IF ok THEN With(Inner, Here[2], [own EXCEPT !.type = type.type,
                                                                  !.val = [value EXCEPT !.type = type.type]])
                      ELSE symbols
        /\ Proceed(ok)
  /\ UNCHANGED <<context, methods, tags, lengths, means>>
\* postVisit(ArrayType)
PreLength ==
  /\ Meets("prefill", {"length"})
  /\ LET value == Evaluated(Here[2])
         ok == Yields(value) /\ IsLength(value)
     IN /\ lengths' = IF ok THEN [lengths EXCEPT ![at] = value.v] ELSE lengths
        /\ Proceed(ok)
  /\ UNCHANGED <<context, symbols, methods, tags, means>>

\* postVisit(SelfParam) and postVisit(Function): the function is entered in the
\* scope around it and, inside an impl, in the method table, where the first of
\* a name stays.
Registered(type) == methods @@ (<<type, Closing[2]>> :> Inner)
PreFunction ==
  /\ Meets("prefill", {"close"}) /\ Closing[1] = "fn"
  /\ LET outer == scopes[Len(scopes) - 1]
         vacant == Closing[2] \notin DOMAIN symbols[outer]
         ok == /\ Closing[3] # "none" => inAsso /\ implType # 0
               /\ vacant
               /\ inAsso => implType # 0
     IN /\ symbols' = IF ok THEN With(outer, Closing[2], Symbol("fn", Inner, FunctionType(Inner))) ELSE symbols
        /\ methods' = IF ok /\ inAsso THEN Registered(tags[implType]) ELSE methods
        /\ Proceed(ok)
  /\ scopes' = Front(scopes)
  /\ UNCHANGED <<loops, inAsso, implType, self, tags, lengths, means>>

-----------------------------------------------------------------------------
\* TypeFiller::visit(Function): its self parameter gives the state of self.
FillFunction ==
  /\ Meets("fill", {"fn"})
  /\ scopes' = Append(scopes, at)
  /\ self' = IF Here[3] # "none" THEN Here[3] ELSE self
  /\ Proceed(TRUE)
  /\ UNCHANGED <<loops, inAsso, implType, tables, means>>
\* bind_identifier: a symbol of the innermost scope is replaced.
FillName ==
  /\ Meets("fill", {"param", "let"})
  /\ symbols' = With(Inner, Here[2], Symbol("variable", at, tags[at]))
  /\ Proceed(TRUE)
  /\ UNCHANGED <<context, methods, tags, lengths, means>>
\* postVisit(PathInExpression)
FillPath ==
  /\ Meets("fill", {"path"})
  /\ LET info == Find(Here[2])
     IN IF Here[2] = "self"
        THEN /\ Proceed(inAsso /\ implType # 0 /\ self # "none")
             /\ Resolve(implType)
        ELSE /\ Proceed(info.kind \in {"const", "variable", "fn", "struct"})
             /\ Resolve(info.item)
  /\ UNCHANGED <<context, tables>>
FillMember ==
  /\ Meets("fill", {"member"})
  /\ LET info == Find(Here[2])
         type == IF Here[2] = "Self" THEN IF inAsso /\ implType # 0 THEN tags[implType] ELSE NoType
                 ELSE IF info.kind = "struct" THEN info.type ELSE NoType
         isMethod == <<type, Here[3]>> \in DOMAIN methods
         isVariant == info.kind = "enum" /\ Here[3] \in code[info.item][3]
     IN /\ Proceed(isMethod \/ isVariant)
        /\ Resolve(IF isMethod THEN methods[type, Here[3]] ELSE info.item)
  /\ UNCHANGED <<context, tables>>
\* The end of visit(Function): the function is looked for by its name, from
\* inside its own scope, to compare its type with the type of the body
\* (TypeFiller!FinishFunction); a symbol of another kind is not noticed.
FillEnd ==
  /\ Meets("fill", {"close"}) /\ Closing[1] = "fn"
  /\ self' = "none"
  /\ scopes' = Front(scopes)
  /\ LET own == Find(Closing[2])
     IN /\ at' = at + 1
        /\ verdict' = IF own.kind = "fn" THEN verdict ELSE "crashed"
        /\ Resolve(own.item)
  /\ UNCHANGED <<code, pass, loops, inAsso, implType, tables>>

-----------------------------------------------------------------------------
\* Nodes a pass does nothing with.  In the last one, constants are expressions
\* like others.
Indifferent ==
  [collect |-> {"param", "type", "length", "let", "path", "member"},
   declare |-> {"param", "type", "length", "let", "path", "member", "const", "break"},
   prefill |-> {"let", "path", "member", "break", "struct", "enum"},
   fill |-> {"struct", "enum", "const", "type", "length", "break"}]
Skip ==
  /\ \E p \in DOMAIN Indifferent : Meets(p, Indifferent[p])
  /\ Proceed(TRUE)
  /\ UNCHANGED <<context, tables, means>>

\* The end of a pass and the start of the next one: load_builtin enters the
\* builtin symbols, and PreTypeFiller looks for main.
Follows(p) == CASE p = "collect" -> "declare" [] p = "declare" -> "prefill" [] p = "prefill" -> "fill" [] p = "fill" -> "done"
Parameters(f) == {k \in DOMAIN code : /\ f < k /\ code[k][1] = "param"
                                      /\ \A j \in f + 1..k : code[j][1] = "param"}
NextPass ==
  /\ verdict = "running" /\ at = Len(code) + 1
  /\ LET main == Find("main")
         hasMain == main.kind = "fn" /\ Parameters(main.item) = {}
         clash == DOMAIN BuiltinSymbols \cap DOMAIN symbols[0] # {}
     IN /\ verdict' = CASE pass = "collect" /\ clash -> "rejected"
                        [] pass = "prefill" /\ ~hasMain -> "rejected"
                        [] pass = "fill" -> "accepted"
                        [] OTHER -> "running"
        /\ symbols' = IF pass = "collect" /\ ~clash THEN [symbols EXCEPT ![0] = BuiltinSymbols @@ @] ELSE symbols
  /\ pass' = IF verdict' = "rejected" THEN pass ELSE Follows(pass)
  /\ at' = 1
  /\ UNCHANGED <<code, context, methods, tags, lengths, means>>

InitWith(crate) ==
  /\ code = crate
  /\ pass = "collect" /\ at = 1 /\ verdict = "running"
  /\ scopes = <<0>> /\ loops = <<>> /\ inAsso = FALSE /\ implType = 0 /\ self = "none"
  /\ symbols = (0 :> <<>>) /\ methods = <<>>
  /\ tags = [k \in DOMAIN code |-> NoType]
  /\ lengths = [k \in DOMAIN code |-> -1]
  /\ means = [k \in DOMAIN code |-> -1]
Init == \E crate \in Crates : InitWith(crate)

Next ==
  \/ CollectScope \/ CollectClose \/ CollectItem \/ CollectBreak
  \/ EnterScope \/ LeaveScope \/ EnterImpl \/ LeaveImpl \/ DeclareType
  \/ PreType \/ PreImpl \/ PreConstant \/ PreLength \/ PreFunction
  \/ FillFunction \/ FillName \/ FillPath \/ FillMember \/ FillEnd
  \/ Skip \/ NextPass

Spec == Init /\ [][Next]_vars
=============================================================================
