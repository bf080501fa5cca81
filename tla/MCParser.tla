----------------------------- MODULE MCParser -----------------------------
(***************************************************************************)
(* Token strings for Parser.  A family is a set of pieces, a number and    *)
(* what stands before and after: its strings are all those of up to that   *)
(* many pieces in a row.  Expressions with operators of every level and    *)
(* both associativities, with blocks as operands, and with the brackets    *)
(* that follow an operand; blocks of statements; patterns, types and items.*)
(***************************************************************************)
EXTENDS Parser

CONSTANT MaxTokens

Flat(w) == LET F[n \in 0..Len(w)] == IF n = 0 THEN <<>> ELSE F[n - 1] \o w[n] IN F[Len(w)]
Between(open, pieces, most, close) == [open |-> open, pieces |-> pieces, close |-> close, most |-> most]
Family(pieces, most) == Between(<<>>, pieces, most, <<>>)

Single(S) == {<<s>> : s \in S}
ParserFamilies ==
  [Expression |->
     {Family(Single({"id", "+", "*", "=", "-", "..", "(", ")"}), 4),
      Family({<<"id", op>> : op \in UNION {Levels[k] : k \in 1..11} \ {"..."}} \cup {<<"id", "as">>}, 2),
      Family({<<"id", op>> : op \in {"=", "||", "==", "&", "<<", "-", "as"}} \cup {<<"id">>}, 4),
      Family(Single({"id", "{", "}", "&", "[", "]", "."}), 4),
      Family({<<"id">>, <<"{">>, <<"id", ":", "int">>, <<",">>, <<"}">>, <<"::", "id">>, <<"=">>}, 4),
      Family(Single({"id", "(", ")", ",", ".", "return"}), 4),
      Family(Single({"::", "super", "self", "Self", "crate", "id", ".", "("}), 3),
      Family({<<"::">>, <<"super">>, <<"Self">>, <<"id">>, <<"{", "}">>, <<"-">>, <<"(", ")">>}, 4),
      Family({<<"[">>, <<"]">>, <<"id">>, <<",">>, <<";", "int">>}, 5),
      Family({<<"if", "(", "id", ")", "{", "id", "}">>, <<"else">>, <<"{", "id", "}">>, <<"-", "id">>,
              <<"while", "id">>, <<"..">>, <<"(", ")">>, <<"+", "id">>, <<"loop">>}, 3)},
   BlockExpression |->
     {Between(<<"{">>, Single({"{", "}", ";", "id"}) \cup {<<"let", "id", "=">>, <<"*", "id">>}, 4, <<"}">>),
      Between(<<"{">>, {<<"if", "(", "id", ")">>, <<"{">>, <<"}">>, <<"id">>, <<"*", "id">>, <<"else">>},
              5, <<"}">>),
      Between(<<"{", "match", "id", "{">>,
              {<<"id", "=>">>, <<"|", "int">>, <<",">>, <<"{", ";", "}">>, <<"if", "id">>, <<"id">>},
              4, <<"}", "}">>),
      Between(<<"{", "match", "id", "{">>, Single({"|", "id", "int", "=>"}) \cup {<<"if", "id">>},
              5, <<"=>", "id", "}", "}">>)},
   PatternNoTopAlt |->
     {Between(<<"id", "{">>, Single({"id", ":", ",", "_"}) \cup {<<"-", "int">>, <<"id", ":", "id">>},
              4, <<"}">>),
      Between(<<"(">>, Single({",", "id", "(", ")", "|"}), 4, <<")">>),
      Family(Single({"(", ")", "[", "]", ",", "id", "&", "@"}), 4),
      Family({<<"::">>, <<"super">>, <<"self">>, <<"Self">>, <<"crate">>, <<"id">>, <<"&">>,
              <<"{", "id", ":", "id", "}">>}, 4)},
   Type |-> {Family(Single({"id", "(", ")", "[", "]", ",", "&", "::"}), 4),
             Family({<<"[">>, <<"id">>, <<";", "int">>, <<"]">>, <<"&", "mut">>}, 4)},
   Crate |->
     {Between(<<"fn", "id", "(">>,
              {<<"self">>, <<"&", "self">>, <<"id", ":", "id">>, <<",">>, <<"::", "id">>, <<":">>},
              4, <<")", "->", "id", ";">>),
      Family({<<"struct", "id">>, <<"enum", "id">>, <<"{">>, <<"}">>, <<"id">>, <<":", "id">>, <<",">>,
              <<"=", "int">>, <<";">>}, 4),
      Between(<<"enum", "id", "{">>, {<<"id">>, <<"=", "int">>, <<",">>}, 5, <<"}", "struct", "id", ";">>),
      Between(<<"struct", "id", "{">>, {<<"id">>, <<":", "id">>, <<",">>}, 5, <<"}">>),
      Between(<<"impl">>, {<<"id">>, <<"for">>, <<"::">>, <<"&">>, <<"(", ")">>, <<"{", "type", "id", ";">>},
              4, <<"const", "id", ":", "id", ";", "}">>),
      Between(<<"trait", "id", "{">>,
              {<<"const">>, <<"id", ":", "id">>, <<"fn", "id", "(", ")">>, <<";">>, <<"=", "int">>,
               <<"{", "id", "}">>}, 5, <<"}">>)}]

MCInit ==
  \E g \in DOMAIN ParserFamilies : \E f \in ParserFamilies[g] :
    \E n \in 0..f.most : \E w \in [1..n -> f.pieces] :
      Len(Flat(w)) <= MaxTokens /\ InitWith(g, f.open \o Flat(w) \o f.close)

MCSpec == MCInit /\ [][Next]_vars
=============================================================================
