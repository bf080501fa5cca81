------------------------------ MODULE MCLexer ------------------------------
(***************************************************************************)
(* Texts for Lexer.  A family is a set of pieces and a number: its texts   *)
(* are all those of up to that many pieces in a row.  Comments in comments,*)
(* numbers of every form up to the length at which they are refused, floats*)
(* with a suffix among them,                                               *)
(* quotes and escapes, the marks that begin like another one, words and    *)
(* keywords.                                                               *)
(***************************************************************************)
EXTENDS Lexer

Flat(w) == LET F[n \in 0..Len(w)] == IF n = 0 THEN <<>> ELSE F[n - 1] \o w[n] IN F[Len(w)]
Family(pieces, most) == [pieces |-> {Chars(f) : f \in pieces}, most |-> most]

LexerFamilies ==
  {Family({"/", "*", "\n"}, 6),
   Family({"0", "1", "0x", "0b", "_", ".", "u8", "f", "f32", "\n"}, 4),
   Family({"b", "'", "\"", "\\", "\n"}, 5),
   Family({".", "=", "<", ">", "-", "&", ":", "a", "_"}, 4),
   Family({"fn", "f", "_", "1", " ", "\\"}, 4)}

MCTexts ==
  UNION {UNION {{Flat(w) : w \in [1..n -> f.pieces]} : n \in 0..f.most} : f \in LexerFamilies}
=============================================================================
