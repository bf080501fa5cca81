------------------------------- MODULE Lexer -------------------------------
(***************************************************************************)
(* Lexer::tokenize (lexer.cpp, lexer.hpp): one step is one turn of its     *)
(* loop, which skips blanks and comments (advance) and takes one token.    *)
(* A text is a sequence of characters, a character a string of length one, *)
(* and positions count from 1.  The type of a keyword or of a mark is told *)
(* by its text.  The field at, where a token starts, is not in the code:   *)
(* the properties need it.                                                 *)
(***************************************************************************)
EXTENDS Naturals, Sequences, FiniteSets

CONSTANTS Texts, MaxLiteral     \* MaxLiteral is kMaxLiteralLength

VARIABLES text, pos, row, col, tokens, err
vars == <<text, pos, row, col, tokens, err>>

Digits == {"0", "1", "2", "3", "4", "5", "6", "7", "8", "9"}
HexDigits == Digits \cup {"a", "b", "c", "d", "e", "f", "A", "B", "C", "D", "E", "F"}
Letters ==
  (HexDigits \ Digits) \cup
  {"g", "h", "i", "j", "k", "l", "m", "n", "o", "p", "q", "r", "s", "t", "u", "v", "w", "x",
   "y", "z", "G", "H", "I", "J", "K", "L", "M", "N", "O", "P", "Q", "R", "S", "T", "U", "V",
   "W", "X", "Y", "Z"}
Separated(S) == S \cup {"_"}    \* the digits S, and what may separate them
WordChars == Letters \cup Separated(Digits)
Blanks == {" ", "\n", "\t", "\r"}
Quotes == {"'", "\""}

Chars(s) == [k \in 1..Len(s) |-> SubSeq(s, k, k)]

KeywordNames ==
  {"as", "break", "const", "continue", "crate", "else", "enum", "extern", "false", "fn", "for",
   "if", "impl", "in", "let", "loop", "match", "mod", "move", "mut", "pub", "ref", "return",
   "self", "Self", "static", "struct", "super", "trait", "true", "type", "unsafe", "use",
   "where", "while", "async", "await", "dyn"}
Keywords == {Chars(s) : s \in KeywordNames}

\* The switch: the branches of the case of c, in the order in which it tries them.
Branches(c) ==
  CASE c \in {"+", "*", "/", "%", "^", "!"} -> <<<<c, "=">>, <<c>>>>
    [] c \in {"&", "|"} -> <<<<c, "=">>, <<c, c>>, <<c>>>>
    [] c = "-" -> <<<<c, "=">>, <<c, ">">>, <<c>>>>
    [] c = "<" -> <<<<c, c, "=">>, <<c, c>>, <<c, "=">>, <<c, "-">>, <<c>>>>
    [] c = ">" -> <<<<c, c, "=">>, <<c, c>>, <<c, "=">>, <<c>>>>
    [] c = "=" -> <<<<c, c>>, <<c, ">">>, <<c>>>>
    [] c = "." -> <<<<c, c, c>>, <<c, c, "=">>, <<c, c>>, <<c>>>>
    [] c = ":" -> <<<<c, c>>, <<c>>>>
    [] c \in {"#", "$", "?", "~", "@", ",", ";", "_", "(", ")", "[", "]", "{", "}"} -> <<<<c>>>>
    [] OTHER -> <<>>
IntSuffixes ==
  {<<t>> \o w : t \in {"u", "i"},
               w \in {<<"8">>, <<"1", "6">>, <<"3", "2">>, <<"6", "4">>, <<"s", "i", "z", "e">>}}

ASSUME LexerAssumption ==
  /\ MaxLiteral \in Nat \ {0}
  /\ Texts \subseteq Seq(STRING)

\* s from p to q - 1, cut at the end of s.
Sub(s, p, q) == IF q - 1 <= Len(s) THEN SubSeq(s, p, q - 1) ELSE SubSeq(s, p, Len(s))
Text(p, q) == Sub(text, p, q)
StartsWith(s, p, t) == Sub(s, p, p + Len(t)) = t
NoChar == ""
Char(s, p) == IF p <= Len(s) THEN s[p] ELSE NoChar
End == Len(text) + 1

\* Where the run of characters of S that starts at p in s ends.
RunEnd(s, p, S) ==
  CHOOSE q \in p..Len(s) + 1 : Char(s, q) \notin S /\ \A k \in p..q - 1 : Char(s, k) \in S
-----------------------------------------------------------------------------
\* Mutant: a comment ends at the first "*/".
CommentEndFlat(s) ==
  [p \in 1..Len(s) + 1 |-> [n \in Nat |->
     LET ends == {q \in p..Len(s) : StartsWith(s, q, <<"*", "/">>)}
     IN IF ends = {} THEN 0 ELSE 2 + CHOOSE q \in ends : \A r \in ends : q <= r]]
\* Where the comment ends that is n levels deep at p; 0 if it is not closed.
CommentEnd(s) ==
  LET E[p \in 1..Len(s) + 1] ==
        [n \in Nat |->
           IF n = 0 THEN p
           ELSE IF p >= Len(s) THEN 0
           ELSE IF StartsWith(s, p, <<"*", "/">>) THEN E[p + 2][n - 1]
           ELSE IF StartsWith(s, p, <<"/", "*">>) THEN E[p + 2][n + 1]
           ELSE E[p + 1][n]]
  IN E

LineEnd(s, p) ==
  CHOOSE q \in p..Len(s) + 1 : /\ q = Len(s) + 1 \/ Char(s, q) = "\n"
                               /\ \A k \in p..q - 1 : Char(s, k) # "\n"

\* advance() from p: where the next token starts, or the end of the text; 0
\* when a comment is open.
Skip(s) ==
  LET A[p \in 1..Len(s) + 1] ==
        IF StartsWith(s, p, <<"/", "/">>) THEN A[LineEnd(s, p + 2)]
        ELSE IF StartsWith(s, p, <<"/", "*">>)
             THEN IF CommentEnd(s)[p + 2][1] = 0 THEN 0 ELSE A[CommentEnd(s)[p + 2][1]]
        ELSE IF Char(s, p) \in Blanks THEN A[p + 1]
        ELSE p
  IN A

\* Mutant: a newline inside what is passed counts as a column.
WalkFlat(p, q, place) ==
  IF p < q /\ Char(text, p) = "\n" THEN <<place[1] + 1, q - p>> ELSE <<place[1], place[2] + (q - p)>>
\* advance_one() from p to q: the row and the column it is left with.
Walk(p, q, place) ==
  LET lines == {k \in p..q - 1 : Char(text, k) = "\n"}
  IN IF lines = {} THEN <<place[1], place[2] + (q - p)>>
     ELSE <<place[1] + Cardinality(lines), q - CHOOSE k \in lines : \A j \in lines : j <= k>>
-----------------------------------------------------------------------------
\* tokenize_number_literal, on the MaxLiteral characters it looks at: the
\* patterns for prefixed integers need a digit after the prefix, and the
\* first that matches wins.
Prefixed(str, prefix, S) ==
  LET e == RunEnd(str, 3, Separated(S))
  IN IF StartsWith(str, 1, prefix) /\ \E k \in 3..e - 1 : Char(str, k) \in S THEN e - 1 ELSE 0
FirstOf(lengths) == lengths[CHOOSE k \in DOMAIN lengths :
                              /\ lengths[k] > 0
                              /\ \A j \in 1..k - 1 : lengths[j] = 0]
DecLength(str) == RunEnd(str, 1, Separated(Digits)) - 1
IntLength(str) ==
  FirstOf(<<Prefixed(str, <<"0", "x">>, HexDigits),
            Prefixed(str, <<"0", "o">>, {"0", "1", "2", "3", "4", "5", "6", "7"}),
            Prefixed(str, <<"0", "b">>, {"0", "1"}),
            DecLength(str)>>)

\* float_pattern: a point and one more character that belongs to no word and
\* is no point, or a point and digits.  0 when neither matches.  The third
\* alternative, f32 or f64 after the digits, cannot match where it is tried.
FloatLength(str) ==
  LET d == DecLength(str)
      c == Char(str, d + 2)
  IN IF Char(str, d + 1) # "." \/ c = NoChar \/ c = "." \/ c \in WordChars \ Digits THEN 0
     ELSE IF c \in Digits THEN RunEnd(str, d + 2, Separated(Digits)) - 1
     ELSE d + 2

\* The type and the length of the number at p; length 0 when it is too long.
Number(p) ==
  LET str == Text(p, p + MaxLiteral)
      n == IntLength(str)
      suffix == {s \in IntSuffixes : StartsWith(str, n + 1, s)}
  IN IF n >= MaxLiteral THEN <<"int", 0>>
     ELSE IF Char(text, p + n) = "."
          THEN IF FloatLength(str) > 0 THEN <<"float", FloatLength(str)>> ELSE <<"int", n>>
     ELSE <<"int", IF suffix = {} THEN n ELSE n + Len(CHOOSE s \in suffix : TRUE)>>

\* tokenize_string_literal from the character after the opening quote c: the
\* end of the literal, or 0.
StringEnd(s, c) ==
  LET E[p \in 1..Len(s) + 1] ==
        IF p = Len(s) + 1 THEN 0
        ELSE IF s[p] = "\\" THEN (IF p >= Len(s) - 1 THEN 0 ELSE E[p + 2])
        ELSE IF s[p] = c THEN p + 1
        ELSE E[p + 1]
  IN E

\* Mutant: of a mark and one that it begins with, the shorter is tried first.
PunctuationShort(p) ==
  LET marks == Branches(Char(text, p))
      fit == {k \in DOMAIN marks : StartsWith(text, p, marks[k])}
  IN IF fit = {} THEN <<>> ELSE marks[CHOOSE k \in fit : \A j \in fit : j <= k]
\* tokenize_punctuation_delimiter: the branch taken at p, <<>> for the default.
Punctuation(p) ==
  LET marks == Branches(Char(text, p))
      fit == {k \in DOMAIN marks : StartsWith(text, p, marks[k])}
  IN IF fit = {} THEN <<>> ELSE marks[CHOOSE k \in fit : \A j \in fit : k <= j]
-----------------------------------------------------------------------------
Token(type, p, q, place) ==
  [type |-> type, lexeme |-> Text(p, q), row |-> place[1], col |-> place[2], at |-> p]

\* The token from p to q is pushed and the scanner stands at q.
Push(type, p, q, tokenPlace, place) ==
  /\ tokens' = Append(tokens, Token(type, p, q, tokenPlace))
  /\ pos' = q /\ row' = place[1] /\ col' = place[2]
  /\ UNCHANGED <<text, err>>

Fail(code, p, place) ==
  /\ err' = code /\ pos' = p /\ row' = place[1] /\ col' = place[2]
  /\ UNCHANGED <<text, tokens>>

Start == Skip(text)[pos]
Here == Walk(pos, Start, <<row, col>>)
IsString(p) == Char(text, p) \in Quotes \/ (Char(text, p) = "b" /\ Char(text, p + 1) \in Quotes)
IsWord(p) ==
  Char(text, p) \in Letters \/ (Char(text, p) = "_" /\ Char(text, p + 1) \in WordChars)

Running == err = "running"

OpenComment == Running /\ Start = 0 /\ Fail("kWhitespaceComment", pos, <<row, col>>)

AtEnd == Running /\ Start = End /\ Fail("kSuccess", End, Here)

NumberLiteral ==
  /\ Running /\ Start > 0 /\ Char(text, Start) \in Digits
  /\ LET n == Number(Start)
     IN IF n[2] = 0 THEN Fail("kNumber", Start, Here)
        ELSE Push(n[1], Start, Start + n[2], Here, <<Here[1], Here[2] + n[2]>>)

\* A character literal that is not three characters long is refused after it
\* has been passed; the place of the token is the place where it ends.
StringLiteral ==
  /\ Running /\ Start > 0 /\ IsString(Start)
  /\ LET open == IF Char(text, Start) = "b" THEN Start + 1 ELSE Start
         c == Char(text, open)
         e == StringEnd(text, c)[open + 1]
         place == Walk(Start, e, Here)
     IN IF e = 0 THEN Fail("kCharString", Start, Here)
        ELSE IF c = "'" /\ e - Start # 3 THEN Fail("kCharString", e, place)
        ELSE Push(IF c = "'" THEN "char" ELSE "string", Start, e, place, place)

KeywordIdentifier ==
  /\ Running /\ Start > 0 /\ ~IsString(Start) /\ IsWord(Start)
  /\ LET e == RunEnd(text, Start, WordChars)
         lexeme == Text(Start, e)
     IN Push(IF lexeme \in Keywords THEN "keyword" ELSE "identifier", Start, e, Here,
             Walk(Start, e, Here))

PunctuationDelimiter ==
  /\ Running /\ Start > 0 /\ Start # End
  /\ Char(text, Start) \notin Digits /\ ~IsString(Start) /\ ~IsWord(Start)
  /\ LET mark == Punctuation(Start)
         e == Start + Len(mark)
     IN IF mark = <<>> THEN Fail("kPunctuationDelimiter", Start, Here)
        ELSE Push("mark", Start, e, Here, Walk(Start, e, Here))

InitWith(t) ==
  /\ text = t
  /\ pos = 1 /\ row = 1 /\ col = 1 /\ tokens = <<>> /\ err = "running"
Init == \E t \in Texts : InitWith(t)

Next ==
  \/ OpenComment \/ AtEnd \/ NumberLiteral \/ StringLiteral \/ KeywordIdentifier
  \/ PunctuationDelimiter

Spec == Init /\ [][Next]_vars
-----------------------------------------------------------------------------
\* The grammar of what lies between tokens, as the ends of what may begin at p.
\* Inside a comment: comments whose brackets match, and anything else that does
\* not begin a bracket.
Closed(s, p, B) ==
  {e + 2 : e \in {q \in p + 2..Len(s) - 1 : q \in B[p + 2] /\ StartsWith(s, q, <<"*", "/">>)}}
Bodies(s) ==
  LET B[p \in 1..Len(s) + 1] ==
        {p} \cup
        (IF StartsWith(s, p, <<"/", "*">>) THEN UNION {B[q] : q \in Closed(s, p, B)}
         ELSE IF p <= Len(s) /\ ~StartsWith(s, p, <<"*", "/">>) THEN B[p + 1]
         ELSE {})
  IN B
Comments(s, p) == IF StartsWith(s, p, <<"/", "*">>) THEN Closed(s, p, Bodies(s)) ELSE {}
LineComments(s, p) ==
  {q \in p + 2..Len(s) + 1 : /\ StartsWith(s, p, <<"/", "/">>)
                             /\ q = Len(s) + 1 \/ Char(s, q) = "\n"
                             /\ \A k \in p..q - 1 : Char(s, k) # "\n"}
\* Between tokens: blanks, comments up to the end of the line, whole comments.
Gaps(s) ==
  LET G[p \in 1..Len(s) + 1] ==
        {p} \cup (IF Char(s, p) \in Blanks THEN G[p + 1]
                  ELSE IF Char(s, p) = "/" THEN UNION {G[q] : q \in LineComments(s, p) \cup Comments(s, p)}
                  ELSE {})
  IN G

After(k) == IF k = 0 THEN 1 ELSE tokens[k].at + Len(tokens[k].lexeme)

\* Nothing of the text is lost or read twice: each token is the text of its
\* span, between two tokens there are only blanks and whole comments, and so
\* there are after the last one when the scanner succeeds.
Lossless ==
  /\ \A k \in DOMAIN tokens :
       /\ Len(tokens[k].lexeme) > 0
       /\ tokens[k].lexeme = Text(tokens[k].at, After(k))
       /\ tokens[k].at \in Gaps(text)[After(k - 1)]
  /\ err = "kSuccess" => End \in Gaps(text)[After(Len(tokens))]

\* The words, numbers and marks of the language.
Over(s, S) == \A k \in 1..Len(s) : Char(s, k) \in S
IsDigits(s) == Char(s, 1) \in Digits /\ Over(s, Separated(Digits))
IsPrefixed(s, prefix, S) ==
  /\ StartsWith(s, 1, prefix) /\ Over(SubSeq(s, 3, Len(s)), Separated(S))
  /\ \E k \in 3..Len(s) : Char(s, k) \in S
IsInt(s) ==
  \/ IsDigits(s)
  \/ \E f \in {<<<<"0", "x">>, HexDigits>>, <<<<"0", "o">>, Digits \ {"8", "9"}>>, <<<<"0", "b">>, {"0", "1"}>>} :
       IsPrefixed(s, f[1], f[2])
IsFraction(s) == \E k \in 1..Len(s) :
                   /\ Char(s, k) = "." /\ IsDigits(SubSeq(s, 1, k - 1))
                   /\ IsDigits(SubSeq(s, k + 1, Len(s)))
FloatSuffixes == {<<"f", "3", "2">>, <<"f", "6", "4">>}
IsTypedFloat(s) ==
  LET n == Len(s) - 3
  IN /\ n > 0 /\ \E x \in FloatSuffixes : StartsWith(s, n + 1, x)
     /\ IsDigits(SubSeq(s, 1, n)) \/ IsFraction(SubSeq(s, 1, n))
IsFloat(s) == IsFraction(s) \/ IsTypedFloat(s)
IsLexeme(s) ==
  \/ \E k \in DOMAIN Branches(Char(s, 1)) : s = Branches(Char(s, 1))[k]
  \/ Char(s, 1) \in Letters \cup {"_"} /\ Over(s, WordChars)
  \/ IsInt(s) \/ IsFloat(s)
  \/ \E x \in IntSuffixes : Len(s) > Len(x) /\ StartsWith(s, Len(s) - Len(x) + 1, x)
                            /\ IsInt(SubSeq(s, 1, Len(s) - Len(x)))

\* A number such as "1." takes the character after the point with it.
Swallows(t) == t.type = "float" /\ Char(t.lexeme, Len(t.lexeme)) \notin Separated(Digits)

\* A float with a suffix is cut before it: 1.5f32 is read as 1.5 and f32, and
\* 1f32 as 1 and f32.  The pattern has the suffixes, but an earlier alternative
\* matches, or it is not tried.
CutsSuffix(k, q) == q = After(k) + 3 /\ IsTypedFloat(Text(tokens[k].at, q))

\* Each token that is no string is the longest piece of the text at its start
\* that the language has (a number, the longest within MaxLiteral characters):
\* no branch shadows a longer one, and a range 1..2 is not read as a number.
\* A longer piece is a float of which this token leaves out the suffix, and
\* only the suffix.
LongestMatch ==
  \A k \in DOMAIN tokens :
    LET t == tokens[k]
        longest == IF t.type \in {"int", "float"} THEN MaxLiteral ELSE Len(text)
    IN (t.type \notin {"string", "char"} /\ ~Swallows(t)) =>
         /\ IsLexeme(t.lexeme)
         /\ \A q \in After(k) + 1..End :
              q - t.at <= longest /\ IsLexeme(Text(t.at, q)) => CutsSuffix(k, q)

\* Row and column of a position: the newlines before it, and the distance to
\* the last of them.
Newlines(s, p) == {k \in 1..p - 1 : Char(s, k) = "\n"}
RowOf(s, p) == 1 + Cardinality(Newlines(s, p))
ColOf(s, p) ==
  p - IF Newlines(s, p) = {} THEN 0 ELSE CHOOSE k \in Newlines(s, p) : \A j \in Newlines(s, p) : j <= k

\* _row and _col are the exact position of _pos, whatever has been skipped.
PositionExact == row = RowOf(text, pos) /\ col = ColOf(text, pos)

\* They are, and so are the places of the tokens (the end of a string, the
\* start of any other token), unless a number has swallowed a newline.
Places ==
  (\A k \in DOMAIN tokens : Swallows(tokens[k]) => Char(text, After(k) - 1) # "\n") =>
    /\ PositionExact
    /\ \A k \in DOMAIN tokens :
         LET p == IF tokens[k].type \in {"string", "char"} THEN After(k) ELSE tokens[k].at
         IN tokens[k].row = RowOf(text, p) /\ tokens[k].col = ColOf(text, p)
=============================================================================
