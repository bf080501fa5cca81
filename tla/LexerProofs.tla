---------------------------- MODULE LexerProofs ----------------------------
(***************************************************************************)
(* The scanner, for every text: nothing of it is lost or read twice, each  *)
(* token is the longest lexeme where it starts, and rows and columns are   *)
(* exact.                                                                  *)
(*                                                                         *)
(* Its recursive functions look ahead only, so each is unfolded by         *)
(* RecursionFromTheEnd, and what it computes follows by induction from the *)
(* end of the text.                                                        *)
(***************************************************************************)
EXTENDS Lexer, ProofLibrary, SequenceTheorems

Strings == Seq(STRING)

-----------------------------------------------------------------------------
(* Pieces of a text *)

LEMMA SubFacts ==
  ASSUME NEW s \in Strings, NEW p \in 1..Len(s) + 1, NEW q \in Nat, p <= q
  PROVE  /\ Sub(s, p, q) \in Strings
         /\ Len(Sub(s, p, q)) = IF q - 1 <= Len(s) THEN q - p ELSE Len(s) + 1 - p
         /\ \A k \in 1..Len(Sub(s, p, q)) : Sub(s, p, q)[k] = s[p + k - 1]
<1> DEFINE m == IF q - 1 <= Len(s) THEN q - 1 ELSE Len(s)
<1>1. Len(s) \in Nat /\ \A k \in 1..Len(s) : s[k] \in STRING
  BY DEF Strings
<1>2. m \in Int /\ p \in Int /\ m <= Len(s) /\ p <= m + 1
  BY <1>1
<1>3. Sub(s, p, q) = SubSeq(s, p, m)
  BY DEF Sub
<1>4. m + 1 - p = IF q - 1 <= Len(s) THEN q - p ELSE Len(s) + 1 - p
  BY <1>1
<1> HIDE DEF m
<1>5. \A k \in p..m : s[k] \in STRING
  BY <1>1, <1>2
<1>6. /\ SubSeq(s, p, m) \in Seq(STRING)
      /\ Len(SubSeq(s, p, m)) = IF p <= m THEN m - p + 1 ELSE 0
      /\ \A k \in 1..m - p + 1 : SubSeq(s, p, m)[k] = s[p + k - 1]
  BY <1>2, <1>5, SubSeqProperties
<1>7. Len(SubSeq(s, p, m)) = m + 1 - p
  BY <1>2, <1>6
<1> QED
  BY <1>2, <1>3, <1>4, <1>6, <1>7 DEF Strings

LEMMA StartsAt ==
  ASSUME NEW s \in Strings, NEW p \in 1..Len(s) + 1, NEW T, NEW t \in Seq(T), StartsWith(s, p, t)
  PROVE  p + Len(t) <= Len(s) + 1 /\ \A k \in 1..Len(t) : s[p + k - 1] = t[k]
<1>1. Len(t) \in Nat /\ Len(s) \in Nat
  BY DEF Strings
<1> DEFINE n == Len(t)
<1> HIDE DEF n
<1>2. p + n \in Nat /\ p <= p + n /\ n \in Nat
  BY <1>1 DEF n
<1>3. Sub(s, p, p + n) = t
  BY DEF StartsWith, n
<1>4. n = IF p + n - 1 <= Len(s) THEN p + n - p ELSE Len(s) + 1 - p
  BY <1>2, <1>3, SubFacts DEF n
<1>5. \A k \in 1..n : t[k] = s[p + k - 1]
  BY <1>2, <1>3, SubFacts DEF n
<1>6. p + n <= Len(s) + 1
  BY <1>1, <1>2, <1>4
<1> QED
  BY <1>5, <1>6 DEF n

LEMMA PairIn ==
  ASSUME NEW S, NEW a \in S, NEW b \in S
  PROVE  <<a, b>> \in Seq(S)
OBVIOUS

LEMMA StartsWithPair ==
  ASSUME NEW s \in Strings, NEW p \in 1..Len(s) + 1, NEW a, NEW b,
         StartsWith(s, p, <<a, b>>)
  PROVE  p + 1 <= Len(s) /\ s[p] = a /\ s[p + 1] = b
<1> DEFINE t == <<a, b>>
           T == {a, b}
<1>1. t \in Seq(T) /\ Len(t) = 2 /\ t[1] = a /\ t[2] = b
  <2>1. t \in Seq(T)
    BY PairIn
  <2>2. Len(t) = 2
    OBVIOUS
  <2>3. t[1] = a /\ t[2] = b
    OBVIOUS
  <2> QED
    BY <2>1, <2>2, <2>3
<1>2. StartsWith(s, p, t)
  OBVIOUS
<1> HIDE DEF t, T
<1>3. p + Len(t) <= Len(s) + 1 /\ \A k \in 1..Len(t) : s[p + k - 1] = t[k]
  BY <1>1, <1>2, StartsAt, SMTT(20)
<1>4. p + 2 <= Len(s) + 1 /\ \A k \in 1..2 : s[p + k - 1] = t[k]
  BY <1>1, <1>3
<1>5. Len(s) \in Nat
  BY DEF Strings
<1>6. p \in Nat /\ p + 1 - 1 = p /\ p + 2 - 1 = p + 1 /\ 1 \in 1..2 /\ 2 \in 1..2
  BY <1>5
<1>7. s[p + 1 - 1] = t[1] /\ s[p + 2 - 1] = t[2]
  BY <1>4, <1>6
<1>8. s[p] = a /\ s[p + 1] = b
  BY <1>1, <1>6, <1>7
<1> QED
  BY <1>4, <1>5, <1>6, <1>8

\* The first number from p on that is in a set.
LEMMA FirstIn ==
  ASSUME NEW N \in Nat, NEW D, N \in D, NEW p \in 1..N
  PROVE  \E q \in p..N : q \in D /\ \A k \in p..q - 1 : k \notin D
<1> DEFINE E == {r \in 1..N : \E q \in r..N : q \in D /\ \A k \in r..q - 1 : k \notin D}
<1>1. ASSUME NEW r \in 1..N, \A m \in r + 1..N : m \in E PROVE r \in E
  <2>1. CASE r \in D
    <3>1. r \in r..N /\ \A k \in r..r - 1 : k \notin D
      OBVIOUS
    <3> QED
      BY <2>1, <3>1
  <2>2. CASE r \notin D
    <3>1. r + 1 \in r + 1..N
      BY <2>2
    <3>2. PICK q \in r + 1..N : q \in D /\ \A k \in r + 1..q - 1 : k \notin D
      BY <1>1, <3>1
    <3>3. q \in r..N /\ \A k \in r..q - 1 : k \notin D
      BY <2>2, <3>2
    <3> QED
      BY <3>2, <3>3
  <2> QED
    BY <2>1, <2>2
<1>2. \A r \in 1..N : r \in E
  <2> HIDE DEF E
  <2> QED
    BY <1>1, AllAbove
<1> QED
  BY <1>2

LEMMA LineEndFacts ==
  ASSUME NEW s \in Strings, NEW p \in 1..Len(s) + 1
  PROVE  /\ LineEnd(s, p) \in p..Len(s) + 1
         /\ LineEnd(s, p) = Len(s) + 1 \/ Char(s, LineEnd(s, p)) = "\n"
         /\ \A k \in p..LineEnd(s, p) - 1 : Char(s, k) # "\n"
<1> DEFINE D == {k \in 1..Len(s) + 1 : k = Len(s) + 1 \/ Char(s, k) = "\n"}
<1>1. Len(s) \in Nat /\ Len(s) + 1 \in Nat
  BY DEF Strings
<1>7. \A k \in 1..Len(s) + 1 : k \in D <=> (k = Len(s) + 1 \/ Char(s, k) = "\n")
  BY Zenon
<1> HIDE DEF D
<1>8. Len(s) + 1 \in D
  BY <1>1, <1>7
<1>2. PICK q \in p..Len(s) + 1 : q \in D /\ \A k \in p..q - 1 : k \notin D
  BY <1>1, <1>8, FirstIn
<1>3. \A k \in p..q - 1 : Char(s, k) # "\n"
  BY <1>1, <1>2, <1>7
<1> DEFINE P(e) == /\ e = Len(s) + 1 \/ Char(s, e) = "\n"
                   /\ \A k \in p..e - 1 : Char(s, k) # "\n"
<1>4. P(q)
  BY <1>1, <1>2, <1>3, <1>7
<1>5. LineEnd(s, p) = CHOOSE e \in p..Len(s) + 1 : P(e)
  BY DEF LineEnd
<1>6. LineEnd(s, p) \in p..Len(s) + 1 /\ P(LineEnd(s, p))
  <2> HIDE DEF P
  <2> QED
    BY <1>2, <1>4, <1>5
<1> QED
  BY <1>6

LEMMA RunEndFacts ==
  ASSUME NEW s \in Strings, NEW p \in 1..Len(s) + 1, NEW S, NoChar \notin S
  PROVE  /\ RunEnd(s, p, S) \in p..Len(s) + 1
         /\ Char(s, RunEnd(s, p, S)) \notin S
         /\ \A k \in p..RunEnd(s, p, S) - 1 : Char(s, k) \in S
<1> DEFINE D == {k \in 1..Len(s) + 1 : Char(s, k) \notin S}
<1>1. Len(s) \in Nat /\ Len(s) + 1 \in Nat /\ Char(s, Len(s) + 1) = NoChar
  BY DEF Strings, Char
<1>7. \A k \in 1..Len(s) + 1 : k \in D <=> Char(s, k) \notin S
  BY Zenon
<1> HIDE DEF D
<1>8. Len(s) + 1 \in D
  BY <1>1, <1>7
<1>2. PICK q \in p..Len(s) + 1 : q \in D /\ \A k \in p..q - 1 : k \notin D
  BY <1>1, <1>8, FirstIn
<1>3. \A k \in p..q - 1 : Char(s, k) \in S
  BY <1>1, <1>2, <1>7
<1> DEFINE P(e) == Char(s, e) \notin S /\ \A k \in p..e - 1 : Char(s, k) \in S
<1>4. P(q)
  BY <1>1, <1>2, <1>3, <1>7
<1>5. RunEnd(s, p, S) = CHOOSE e \in p..Len(s) + 1 : P(e)
  BY DEF RunEnd
<1>6. RunEnd(s, p, S) \in p..Len(s) + 1 /\ P(RunEnd(s, p, S))
  <2> HIDE DEF P
  <2> QED
    BY <1>2, <1>4, <1>5
<1> QED
  BY <1>6
-----------------------------------------------------------------------------
(* The recursive functions, unfolded *)

\* The blanks, the brackets of a comment and no character.
LEMMA NoCharFacts == NoChar \notin Blanks /\ NoChar # "/" /\ "/" \notin Blanks /\ "/" # "\n" /\ "/" # "*"
BY Zenon DEF NoChar, Blanks

LEMMA CharFacts ==
  ASSUME NEW s \in Strings, NEW p \in 1..Len(s) + 1
  PROVE  /\ Len(s) \in Nat
         /\ p <= Len(s) => Char(s, p) = s[p] /\ s[p] \in STRING
         /\ p = Len(s) + 1 => Char(s, p) = NoChar
BY DEF Strings, Char

CommentStep(s, p, E) ==
  [n \in Nat |->
     IF n = 0 THEN p
     ELSE IF p >= Len(s) THEN 0
     ELSE IF StartsWith(s, p, <<"*", "/">>) THEN E[p + 2][n - 1]
     ELSE IF StartsWith(s, p, <<"/", "*">>) THEN E[p + 2][n + 1]
     ELSE E[p + 1][n]]

LEMMA CommentStepFacts ==
  ASSUME NEW s \in Strings, NEW p \in 1..Len(s) + 1, NEW E,
         \A m \in p + 1..Len(s) + 1 : E[m] \in [Nat -> 0..Len(s) + 1]
  PROVE  /\ CommentStep(s, p, E) \in [Nat -> 0..Len(s) + 1]
         /\ \A g : (\A m \in p + 1..Len(s) + 1 : E[m] = g[m]) =>
                      CommentStep(s, p, E) = CommentStep(s, p, g)
<1>1. Len(s) \in Nat
  BY DEF Strings
<1>2. p < Len(s) => p + 1 \in p + 1..Len(s) + 1 /\ p + 2 \in p + 1..Len(s) + 1
  BY <1>1
<1>3. \A n \in Nat : n # 0 => n - 1 \in Nat
  OBVIOUS
<1>4. CommentStep(s, p, E) \in [Nat -> 0..Len(s) + 1]
  <2>1. ~(p >= Len(s)) => p < Len(s)
    BY <1>1
  <2>2. \A n \in Nat : p < Len(s) =>
          E[p + 1][n] \in 0..Len(s) + 1 /\ E[p + 2][n] \in 0..Len(s) + 1
    BY <1>2
  <2> QED
    BY <1>1, <1>3, <2>1, <2>2 DEF CommentStep
<1>5. ASSUME NEW g, \A m \in p + 1..Len(s) + 1 : E[m] = g[m]
      PROVE  CommentStep(s, p, E) = CommentStep(s, p, g)
  <2>1. ~(p >= Len(s)) => E[p + 1] = g[p + 1] /\ E[p + 2] = g[p + 2]
    BY <1>1, <1>2, <1>5
  <2> QED
    BY <2>1 DEF CommentStep
<1> QED
  BY <1>4, <1>5

LEMMA CommentEndUnfolds ==
  ASSUME NEW s \in Strings
  PROVE  /\ CommentEnd(s) \in [1..Len(s) + 1 -> [Nat -> 0..Len(s) + 1]]
         /\ \A p \in 1..Len(s) + 1 : CommentEnd(s)[p] = CommentStep(s, p, CommentEnd(s))
<1> DEFINE N == Len(s) + 1
           S == [Nat -> 0..N]
           any == [n \in Nat |-> 0]
           step == [p \in 1..N |-> [f \in [1..N -> S] |-> CommentStep(s, p, f)]]
           Is(f) == f = [p \in 1..N |-> CommentStep(s, p, f)]
<1>1. N \in Nat /\ any \in S
  BY DEF Strings
<1>2. ASSUME NEW p \in 1..N, NEW f, \A m \in p + 1..N : f[m] \in S
      PROVE  /\ CommentStep(s, p, f) \in S
             /\ \A g : (\A m \in p + 1..N : f[m] = g[m]) =>
                          CommentStep(s, p, f) = CommentStep(s, p, g)
  BY <1>2, CommentStepFacts
<1> HIDE DEF N, S, any
<1>3. step \in [1..N -> [[1..N -> S] -> S]]
  <2>1. ASSUME NEW p \in 1..N, NEW f \in [1..N -> S] PROVE CommentStep(s, p, f) \in S
    <3>1. \A m \in p + 1..N : f[m] \in S
      BY <1>1
    <3> QED
      BY <1>2, <3>1
  <2> QED
    BY <2>1
<1>4. LooksAhead(N, S, step)
  <2> SUFFICES ASSUME NEW p \in 1..N, NEW f \in [1..N -> S], NEW g \in [1..N -> S],
                      \A m \in p + 1..N : f[m] = g[m]
               PROVE  step[p][f] = step[p][g]
    BY Zenon DEF LooksAhead
  <2>1. \A m \in p + 1..N : f[m] \in S
    BY <1>1
  <2>2. CommentStep(s, p, f) = CommentStep(s, p, g)
    BY <1>2, <2>1
  <2> QED
    BY <2>2
<1>5. PICK f \in [1..N -> S] : FollowsSteps(N, step, f)
  <2> HIDE DEF step
  <2> QED
    BY <1>1, <1>3, <1>4, RecursionFromTheEnd
<1>6. Is(f)
  <2>1. \A p \in 1..N : f[p] = CommentStep(s, p, f)
    BY <1>5 DEF FollowsSteps
  <2>2. f = [p \in 1..N |-> f[p]]
    BY <1>5
  <2> QED
    BY <2>1, <2>2
<1>7. Is(CommentEnd(s))
  <2> HIDE DEF Is
  <2>1. CommentEnd(s) = CHOOSE g : Is(g)
    BY DEF CommentEnd, CommentStep, Is, N
  <2> QED
    BY <1>6, <2>1, Zenon
<1> DEFINE F == CommentEnd(s)
<1>8. F = [p \in 1..N |-> F[p]] /\ \A p \in 1..N : F[p] = CommentStep(s, p, F)
  <2> HIDE DEF F
  <2>1. F = [p \in 1..N |-> CommentStep(s, p, F)]
    BY <1>7 DEF F
  <2> QED
    BY <2>1
<1>9. \A p \in 1..N : F[p] \in S
  <2> DEFINE D == {p \in 1..N : F[p] \in S}
  <2> HIDE DEF F
  <2>1. ASSUME NEW p \in 1..N, \A m \in p + 1..N : m \in D PROVE p \in D
    BY <1>1, <1>2, <1>8, <2>1
  <2>2. \A p \in 1..N : p \in D
    <3> HIDE DEF D
    <3> QED
      BY <1>1, <2>1, AllAbove
  <2> QED
    BY <2>2
<1>10. F \in [1..N -> S]
  <2> HIDE DEF F
  <2> QED
    BY <1>8, <1>9
<1> QED
  BY <1>8, <1>10 DEF N, S

\* A comment ends after the place from which its end is sought.
LEMMA CommentEndAbove ==
  ASSUME NEW s \in Strings, NEW p \in 1..Len(s) + 1
  PROVE  \A n \in Nat : CommentEnd(s)[p][n] \in {0} \cup p..Len(s) + 1
<1> DEFINE N == Len(s) + 1
           F == CommentEnd(s)
           D == {k \in 1..N : \A n \in Nat : F[k][n] \in {0} \cup k..N}
<1>1. N \in Nat
  BY DEF Strings
<1>2. \A k \in 1..N : F[k] = CommentStep(s, k, F)
  BY CommentEndUnfolds
<1> HIDE DEF F
<1>3. ASSUME NEW k \in 1..N, \A m \in k + 1..N : m \in D PROVE k \in D
  <2> SUFFICES ASSUME NEW n \in Nat PROVE F[k][n] \in {0} \cup k..N
    OBVIOUS
  <2>1. CASE n = 0 \/ k >= Len(s)
    <3>1. F[k][n] \in {k, 0}
      BY <1>2, <2>1 DEF CommentStep
    <3> QED
      BY <1>1, <3>1
  <2>2. CASE n # 0 /\ ~(k >= Len(s))
    <3>1. n - 1 \in Nat /\ n + 1 \in Nat /\ k + 1 \in k + 1..N /\ k + 2 \in k + 1..N
      BY <1>1, <2>2
    <3>2. /\ F[k + 2][n - 1] \in {0} \cup k + 2..N
          /\ F[k + 2][n + 1] \in {0} \cup k + 2..N
          /\ F[k + 1][n] \in {0} \cup k + 1..N
      BY <1>3, <3>1
    <3>3. F[k][n] = IF StartsWith(s, k, <<"*", "/">>) THEN F[k + 2][n - 1]
                    ELSE IF StartsWith(s, k, <<"/", "*">>) THEN F[k + 2][n + 1]
                    ELSE F[k + 1][n]
      BY <1>2, <2>2 DEF CommentStep
    <3>4. \A v : v \in {0} \cup k + 2..N \/ v \in {0} \cup k + 1..N => v \in {0} \cup k..N
      BY <1>1
    <3> QED
      BY <3>2, <3>3, <3>4
  <2> QED
    BY <2>1, <2>2
<1>4. \A k \in 1..N : k \in D
  <2> HIDE DEF D, N
  <2> QED
    BY <1>1, <1>3, AllAbove
<1> QED
  BY <1>4 DEF F

SkipStep(s, p, A) ==
  IF StartsWith(s, p, <<"/", "/">>) THEN A[LineEnd(s, p + 2)]
  ELSE IF StartsWith(s, p, <<"/", "*">>)
       THEN IF CommentEnd(s)[p + 2][1] = 0 THEN 0 ELSE A[CommentEnd(s)[p + 2][1]]
  ELSE IF Char(s, p) \in Blanks THEN A[p + 1]
  ELSE p

\* Where advance() continues from.
LEMMA SkipSteps ==
  ASSUME NEW s \in Strings, NEW p \in 1..Len(s) + 1
  PROVE  /\ Len(s) \in Nat
         /\ StartsWith(s, p, <<"/", "/">>) => LineEnd(s, p + 2) \in p + 2..Len(s) + 1
         /\ StartsWith(s, p, <<"/", "*">>) =>
              /\ p + 2 \in p + 2..Len(s) + 1
              /\ CommentEnd(s)[p + 2][1] \in {0} \cup p + 2..Len(s) + 1
         /\ Char(s, p) \in Blanks => p + 1 \in p + 1..Len(s) + 1
<1>1. Len(s) \in Nat
  BY CharFacts
<1>2. ASSUME StartsWith(s, p, <<"/", "/">>) \/ StartsWith(s, p, <<"/", "*">>)
      PROVE  p + 2 \in 1..Len(s) + 1
  <2>1. p + 1 <= Len(s)
    BY <1>2, StartsWithPair
  <2> QED
    BY <1>1, <2>1
<1>3. StartsWith(s, p, <<"/", "/">>) => LineEnd(s, p + 2) \in p + 2..Len(s) + 1
  BY <1>2, LineEndFacts
<1>4. StartsWith(s, p, <<"/", "*">>) => CommentEnd(s)[p + 2][1] \in {0} \cup p + 2..Len(s) + 1
  BY <1>2, CommentEndAbove
<1>5. Char(s, p) \in Blanks => p + 1 \in p + 1..Len(s) + 1
  BY <1>1, CharFacts, NoCharFacts
<1> QED
  BY <1>1, <1>2, <1>3, <1>4, <1>5

LEMMA SkipStepFacts ==
  ASSUME NEW s \in Strings, NEW p \in 1..Len(s) + 1, NEW A,
         \A m \in p + 1..Len(s) + 1 : A[m] \in 0..Len(s) + 1
  PROVE  /\ SkipStep(s, p, A) \in 0..Len(s) + 1
         /\ \A g : (\A m \in p + 1..Len(s) + 1 : A[m] = g[m]) => SkipStep(s, p, A) = SkipStep(s, p, g)
<1> DEFINE N == Len(s) + 1
<1>1. /\ Len(s) \in Nat
      /\ StartsWith(s, p, <<"/", "/">>) => LineEnd(s, p + 2) \in p + 1..N
      /\ StartsWith(s, p, <<"/", "*">>) /\ CommentEnd(s)[p + 2][1] # 0 =>
           CommentEnd(s)[p + 2][1] \in p + 1..N
      /\ Char(s, p) \in Blanks => p + 1 \in p + 1..N
  BY SkipSteps
<1>2. SkipStep(s, p, A) \in 0..N
  BY <1>1 DEF SkipStep
<1>3. ASSUME NEW g, \A m \in p + 1..N : A[m] = g[m] PROVE SkipStep(s, p, A) = SkipStep(s, p, g)
  BY <1>1, <1>3 DEF SkipStep
<1> QED
  BY <1>2, <1>3

LEMMA SkipUnfolds ==
  ASSUME NEW s \in Strings
  PROVE  /\ Skip(s) \in [1..Len(s) + 1 -> 0..Len(s) + 1]
         /\ \A p \in 1..Len(s) + 1 : Skip(s)[p] = SkipStep(s, p, Skip(s))
<1> DEFINE N == Len(s) + 1
           S == 0..N
           any == 0
           step == [p \in 1..N |-> [f \in [1..N -> S] |-> SkipStep(s, p, f)]]
           Is(f) == f = [p \in 1..N |-> SkipStep(s, p, f)]
<1>1. N \in Nat /\ any \in S
  BY DEF Strings
<1>2. ASSUME NEW p \in 1..N, NEW f, \A m \in p + 1..N : f[m] \in S
      PROVE  /\ SkipStep(s, p, f) \in S
             /\ \A g : (\A m \in p + 1..N : f[m] = g[m]) =>
                          SkipStep(s, p, f) = SkipStep(s, p, g)
  BY <1>2, SkipStepFacts
<1> HIDE DEF N, S, any
<1>3. step \in [1..N -> [[1..N -> S] -> S]]
  <2>1. ASSUME NEW p \in 1..N, NEW f \in [1..N -> S] PROVE SkipStep(s, p, f) \in S
    <3>1. \A m \in p + 1..N : f[m] \in S
      BY <1>1
    <3> QED
      BY <1>2, <3>1
  <2> QED
    BY <2>1
<1>4. LooksAhead(N, S, step)
  <2> SUFFICES ASSUME NEW p \in 1..N, NEW f \in [1..N -> S], NEW g \in [1..N -> S],
                      \A m \in p + 1..N : f[m] = g[m]
               PROVE  step[p][f] = step[p][g]
    BY Zenon DEF LooksAhead
  <2>1. \A m \in p + 1..N : f[m] \in S
    BY <1>1
  <2>2. SkipStep(s, p, f) = SkipStep(s, p, g)
    BY <1>2, <2>1
  <2> QED
    BY <2>2
<1>5. PICK f \in [1..N -> S] : FollowsSteps(N, step, f)
  <2> HIDE DEF step
  <2> QED
    BY <1>1, <1>3, <1>4, RecursionFromTheEnd
<1>6. Is(f)
  <2>1. \A p \in 1..N : f[p] = SkipStep(s, p, f)
    BY <1>5 DEF FollowsSteps
  <2>2. f = [p \in 1..N |-> f[p]]
    BY <1>5
  <2> QED
    BY <2>1, <2>2
<1>7. Is(Skip(s))
  <2> HIDE DEF Is
  <2>1. Skip(s) = CHOOSE g : Is(g)
    BY DEF Skip, SkipStep, Is, N
  <2> QED
    BY <1>6, <2>1, Zenon
<1> DEFINE F == Skip(s)
<1>8. F = [p \in 1..N |-> F[p]] /\ \A p \in 1..N : F[p] = SkipStep(s, p, F)
  <2> HIDE DEF F
  <2>1. F = [p \in 1..N |-> SkipStep(s, p, F)]
    BY <1>7 DEF F
  <2> QED
    BY <2>1
<1>9. \A p \in 1..N : F[p] \in S
  <2> DEFINE D == {p \in 1..N : F[p] \in S}
  <2> HIDE DEF F
  <2>1. ASSUME NEW p \in 1..N, \A m \in p + 1..N : m \in D PROVE p \in D
    BY <1>1, <1>2, <1>8, <2>1
  <2>2. \A p \in 1..N : p \in D
    <3> HIDE DEF D
    <3> QED
      BY <1>1, <2>1, AllAbove
  <2> QED
    BY <2>2
<1>10. F \in [1..N -> S]
  <2> HIDE DEF F
  <2> QED
    BY <1>8, <1>9
<1> QED
  BY <1>8, <1>10 DEF N, S

StringStep(s, c, p, E) ==
  IF p = Len(s) + 1 THEN 0
  ELSE IF s[p] = "\\" THEN (IF p >= Len(s) - 1 THEN 0 ELSE E[p + 2])
  ELSE IF s[p] = c THEN p + 1
  ELSE E[p + 1]

LEMMA StringStepFacts ==
  ASSUME NEW s \in Strings, NEW c, NEW p \in 1..Len(s) + 1, NEW E,
         \A m \in p + 1..Len(s) + 1 : E[m] \in 0..Len(s) + 1
  PROVE  /\ StringStep(s, c, p, E) \in 0..Len(s) + 1
         /\ \A g : (\A m \in p + 1..Len(s) + 1 : E[m] = g[m]) =>
                      StringStep(s, c, p, E) = StringStep(s, c, p, g)
<1>1. Len(s) \in Nat
  BY CharFacts
<1>2. /\ p # Len(s) + 1 => p + 1 \in p + 1..Len(s) + 1 /\ p + 1 \in 0..Len(s) + 1
      /\ ~(p >= Len(s) - 1) => p + 2 \in p + 1..Len(s) + 1
  BY <1>1
<1>3. StringStep(s, c, p, E) \in 0..Len(s) + 1
  BY <1>1, <1>2 DEF StringStep
<1>4. ASSUME NEW g, \A m \in p + 1..Len(s) + 1 : E[m] = g[m]
      PROVE  StringStep(s, c, p, E) = StringStep(s, c, p, g)
  BY <1>2, <1>4 DEF StringStep
<1> QED
  BY <1>3, <1>4

LEMMA StringEndUnfolds ==
  ASSUME NEW s \in Strings, NEW c
  PROVE  /\ StringEnd(s, c) \in [1..Len(s) + 1 -> 0..Len(s) + 1]
         /\ \A p \in 1..Len(s) + 1 : StringEnd(s, c)[p] = StringStep(s, c, p, StringEnd(s, c))
<1> DEFINE N == Len(s) + 1
           S == 0..N
           any == 0
           step == [p \in 1..N |-> [f \in [1..N -> S] |-> StringStep(s, c, p, f)]]
           Is(f) == f = [p \in 1..N |-> StringStep(s, c, p, f)]
<1>1. N \in Nat /\ any \in S
  BY DEF Strings
<1>2. ASSUME NEW p \in 1..N, NEW f, \A m \in p + 1..N : f[m] \in S
      PROVE  /\ StringStep(s, c, p, f) \in S
             /\ \A g : (\A m \in p + 1..N : f[m] = g[m]) =>
                          StringStep(s, c, p, f) = StringStep(s, c, p, g)
  BY <1>2, StringStepFacts
<1> HIDE DEF N, S, any
<1>3. step \in [1..N -> [[1..N -> S] -> S]]
  <2>1. ASSUME NEW p \in 1..N, NEW f \in [1..N -> S] PROVE StringStep(s, c, p, f) \in S
    <3>1. \A m \in p + 1..N : f[m] \in S
      BY <1>1
    <3> QED
      BY <1>2, <3>1
  <2> QED
    BY <2>1
<1>4. LooksAhead(N, S, step)
  <2> SUFFICES ASSUME NEW p \in 1..N, NEW f \in [1..N -> S], NEW g \in [1..N -> S],
                      \A m \in p + 1..N : f[m] = g[m]
               PROVE  step[p][f] = step[p][g]
    BY Zenon DEF LooksAhead
  <2>1. \A m \in p + 1..N : f[m] \in S
    BY <1>1
  <2>2. StringStep(s, c, p, f) = StringStep(s, c, p, g)
    BY <1>2, <2>1
  <2> QED
    BY <2>2
<1>5. PICK f \in [1..N -> S] : FollowsSteps(N, step, f)
  <2> HIDE DEF step
  <2> QED
    BY <1>1, <1>3, <1>4, RecursionFromTheEnd
<1>6. Is(f)
  <2>1. \A p \in 1..N : f[p] = StringStep(s, c, p, f)
    BY <1>5 DEF FollowsSteps
  <2>2. f = [p \in 1..N |-> f[p]]
    BY <1>5
  <2> QED
    BY <2>1, <2>2
<1>7. Is(StringEnd(s, c))
  <2> HIDE DEF Is
  <2>1. StringEnd(s, c) = CHOOSE g : Is(g)
    BY DEF StringEnd, StringStep, Is, N
  <2> QED
    BY <1>6, <2>1, Zenon
<1> DEFINE F == StringEnd(s, c)
<1>8. F = [p \in 1..N |-> F[p]] /\ \A p \in 1..N : F[p] = StringStep(s, c, p, F)
  <2> HIDE DEF F
  <2>1. F = [p \in 1..N |-> StringStep(s, c, p, F)]
    BY <1>7 DEF F
  <2> QED
    BY <2>1
<1>9. \A p \in 1..N : F[p] \in S
  <2> DEFINE D == {p \in 1..N : F[p] \in S}
  <2> HIDE DEF F
  <2>1. ASSUME NEW p \in 1..N, \A m \in p + 1..N : m \in D PROVE p \in D
    BY <1>1, <1>2, <1>8, <2>1
  <2>2. \A p \in 1..N : p \in D
    <3> HIDE DEF D
    <3> QED
      BY <1>1, <2>1, AllAbove
  <2> QED
    BY <2>2
<1>10. F \in [1..N -> S]
  <2> HIDE DEF F
  <2> QED
    BY <1>8, <1>9
<1> QED
  BY <1>8, <1>10 DEF N, S

-----------------------------------------------------------------------------
(* What may lie between tokens *)

BodiesStep(s, p, B) ==
  {p} \cup
  (IF StartsWith(s, p, <<"/", "*">>) THEN UNION {B[q] : q \in Closed(s, p, B)}
   ELSE IF p <= Len(s) /\ ~StartsWith(s, p, <<"*", "/">>) THEN B[p + 1]
   ELSE {})

LEMMA ClosedFacts ==
  ASSUME NEW s \in Strings, NEW p \in 1..Len(s) + 1, NEW B
  PROVE  /\ Closed(s, p, B) \subseteq p + 4..Len(s) + 1
         /\ \A e \in p + 2..Len(s) - 1 :
              e \in B[p + 2] /\ StartsWith(s, e, <<"*", "/">>) => e + 2 \in Closed(s, p, B)
         /\ \A g : B[p + 2] = g[p + 2] => Closed(s, p, B) = Closed(s, p, g)
<1>1. Len(s) \in Nat
  BY CharFacts
<1>2. ASSUME NEW q \in Closed(s, p, B) PROVE q \in p + 4..Len(s) + 1
  <2>1. PICK e \in p + 2..Len(s) - 1 : q = e + 2
    BY DEF Closed
  <2> QED
    BY <1>1, <2>1
<1> QED
  BY <1>2 DEF Closed

LEMMA BodiesStepFacts ==
  ASSUME NEW s \in Strings, NEW p \in 1..Len(s) + 1, NEW B,
         \A m \in p + 1..Len(s) + 1 : B[m] \in SUBSET (1..Len(s) + 1)
  PROVE  /\ BodiesStep(s, p, B) \in SUBSET (1..Len(s) + 1)
         /\ \A g : (\A m \in p + 1..Len(s) + 1 : B[m] = g[m]) =>
                      BodiesStep(s, p, B) = BodiesStep(s, p, g)
<1> DEFINE N == Len(s) + 1
<1>1. /\ Len(s) \in Nat /\ N \in Nat
      /\ StartsWith(s, p, <<"/", "*">>) => p + 2 \in p + 1..N
      /\ p <= Len(s) => p + 1 \in p + 1..N
  BY SkipSteps
<1>2. Closed(s, p, B) \subseteq p + 1..N
  <2>1. Closed(s, p, B) \subseteq p + 4..N
    BY ClosedFacts
  <2> QED
    BY <1>1, <2>1
<1>3. UNION {B[q] : q \in Closed(s, p, B)} \subseteq 1..N
  BY <1>2
<1>4. BodiesStep(s, p, B) \in SUBSET (1..N)
  BY <1>1, <1>3 DEF BodiesStep
<1>5. ASSUME NEW g, \A m \in p + 1..N : B[m] = g[m] PROVE BodiesStep(s, p, B) = BodiesStep(s, p, g)
  <2>1. StartsWith(s, p, <<"/", "*">>) => Closed(s, p, B) = Closed(s, p, g)
    BY <1>1, <1>5, ClosedFacts
  <2>2. {B[q] : q \in Closed(s, p, B)} = {g[q] : q \in Closed(s, p, B)}
    BY <1>2, <1>5
  <2>3. p <= Len(s) => B[p + 1] = g[p + 1]
    BY <1>1, <1>5
  <2> QED
    BY <2>1, <2>2, <2>3 DEF BodiesStep
<1> QED
  BY <1>4, <1>5

LEMMA BodiesUnfolds ==
  ASSUME NEW s \in Strings
  PROVE  /\ Bodies(s) \in [1..Len(s) + 1 -> SUBSET (1..Len(s) + 1)]
         /\ \A p \in 1..Len(s) + 1 : Bodies(s)[p] = BodiesStep(s, p, Bodies(s))
<1> DEFINE N == Len(s) + 1
           S == SUBSET (1..N)
           any == {}
           step == [p \in 1..N |-> [f \in [1..N -> S] |-> BodiesStep(s, p, f)]]
           Is(f) == f = [p \in 1..N |-> BodiesStep(s, p, f)]
<1>1. N \in Nat /\ any \in S
  BY DEF Strings
<1>2. ASSUME NEW p \in 1..N, NEW f, \A m \in p + 1..N : f[m] \in S
      PROVE  /\ BodiesStep(s, p, f) \in S
             /\ \A g : (\A m \in p + 1..N : f[m] = g[m]) =>
                          BodiesStep(s, p, f) = BodiesStep(s, p, g)
  BY <1>2, BodiesStepFacts
<1> HIDE DEF N, S, any
<1>3. step \in [1..N -> [[1..N -> S] -> S]]
  <2>1. ASSUME NEW p \in 1..N, NEW f \in [1..N -> S] PROVE BodiesStep(s, p, f) \in S
    <3>1. \A m \in p + 1..N : f[m] \in S
      BY <1>1
    <3> QED
      BY <1>2, <3>1
  <2> QED
    BY <2>1
<1>4. LooksAhead(N, S, step)
  <2> SUFFICES ASSUME NEW p \in 1..N, NEW f \in [1..N -> S], NEW g \in [1..N -> S],
                      \A m \in p + 1..N : f[m] = g[m]
               PROVE  step[p][f] = step[p][g]
    BY Zenon DEF LooksAhead
  <2>1. \A m \in p + 1..N : f[m] \in S
    BY <1>1
  <2>2. BodiesStep(s, p, f) = BodiesStep(s, p, g)
    BY <1>2, <2>1
  <2> QED
    BY <2>2
<1>5. PICK f \in [1..N -> S] : FollowsSteps(N, step, f)
  <2> HIDE DEF step
  <2> QED
    BY <1>1, <1>3, <1>4, RecursionFromTheEnd
<1>6. Is(f)
  <2>1. \A p \in 1..N : f[p] = BodiesStep(s, p, f)
    BY <1>5 DEF FollowsSteps
  <2>2. f = [p \in 1..N |-> f[p]]
    BY <1>5
  <2> QED
    BY <2>1, <2>2
<1>7. Is(Bodies(s))
  <2> HIDE DEF Is
  <2>1. Bodies(s) = CHOOSE g : Is(g)
    BY DEF Bodies, BodiesStep, Is, N
  <2> QED
    BY <1>6, <2>1, Zenon
<1> DEFINE F == Bodies(s)
<1>8. F = [p \in 1..N |-> F[p]] /\ \A p \in 1..N : F[p] = BodiesStep(s, p, F)
  <2> HIDE DEF F
  <2>1. F = [p \in 1..N |-> BodiesStep(s, p, F)]
    BY <1>7 DEF F
  <2> QED
    BY <2>1
<1>9. \A p \in 1..N : F[p] \in S
  <2> DEFINE D == {p \in 1..N : F[p] \in S}
  <2> HIDE DEF F
  <2>1. ASSUME NEW p \in 1..N, \A m \in p + 1..N : m \in D PROVE p \in D
    BY <1>1, <1>2, <1>8, <2>1
  <2>2. \A p \in 1..N : p \in D
    <3> HIDE DEF D
    <3> QED
      BY <1>1, <2>1, AllAbove
  <2> QED
    BY <2>2
<1>10. F \in [1..N -> S]
  <2> HIDE DEF F
  <2> QED
    BY <1>8, <1>9
<1> QED
  BY <1>8, <1>10 DEF N, S

\* A comment whose end the scanner finds has a body of the grammar.
LEMMA CommentBody ==
  ASSUME NEW s \in Strings, NEW p \in 1..Len(s) + 1, NEW n \in Nat \ {0},
         CommentEnd(s)[p][n] # 0
  PROVE  \E e \in p..Len(s) - 1 :
           /\ e \in Bodies(s)[p] /\ StartsWith(s, e, <<"*", "/">>)
           /\ CommentEnd(s)[e + 2][n - 1] = CommentEnd(s)[p][n]
<1> DEFINE N == Len(s) + 1
           F == CommentEnd(s)
           B == Bodies(s)
           Good(k, m, e) == /\ e \in B[k] /\ StartsWith(s, e, <<"*", "/">>)
                            /\ F[e + 2][m - 1] = F[k][m]
           D == {k \in 1..N : \A m \in Nat \ {0} : F[k][m] # 0 => \E e \in k..Len(s) - 1 : Good(k, m, e)}
<1>1. Len(s) \in Nat /\ N \in Nat
  BY CharFacts
<1>2. \A k \in 1..N : F[k] = CommentStep(s, k, F) /\ B[k] = BodiesStep(s, k, B)
  BY CommentEndUnfolds, BodiesUnfolds
<1> HIDE DEF F, B
<1>3. ASSUME NEW k \in 1..N, \A m \in k + 1..N : m \in D PROVE k \in D
  <2> SUFFICES ASSUME NEW m \in Nat \ {0}, F[k][m] # 0 PROVE \E e \in k..Len(s) - 1 : Good(k, m, e)
    OBVIOUS
  <2>1. ~(k >= Len(s)) /\ F[k][m] = IF StartsWith(s, k, <<"*", "/">>) THEN F[k + 2][m - 1]
                       ELSE IF StartsWith(s, k, <<"/", "*">>) THEN F[k + 2][m + 1]
                       ELSE F[k + 1][m]
    BY <1>2, ZenonT(30) DEF CommentStep
  <2>2. k < Len(s) /\ k + 1 \in k + 1..N /\ k + 2 \in k + 1..N /\ k \in B[k]
    BY <1>1, <1>2, <2>1 DEF BodiesStep
  <2>3. CASE StartsWith(s, k, <<"*", "/">>)
    <3>1. k \in k..Len(s) - 1 /\ Good(k, m, k)
      BY <1>1, <2>1, <2>2, <2>3
    <3> QED
      BY <3>1
  <2>4. CASE ~StartsWith(s, k, <<"*", "/">>) /\ StartsWith(s, k, <<"/", "*">>)
    <3>1. m + 1 \in Nat \ {0} /\ m + 1 - 1 = m /\ F[k + 2][m + 1] = F[k][m]
      BY <2>1, <2>4
    <3>2. PICK d \in k + 2..Len(s) - 1 : Good(k + 2, m + 1, d)
      BY <1>3, <2>2, <3>1
    <3>3. d + 2 \in k + 1..N /\ F[d + 2][m] = F[k][m]
      BY <1>1, <3>1, <3>2, SMTT(20)
    <3>4. PICK e \in d + 2..Len(s) - 1 : Good(d + 2, m, e)
      BY <1>3, <3>3
    <3>5. d + 2 \in Closed(s, k, B)
      BY <3>2, ClosedFacts
    <3>6. e \in B[k]
      BY <1>2, <2>4, <3>4, <3>5 DEF BodiesStep
    <3>7. e \in k..Len(s) - 1 /\ Good(k, m, e)
      BY <1>1, <3>3, <3>4, <3>6
    <3> QED
      BY <3>7
  <2>5. CASE ~StartsWith(s, k, <<"*", "/">>) /\ ~StartsWith(s, k, <<"/", "*">>)
    <3>1. F[k + 1][m] = F[k][m]
      BY <2>1, <2>5
    <3>2. PICK e \in k + 1..Len(s) - 1 : Good(k + 1, m, e)
      BY <1>3, <2>2, <3>1
    <3>3. e \in B[k]
      BY <1>2, <2>2, <2>5, <3>2 DEF BodiesStep
    <3>4. e \in k..Len(s) - 1 /\ Good(k, m, e)
      BY <1>1, <3>1, <3>2, <3>3
    <3> QED
      BY <3>4
  <2> QED
    BY <2>3, <2>4, <2>5
<1>4. \A k \in 1..N : k \in D
  <2> HIDE DEF D, N
  <2> QED
    BY <1>1, <1>3, AllAbove
<1>5. \E e \in p..Len(s) - 1 : Good(p, n, e)
  BY <1>4 DEF F
<1> QED
  BY <1>5 DEF F, B

GapsStep(s, p, G) ==
  {p} \cup (IF Char(s, p) \in Blanks THEN G[p + 1]
            ELSE IF Char(s, p) = "/" THEN UNION {G[q] : q \in LineComments(s, p) \cup Comments(s, p)}
            ELSE {})

LEMMA GapsStepFacts ==
  ASSUME NEW s \in Strings, NEW p \in 1..Len(s) + 1, NEW G,
         \A m \in p + 1..Len(s) + 1 : G[m] \in SUBSET (1..Len(s) + 1)
  PROVE  /\ GapsStep(s, p, G) \in SUBSET (1..Len(s) + 1)
         /\ \A g : (\A m \in p + 1..Len(s) + 1 : G[m] = g[m]) =>
                      GapsStep(s, p, G) = GapsStep(s, p, g)
<1> DEFINE N == Len(s) + 1
           next == LineComments(s, p) \cup Comments(s, p)
<1>1. Len(s) \in Nat /\ N \in Nat /\ (Char(s, p) \in Blanks => p + 1 \in p + 1..N)
  BY SkipSteps
<1>2. next \subseteq p + 1..N
  <2>1. LineComments(s, p) \subseteq p + 1..N
    BY <1>1 DEF LineComments
  <2>2. Comments(s, p) \subseteq p + 1..N
    BY <1>1, ClosedFacts DEF Comments
  <2> QED
    BY <2>1, <2>2
<1> HIDE DEF next
<1>3. UNION {G[q] : q \in next} \subseteq 1..N
  BY <1>2
<1>4. GapsStep(s, p, G) \in SUBSET (1..N)
  BY <1>1, <1>3 DEF GapsStep, next
<1>5. ASSUME NEW g, \A m \in p + 1..N : G[m] = g[m] PROVE GapsStep(s, p, G) = GapsStep(s, p, g)
  <2>1. {G[q] : q \in next} = {g[q] : q \in next}
    BY <1>2, <1>5
  <2>2. Char(s, p) \in Blanks => G[p + 1] = g[p + 1]
    BY <1>1, <1>5
  <2> QED
    BY <2>1, <2>2 DEF GapsStep, next
<1> QED
  BY <1>4, <1>5

LEMMA GapsUnfolds ==
  ASSUME NEW s \in Strings
  PROVE  /\ Gaps(s) \in [1..Len(s) + 1 -> SUBSET (1..Len(s) + 1)]
         /\ \A p \in 1..Len(s) + 1 : Gaps(s)[p] = GapsStep(s, p, Gaps(s))
<1> DEFINE N == Len(s) + 1
           S == SUBSET (1..N)
           any == {}
           step == [p \in 1..N |-> [f \in [1..N -> S] |-> GapsStep(s, p, f)]]
           Is(f) == f = [p \in 1..N |-> GapsStep(s, p, f)]
<1>1. N \in Nat /\ any \in S
  BY DEF Strings
<1>2. ASSUME NEW p \in 1..N, NEW f, \A m \in p + 1..N : f[m] \in S
      PROVE  /\ GapsStep(s, p, f) \in S
             /\ \A g : (\A m \in p + 1..N : f[m] = g[m]) =>
                          GapsStep(s, p, f) = GapsStep(s, p, g)
  BY <1>2, GapsStepFacts
<1> HIDE DEF N, S, any
<1>3. step \in [1..N -> [[1..N -> S] -> S]]
  <2>1. ASSUME NEW p \in 1..N, NEW f \in [1..N -> S] PROVE GapsStep(s, p, f) \in S
    <3>1. \A m \in p + 1..N : f[m] \in S
      BY <1>1
    <3> QED
      BY <1>2, <3>1
  <2> QED
    BY <2>1
<1>4. LooksAhead(N, S, step)
  <2> SUFFICES ASSUME NEW p \in 1..N, NEW f \in [1..N -> S], NEW g \in [1..N -> S],
                      \A m \in p + 1..N : f[m] = g[m]
               PROVE  step[p][f] = step[p][g]
    BY Zenon DEF LooksAhead
  <2>1. \A m \in p + 1..N : f[m] \in S
    BY <1>1
  <2>2. GapsStep(s, p, f) = GapsStep(s, p, g)
    BY <1>2, <2>1
  <2> QED
    BY <2>2
<1>5. PICK f \in [1..N -> S] : FollowsSteps(N, step, f)
  <2> HIDE DEF step
  <2> QED
    BY <1>1, <1>3, <1>4, RecursionFromTheEnd
<1>6. Is(f)
  <2>1. \A p \in 1..N : f[p] = GapsStep(s, p, f)
    BY <1>5 DEF FollowsSteps
  <2>2. f = [p \in 1..N |-> f[p]]
    BY <1>5
  <2> QED
    BY <2>1, <2>2
<1>7. Is(Gaps(s))
  <2> HIDE DEF Is
  <2>1. Gaps(s) = CHOOSE g : Is(g)
    BY DEF Gaps, GapsStep, Is, N
  <2> QED
    BY <1>6, <2>1, Zenon
<1> DEFINE F == Gaps(s)
<1>8. F = [p \in 1..N |-> F[p]] /\ \A p \in 1..N : F[p] = GapsStep(s, p, F)
  <2> HIDE DEF F
  <2>1. F = [p \in 1..N |-> GapsStep(s, p, F)]
    BY <1>7 DEF F
  <2> QED
    BY <2>1
<1>9. \A p \in 1..N : F[p] \in S
  <2> DEFINE D == {p \in 1..N : F[p] \in S}
  <2> HIDE DEF F
  <2>1. ASSUME NEW p \in 1..N, \A m \in p + 1..N : m \in D PROVE p \in D
    BY <1>1, <1>2, <1>8, <2>1
  <2>2. \A p \in 1..N : p \in D
    <3> HIDE DEF D
    <3> QED
      BY <1>1, <2>1, AllAbove
  <2> QED
    BY <2>2
<1>10. F \in [1..N -> S]
  <2> HIDE DEF F
  <2> QED
    BY <1>8, <1>9
<1> QED
  BY <1>8, <1>10 DEF N, S

\* What advance() passes is made of blanks and whole comments.
LEMMA SkipPassesGaps ==
  ASSUME NEW s \in Strings, NEW p \in 1..Len(s) + 1, Skip(s)[p] # 0
  PROVE  Skip(s)[p] \in p..Len(s) + 1 /\ Skip(s)[p] \in Gaps(s)[p]
<1> DEFINE N == Len(s) + 1
           A == Skip(s)
           G == Gaps(s)
           D == {k \in 1..N : A[k] # 0 => A[k] \in k..N /\ A[k] \in G[k]}
<1>1. Len(s) \in Nat /\ N \in Nat
  BY CharFacts
<1>2. \A k \in 1..N : A[k] = SkipStep(s, k, A) /\ G[k] = GapsStep(s, k, G)
  BY SkipUnfolds, GapsUnfolds
<1> HIDE DEF A, G
<1>3. ASSUME NEW k \in 1..N, \A m \in k + 1..N : m \in D PROVE k \in D
  <2> SUFFICES ASSUME A[k] # 0 PROVE A[k] \in k..N /\ A[k] \in G[k]
    OBVIOUS
  <2> DEFINE next == LineComments(s, k) \cup Comments(s, k)
  <2>1. ASSUME NEW q \in k + 1..N, A[q] = A[k], Char(s, k) = "/", q \in next
        PROVE  A[k] \in k..N /\ A[k] \in G[k]
    <3>1. A[k] \in q..N /\ A[k] \in G[q]
      BY <1>3, <2>1
    <3>2. G[k] = {k} \cup UNION {G[r] : r \in next}
      BY <1>2, <2>1, NoCharFacts DEF GapsStep
    <3> QED
      BY <1>1, <2>1, <3>1, <3>2
  <2>2. CASE StartsWith(s, k, <<"/", "/">>)
    <3> DEFINE q == LineEnd(s, k + 2)
    <3>1. k + 1 <= Len(s) /\ s[k] = "/" /\ s[k + 1] = "/"
      BY <2>2, StartsWithPair
    <3>2. k + 2 \in 1..N /\ Char(s, k) = "/" /\ Char(s, k + 1) = "/"
      BY <1>1, <3>1 DEF Char
    <3>3. /\ q \in k + 2..N
          /\ q = N \/ Char(s, q) = "\n"
          /\ \A j \in k + 2..q - 1 : Char(s, j) # "\n"
      BY <3>2, LineEndFacts
    <3>4. \A j \in k..q - 1 : Char(s, j) # "\n"
      <4>1. \A j \in k..q - 1 : j = k \/ j = k + 1 \/ j \in k + 2..q - 1
        BY <1>1, <3>3
      <4> QED
        BY <3>2, <3>3, <4>1, NoCharFacts
    <3>5. q \in next
      BY <2>2, <3>3, <3>4 DEF LineComments
    <3>6. A[q] = A[k]
      BY <1>2, <2>2 DEF SkipStep
    <3>7. q \in k + 1..N
      BY <1>1, <3>3
    <3> QED
      BY <2>1, <3>2, <3>5, <3>6, <3>7
  <2>3. CASE ~StartsWith(s, k, <<"/", "/">>) /\ StartsWith(s, k, <<"/", "*">>)
    <3> DEFINE q == CommentEnd(s)[k + 2][1]
    <3>1. k + 1 <= Len(s) /\ s[k] = "/"
      BY <2>3, StartsWithPair
    <3>2. k + 2 \in 1..N /\ Char(s, k) = "/"
      BY <1>1, <3>1 DEF Char
    <3>3. q # 0 /\ A[q] = A[k]
      BY <1>2, <2>3 DEF SkipStep
    <3>4. PICK e \in k + 2..Len(s) - 1 :
            /\ e \in Bodies(s)[k + 2] /\ StartsWith(s, e, <<"*", "/">>)
            /\ CommentEnd(s)[e + 2][0] = q
      <4>1. 1 \in Nat \ {0} /\ 1 - 1 = 0
        OBVIOUS
      <4> QED
        BY <3>2, <3>3, <4>1, CommentBody
    <3>5. CommentEnd(s)[e + 2][0] = e + 2
      <4>1. e + 2 \in 1..N
        BY <1>1
      <4> QED
        BY <4>1, CommentEndUnfolds DEF CommentStep
    <3>6. q \in next
      BY <2>3, <3>4, <3>5, ClosedFacts DEF Comments
    <3>7. q \in k + 1..N
      BY <1>1, <3>4, <3>5
    <3> QED
      BY <2>1, <3>2, <3>3, <3>6, <3>7
  <2>4. CASE /\ ~StartsWith(s, k, <<"/", "/">>) /\ ~StartsWith(s, k, <<"/", "*">>)
             /\ Char(s, k) \in Blanks
    <3>1. A[k] = A[k + 1] /\ k + 1 \in k + 1..N
      BY <1>2, <2>4, SkipSteps DEF SkipStep
    <3>2. A[k] \in k + 1..N /\ A[k] \in G[k + 1]
      BY <1>3, <3>1
    <3>3. G[k + 1] \subseteq G[k]
      BY <1>2, <2>4 DEF GapsStep
    <3> QED
      BY <1>1, <3>2, <3>3
  <2>5. CASE /\ ~StartsWith(s, k, <<"/", "/">>) /\ ~StartsWith(s, k, <<"/", "*">>)
             /\ Char(s, k) \notin Blanks
    <3>1. A[k] = k /\ k \in G[k]
      BY <1>2, <2>5 DEF SkipStep, GapsStep
    <3> QED
      BY <1>1, <3>1
  <2> QED
    BY <2>2, <2>3, <2>4, <2>5
<1>4. \A k \in 1..N : k \in D
  <2> HIDE DEF D, N
  <2> QED
    BY <1>1, <1>3, AllAbove
<1> QED
  BY <1>4 DEF A, G

-----------------------------------------------------------------------------
(* The marks, and the suffixes of integers *)

MarkChars ==
  {"+", "*", "/", "%", "^", "!", "&", "|", "-", "<", ">", "=", ".", ":", "#", "$", "?", "~", "@",
   ",", ";", "_", "(", ")", "[", "]", "{", "}"}

\* Marks begin with characters that begin neither a number nor a word.
LEMMA MarkCharFacts ==
  \A c \in MarkChars : c \notin Digits /\ c \notin Letters
<1>1. \A c \in MarkChars : c \notin Digits
  BY Zenon DEF MarkChars, Digits
<1>2. "+" \notin Letters /\ "*" \notin Letters /\ "/" \notin Letters /\ "%" \notin Letters /\ "^" \notin Letters /\ "!" \notin Letters
  BY Zenon DEF Letters, HexDigits, Digits
<1>3. "&" \notin Letters /\ "|" \notin Letters /\ "-" \notin Letters /\ "<" \notin Letters /\ ">" \notin Letters /\ "=" \notin Letters
  BY Zenon DEF Letters, HexDigits, Digits
<1>4. "." \notin Letters /\ ":" \notin Letters /\ "#" \notin Letters /\ "$" \notin Letters /\ "?" \notin Letters /\ "~" \notin Letters /\ "@" \notin Letters
  BY Zenon DEF Letters, HexDigits, Digits
<1>5. "," \notin Letters /\ ";" \notin Letters /\ "_" \notin Letters /\ "(" \notin Letters /\ ")" \notin Letters /\ "[" \notin Letters /\ "]" \notin Letters /\ "{" \notin Letters /\ "}" \notin Letters
  BY Zenon DEF Letters, HexDigits, Digits
<1> QED
  BY <1>1, <1>2, <1>3, <1>4, <1>5, Zenon DEF MarkChars

\* m is a mark of n characters that begins with c.
Spells(m, c, n) == m \in Seq({c, "=", ">", "-"}) /\ Len(m) = n /\ m[1] = c

\* The shapes of the marks.
LEMMA SpellsFacts ==
  ASSUME NEW c, NEW d \in {c, "=", ">", "-"}, NEW e \in {c, "=", ">", "-"}
  PROVE  Spells(<<c>>, c, 1) /\ Spells(<<c, d>>, c, 2) /\ Spells(<<c, d, e>>, c, 3)
<1>1. Spells(<<c>>, c, 1)
  BY DEF Spells
<1>2. Spells(<<c, d>>, c, 2)
  BY DEF Spells
<1>3. Spells(<<c, d, e>>, c, 3)
  BY DEF Spells
<1> QED
  BY <1>1, <1>2, <1>3

\* The branches of a case begin with its character, and none is tried before a
\* longer one; "_" alone is a mark.
Ordered(c, marks) ==
  \A k \in DOMAIN marks :
    /\ Spells(marks[k], c, Len(marks[k])) /\ Len(marks[k]) \in 1..3 /\ (c = "_" => Len(marks[k]) = 1)
    /\ \A j \in DOMAIN marks : j < k => Len(marks[k]) <= Len(marks[j])

\* The list marks is ordered when its lengths, l, are.
LEMMA OrderedByLength ==
  ASSUME NEW c, NEW marks, NEW n \in 1..5, DOMAIN marks = 1..n, NEW l,
         c = "_" => \A k \in 1..n : l[k] = 1,
         \A k \in 1..n : Spells(marks[k], c, l[k]) /\ l[k] \in 1..3,
         \A j, k \in 1..n : j < k => l[k] <= l[j]
  PROVE  Ordered(c, marks)
<1>1. \A k \in 1..n : Len(marks[k]) = l[k]
  BY DEF Spells
<1>2. ASSUME NEW k \in DOMAIN marks
      PROVE  /\ Spells(marks[k], c, Len(marks[k])) /\ Len(marks[k]) \in 1..3
             /\ \A j \in DOMAIN marks : j < k => Len(marks[k]) <= Len(marks[j])
  <2>1. k \in 1..n /\ Len(marks[k]) = l[k]
    BY <1>1
  <2>2. Spells(marks[k], c, Len(marks[k])) /\ Len(marks[k]) \in 1..3
    BY <2>1
  <2>3. ASSUME NEW j \in DOMAIN marks, j < k PROVE Len(marks[k]) <= Len(marks[j])
    <3>1. j \in 1..n /\ Len(marks[j]) = l[j]
      BY <1>1
    <3>2. l[k] <= l[j]
      BY <2>1, <2>3, <3>1
    <3> QED
      BY <2>1, <3>1, <3>2
  <2> QED
    BY <2>2, <2>3
<1>3. ASSUME NEW k \in 1..n, c = "_" PROVE Len(marks[k]) = 1
  BY <1>1, <1>3
<1>4. c = "_" => \A k \in DOMAIN marks : Len(marks[k]) = 1
  BY <1>3
<1> QED
  BY <1>2, <1>4 DEF Ordered

\* What the switch may try, case by case.
LEMMA BranchFacts ==
  ASSUME NEW c
  PROVE  /\ Ordered(c, Branches(c)) /\ (DOMAIN Branches(c) # {} => c \in MarkChars)
         /\ DOMAIN Branches(c) \subseteq 1..5
<1>1. CASE c \in {"+", "*", "/", "%", "^", "!"}
  <2> DEFINE B == <<<<c, "=">>, <<c>>>>
  <2>1. Branches(c) = B
    BY <1>1 DEF Branches
  <2>2. c \in MarkChars /\ c # "_"
    BY <1>1, Zenon DEF MarkChars
  <2>3. Spells(B[1], c, 2) /\ Spells(B[2], c, 1)
    BY SpellsFacts
  <2>4. DOMAIN B = 1..2 /\ DOMAIN B \subseteq 1..5 /\ 2 \in 1..5
    OBVIOUS
  <2> DEFINE l == <<2, 1>>
  <2>5. l[1] = 2 /\ l[2] = 1
    OBVIOUS
  <2> HIDE DEF B, l
  <2>6. ASSUME NEW k \in 1..2 PROVE Spells(B[k], c, l[k]) /\ l[k] \in 1..3
    <3>1. k = 1 \/ k = 2
      OBVIOUS
    <3> QED
      BY <2>3, <2>5, <3>1
  <2>7. \A j, k \in 1..2 : j < k => l[k] <= l[j]
    BY <2>5
  <2>8. Ordered(c, B)
    BY <2>2, <2>4, <2>6, <2>7, OrderedByLength
  <2> QED
    BY <2>1, <2>2, <2>4, <2>8, Zenon
<1>2. CASE c \in {"&", "|"}
  <2> DEFINE B == <<<<c, "=">>, <<c, c>>, <<c>>>>
  <2>1. Branches(c) = B
    BY <1>2 DEF Branches
  <2>2. c \in MarkChars /\ c # "_"
    BY <1>2, Zenon DEF MarkChars
  <2>3. Spells(B[1], c, 2) /\ Spells(B[2], c, 2) /\ Spells(B[3], c, 1)
    BY SpellsFacts
  <2>4. DOMAIN B = 1..3 /\ DOMAIN B \subseteq 1..5 /\ 3 \in 1..5
    OBVIOUS
  <2> DEFINE l == <<2, 2, 1>>
  <2>5. l[1] = 2 /\ l[2] = 2 /\ l[3] = 1
    OBVIOUS
  <2> HIDE DEF B, l
  <2>6. ASSUME NEW k \in 1..3 PROVE Spells(B[k], c, l[k]) /\ l[k] \in 1..3
    <3>1. k = 1 \/ k = 2 \/ k = 3
      OBVIOUS
    <3> QED
      BY <2>3, <2>5, <3>1
  <2>7. \A j, k \in 1..3 : j < k => l[k] <= l[j]
    BY <2>5
  <2>8. Ordered(c, B)
    BY <2>2, <2>4, <2>6, <2>7, OrderedByLength
  <2> QED
    BY <2>1, <2>2, <2>4, <2>8, Zenon
<1>3. CASE c = "-"
  <2> DEFINE B == <<<<c, "=">>, <<c, ">">>, <<c>>>>
  <2>1. Branches(c) = B
    BY <1>3 DEF Branches
  <2>2. c \in MarkChars /\ c # "_"
    BY <1>3, Zenon DEF MarkChars
  <2>3. Spells(B[1], c, 2) /\ Spells(B[2], c, 2) /\ Spells(B[3], c, 1)
    BY SpellsFacts
  <2>4. DOMAIN B = 1..3 /\ DOMAIN B \subseteq 1..5 /\ 3 \in 1..5
    OBVIOUS
  <2> DEFINE l == <<2, 2, 1>>
  <2>5. l[1] = 2 /\ l[2] = 2 /\ l[3] = 1
    OBVIOUS
  <2> HIDE DEF B, l
  <2>6. ASSUME NEW k \in 1..3 PROVE Spells(B[k], c, l[k]) /\ l[k] \in 1..3
    <3>1. k = 1 \/ k = 2 \/ k = 3
      OBVIOUS
    <3> QED
      BY <2>3, <2>5, <3>1
  <2>7. \A j, k \in 1..3 : j < k => l[k] <= l[j]
    BY <2>5
  <2>8. Ordered(c, B)
    BY <2>2, <2>4, <2>6, <2>7, OrderedByLength
  <2> QED
    BY <2>1, <2>2, <2>4, <2>8, Zenon
<1>4. CASE c = "<"
  <2> DEFINE B == <<<<c, c, "=">>, <<c, c>>, <<c, "=">>, <<c, "-">>, <<c>>>>
  <2>1. Branches(c) = B
    BY <1>4 DEF Branches
  <2>2. c \in MarkChars /\ c # "_"
    BY <1>4, Zenon DEF MarkChars
  <2>3. Spells(B[1], c, 3) /\ Spells(B[2], c, 2) /\ Spells(B[3], c, 2) /\ Spells(B[4], c, 2) /\ Spells(B[5], c, 1)
    BY SpellsFacts
  <2>4. DOMAIN B = 1..5 /\ DOMAIN B \subseteq 1..5 /\ 5 \in 1..5
    OBVIOUS
  <2> DEFINE l == <<3, 2, 2, 2, 1>>
  <2>5. l[1] = 3 /\ l[2] = 2 /\ l[3] = 2 /\ l[4] = 2 /\ l[5] = 1
    OBVIOUS
  <2> HIDE DEF B, l
  <2>6. ASSUME NEW k \in 1..5 PROVE Spells(B[k], c, l[k]) /\ l[k] \in 1..3
    <3>1. k = 1 \/ k = 2 \/ k = 3 \/ k = 4 \/ k = 5
      OBVIOUS
    <3> QED
      BY <2>3, <2>5, <3>1
  <2>7. \A j, k \in 1..5 : j < k => l[k] <= l[j]
    BY <2>5
  <2>8. Ordered(c, B)
    BY <2>2, <2>4, <2>6, <2>7, OrderedByLength
  <2> QED
    BY <2>1, <2>2, <2>4, <2>8, Zenon
<1>5. CASE c = ">"
  <2> DEFINE B == <<<<c, c, "=">>, <<c, c>>, <<c, "=">>, <<c>>>>
  <2>1. Branches(c) = B
    BY <1>5 DEF Branches
  <2>2. c \in MarkChars /\ c # "_"
    BY <1>5, Zenon DEF MarkChars
  <2>3. Spells(B[1], c, 3) /\ Spells(B[2], c, 2) /\ Spells(B[3], c, 2) /\ Spells(B[4], c, 1)
    BY SpellsFacts
  <2>4. DOMAIN B = 1..4 /\ DOMAIN B \subseteq 1..5 /\ 4 \in 1..5
    OBVIOUS
  <2> DEFINE l == <<3, 2, 2, 1>>
  <2>5. l[1] = 3 /\ l[2] = 2 /\ l[3] = 2 /\ l[4] = 1
    OBVIOUS
  <2> HIDE DEF B, l
  <2>6. ASSUME NEW k \in 1..4 PROVE Spells(B[k], c, l[k]) /\ l[k] \in 1..3
    <3>1. k = 1 \/ k = 2 \/ k = 3 \/ k = 4
      OBVIOUS
    <3> QED
      BY <2>3, <2>5, <3>1
  <2>7. \A j, k \in 1..4 : j < k => l[k] <= l[j]
    BY <2>5
  <2>8. Ordered(c, B)
    BY <2>2, <2>4, <2>6, <2>7, OrderedByLength
  <2> QED
    BY <2>1, <2>2, <2>4, <2>8, Zenon
<1>6. CASE c = "="
  <2> DEFINE B == <<<<c, c>>, <<c, ">">>, <<c>>>>
  <2>1. Branches(c) = B
    BY <1>6 DEF Branches
  <2>2. c \in MarkChars /\ c # "_"
    BY <1>6, Zenon DEF MarkChars
  <2>3. Spells(B[1], c, 2) /\ Spells(B[2], c, 2) /\ Spells(B[3], c, 1)
    BY SpellsFacts
  <2>4. DOMAIN B = 1..3 /\ DOMAIN B \subseteq 1..5 /\ 3 \in 1..5
    OBVIOUS
  <2> DEFINE l == <<2, 2, 1>>
  <2>5. l[1] = 2 /\ l[2] = 2 /\ l[3] = 1
    OBVIOUS
  <2> HIDE DEF B, l
  <2>6. ASSUME NEW k \in 1..3 PROVE Spells(B[k], c, l[k]) /\ l[k] \in 1..3
    <3>1. k = 1 \/ k = 2 \/ k = 3
      OBVIOUS
    <3> QED
      BY <2>3, <2>5, <3>1
  <2>7. \A j, k \in 1..3 : j < k => l[k] <= l[j]
    BY <2>5
  <2>8. Ordered(c, B)
    BY <2>2, <2>4, <2>6, <2>7, OrderedByLength
  <2> QED
    BY <2>1, <2>2, <2>4, <2>8, Zenon
<1>7. CASE c = "."
  <2> DEFINE B == <<<<c, c, c>>, <<c, c, "=">>, <<c, c>>, <<c>>>>
  <2>1. Branches(c) = B
    BY <1>7 DEF Branches
  <2>2. c \in MarkChars /\ c # "_"
    BY <1>7, Zenon DEF MarkChars
  <2>3. Spells(B[1], c, 3) /\ Spells(B[2], c, 3) /\ Spells(B[3], c, 2) /\ Spells(B[4], c, 1)
    BY SpellsFacts
  <2>4. DOMAIN B = 1..4 /\ DOMAIN B \subseteq 1..5 /\ 4 \in 1..5
    OBVIOUS
  <2> DEFINE l == <<3, 3, 2, 1>>
  <2>5. l[1] = 3 /\ l[2] = 3 /\ l[3] = 2 /\ l[4] = 1
    OBVIOUS
  <2> HIDE DEF B, l
  <2>6. ASSUME NEW k \in 1..4 PROVE Spells(B[k], c, l[k]) /\ l[k] \in 1..3
    <3>1. k = 1 \/ k = 2 \/ k = 3 \/ k = 4
      OBVIOUS
    <3> QED
      BY <2>3, <2>5, <3>1
  <2>7. \A j, k \in 1..4 : j < k => l[k] <= l[j]
    BY <2>5
  <2>8. Ordered(c, B)
    BY <2>2, <2>4, <2>6, <2>7, OrderedByLength
  <2> QED
    BY <2>1, <2>2, <2>4, <2>8, Zenon
<1>8. CASE c = ":"
  <2> DEFINE B == <<<<c, c>>, <<c>>>>
  <2>1. Branches(c) = B
    BY <1>8 DEF Branches
  <2>2. c \in MarkChars /\ c # "_"
    BY <1>8, Zenon DEF MarkChars
  <2>3. Spells(B[1], c, 2) /\ Spells(B[2], c, 1)
    BY SpellsFacts
  <2>4. DOMAIN B = 1..2 /\ DOMAIN B \subseteq 1..5 /\ 2 \in 1..5
    OBVIOUS
  <2> DEFINE l == <<2, 1>>
  <2>5. l[1] = 2 /\ l[2] = 1
    OBVIOUS
  <2> HIDE DEF B, l
  <2>6. ASSUME NEW k \in 1..2 PROVE Spells(B[k], c, l[k]) /\ l[k] \in 1..3
    <3>1. k = 1 \/ k = 2
      OBVIOUS
    <3> QED
      BY <2>3, <2>5, <3>1
  <2>7. \A j, k \in 1..2 : j < k => l[k] <= l[j]
    BY <2>5
  <2>8. Ordered(c, B)
    BY <2>2, <2>4, <2>6, <2>7, OrderedByLength
  <2> QED
    BY <2>1, <2>2, <2>4, <2>8, Zenon
<1>9. CASE c \in {"#", "$", "?", "~", "@", ",", ";", "_", "(", ")", "[", "]", "{", "}"}
  <2> DEFINE B == <<<<c>>>>
  <2>1. Branches(c) = B
    BY <1>9 DEF Branches
  <2>2. c \in MarkChars
    BY <1>9, Zenon DEF MarkChars
  <2>3. Spells(B[1], c, 1)
    BY SpellsFacts
  <2>4. DOMAIN B = 1..1 /\ DOMAIN B \subseteq 1..5 /\ 1 \in 1..5
    OBVIOUS
  <2> DEFINE l == <<1>>
  <2>5. l[1] = 1
    OBVIOUS
  <2> HIDE DEF B, l
  <2>6. ASSUME NEW k \in 1..1 PROVE Spells(B[k], c, l[k]) /\ l[k] \in 1..3
    <3>1. k = 1
      OBVIOUS
    <3> QED
      BY <2>3, <2>5, <3>1
  <2>7. \A j, k \in 1..1 : j < k => l[k] <= l[j]
    BY <2>5
  <2>8. \A k \in 1..1 : l[k] = 1
    BY <2>5
  <2>9. Ordered(c, B)
    BY <2>2, <2>4, <2>6, <2>7, <2>8, OrderedByLength
  <2> QED
    BY <2>1, <2>2, <2>4, <2>9, Zenon
<1>10. CASE ~(c \in {"+", "*", "/", "%", "^", "!"} \/ c \in {"&", "|"} \/ c = "-" \/ c = "<" \/ c = ">" \/ c = "=" \/ c = "." \/ c = ":"
            \/ c \in {"#", "$", "?", "~", "@", ",", ";", "_", "(", ")", "[", "]", "{", "}"})
  <2>1. Branches(c) = <<>>
    BY <1>10 DEF Branches
  <2>2. Ordered(c, <<>>) /\ DOMAIN <<>> = {}
    BY DEF Ordered
  <2> QED
    BY <2>1, <2>2
<1> QED
  BY <1>1, <1>2, <1>3, <1>4, <1>5, <1>6, <1>7, <1>8, <1>9, <1>10

\* Suffixes begin with a letter that no number has, and none begins another one.
LEMMA SuffixFacts ==
  /\ IntSuffixes \subseteq Seq(Letters \cup Digits)
  /\ \A x \in IntSuffixes : x[1] \in {"u", "i"} /\ Len(x) \in 2..5
  /\ \A x, y \in IntSuffixes : x # y => x[1] # y[1] \/ x[2] # y[2]
<1> DEFINE L == Letters \cup Digits
<1>1. "u" \in L /\ "i" \in L /\ {"8", "1", "6", "3", "2", "4", "s", "z", "e"} \subseteq L
  BY Zenon DEF Letters, Digits, HexDigits
<1> HIDE DEF L
<1>2. \A t \in {"u", "i"} : t \in L
  BY <1>1
<1>3. /\ <<"8">> \in Seq(L) /\ <<"1", "6">> \in Seq(L) /\ <<"3", "2">> \in Seq(L)
      /\ <<"6", "4">> \in Seq(L) /\ <<"s", "i", "z", "e">> \in Seq(L)
  BY <1>1
<1>4. ASSUME NEW t \in L, NEW w \in Seq(L) PROVE <<t>> \o w \in Seq(L)
  OBVIOUS
<1>5. ASSUME NEW x \in IntSuffixes PROVE x \in Seq(L)
  <2>1. PICK t \in {"u", "i"} :
          \/ x = <<t>> \o <<"8">> \/ x = <<t>> \o <<"1", "6">> \/ x = <<t>> \o <<"3", "2">>
          \/ x = <<t>> \o <<"6", "4">> \/ x = <<t>> \o <<"s", "i", "z", "e">>
    BY <1>5 DEF IntSuffixes
  <2> QED
    BY <1>2, <1>3, <1>4, <2>1
<1>6. \A x \in IntSuffixes : x[1] \in {"u", "i"} /\ Len(x) \in 2..5
  BY DEF IntSuffixes
<1>7. \A x, y \in IntSuffixes : x # y => x[1] # y[1] \/ x[2] # y[2]
  BY DEF IntSuffixes
<1> QED
  BY <1>5, <1>6, <1>7 DEF L

-----------------------------------------------------------------------------
(* Where tokens end *)

\* The kinds of character are apart, and none is a newline.
LEMMA KindFacts ==
  /\ NoChar \notin Separated(Digits) /\ NoChar \notin Separated(HexDigits)
  /\ NoChar \notin Separated({"0", "1", "2", "3", "4", "5", "6", "7"})
  /\ NoChar \notin Separated({"0", "1"}) /\ NoChar \notin WordChars /\ NoChar \notin Quotes
  /\ NoChar \notin Letters
  /\ "\n" \notin Separated(Digits) /\ "\n" \notin Separated(HexDigits)
  /\ "\n" \notin Separated({"0", "1", "2", "3", "4", "5", "6", "7"})
  /\ "\n" \notin Separated({"0", "1"})
  /\ "\n" \notin Letters \cup Digits /\ "\n" # "0" /\ "\n" # "x" /\ "\n" # "o" /\ "\n" # "b"
  /\ "\n" # "." /\ Digits \subseteq Separated(Digits)
BY Zenon DEF NoChar, Separated, Digits, HexDigits, WordChars, Letters, Quotes

LEMMA StringEndAbove ==
  ASSUME NEW s \in Strings, NEW c, NEW p \in 1..Len(s) + 1
  PROVE  StringEnd(s, c)[p] \in {0} \cup p + 1..Len(s) + 1
<1> DEFINE N == Len(s) + 1
           F == StringEnd(s, c)
           D == {k \in 1..N : F[k] \in {0} \cup k + 1..N}
<1>1. N \in Nat /\ Len(s) \in Nat
  BY CharFacts
<1>2. \A k \in 1..N : F[k] = StringStep(s, c, k, F)
  BY StringEndUnfolds
<1> HIDE DEF F
<1>3. ASSUME NEW k \in 1..N, \A m \in k + 1..N : m \in D PROVE k \in D
  <2>1. CASE k = N \/ (s[k] = "\\" /\ k >= Len(s) - 1)
    BY <1>2, <2>1 DEF StringStep
  <2>2. CASE k # N /\ s[k] = "\\" /\ ~(k >= Len(s) - 1)
    <3>1. k + 2 \in k + 1..N
      BY <1>1, <2>2
    <3>2. F[k + 2] \in {0} \cup k + 3..N /\ F[k] = F[k + 2]
      BY <1>2, <1>3, <2>2, <3>1 DEF StringStep
    <3> QED
      BY <1>1, <3>2
  <2>3. CASE k # N /\ s[k] # "\\" /\ s[k] = c
    <3>1. F[k] = k + 1
      BY <1>2, <2>3 DEF StringStep
    <3> QED
      BY <1>1, <2>3, <3>1
  <2>4. CASE k # N /\ s[k] # "\\" /\ s[k] # c
    <3>1. k + 1 \in k + 1..N
      BY <1>1, <2>4
    <3>2. F[k + 1] \in {0} \cup k + 2..N /\ F[k] = F[k + 1]
      BY <1>2, <1>3, <2>4, <3>1 DEF StringStep
    <3> QED
      BY <1>1, <3>2
  <2> QED
    BY <2>1, <2>2, <2>3, <2>4
<1>4. \A k \in 1..N : k \in D
  <2> HIDE DEF D, N
  <2> QED
    BY <1>1, <1>3, AllAbove
<1> QED
  BY <1>4 DEF F

LEMMA PrefixedFacts ==
  ASSUME NEW str \in Strings, NEW c \in {"x", "o", "b"}, NEW S, NoChar \notin Separated(S),
         "\n" \notin Separated(S)
  PROVE  /\ Prefixed(str, <<"0", c>>, S) \in 0..Len(str)
         /\ \A k \in 1..Prefixed(str, <<"0", c>>, S) : Char(str, k) # "\n"
<1> DEFINE e == RunEnd(str, 3, Separated(S))
           n == Prefixed(str, <<"0", c>>, S)
<1>1. Len(str) \in Nat
  BY DEF Strings
<1>2. CASE n = 0
  BY <1>1, <1>2
<1>3. CASE n # 0
  <2>1. StartsWith(str, 1, <<"0", c>>) /\ n = e - 1
    BY <1>3 DEF Prefixed
  <2>2. 2 <= Len(str) /\ str[1] = "0" /\ str[2] = c
    <3>1. 1 \in 1..Len(str) + 1 /\ 1 + 1 = 2
      BY <1>1
    <3> QED
      BY <2>1, <3>1, StartsWithPair
  <2>3. e \in 3..Len(str) + 1 /\ \A k \in 3..e - 1 : Char(str, k) \in Separated(S)
    <3>1. 3 \in 1..Len(str) + 1
      BY <1>1, <2>2
    <3> QED
      BY <3>1, RunEndFacts
  <2>4. n \in 0..Len(str)
    BY <1>1, <2>1, <2>3
  <2>5. ASSUME NEW k \in 1..n PROVE Char(str, k) # "\n"
    <3>1. k = 1 \/ k = 2 \/ k \in 3..e - 1
      BY <1>1, <2>1, <2>3
    <3>2. Char(str, 1) = "0" /\ Char(str, 2) = c
      BY <1>1, <2>2 DEF Char
    <3> QED
      BY <2>3, <3>1, <3>2, KindFacts
  <2> QED
    BY <2>4, <2>5
<1> QED
  BY <1>2, <1>3

LEMMA DecLengthFacts ==
  ASSUME NEW str \in Strings
  PROVE  /\ DecLength(str) \in 0..Len(str)
         /\ \A k \in 1..DecLength(str) : Char(str, k) \in Separated(Digits)
         /\ Char(str, 1) \in Digits => DecLength(str) > 0
<1> DEFINE e == RunEnd(str, 1, Separated(Digits))
<1>1. Len(str) \in Nat /\ 1 \in 1..Len(str) + 1
  BY DEF Strings
<1>2. /\ e \in 1..Len(str) + 1 /\ Char(str, e) \notin Separated(Digits)
      /\ \A k \in 1..e - 1 : Char(str, k) \in Separated(Digits)
  BY <1>1, KindFacts, RunEndFacts
<1>3. DecLength(str) = e - 1
  BY DEF DecLength
<1> HIDE DEF e
<1>4. Char(str, 1) \in Digits => e # 1
  BY <1>2, KindFacts
<1> QED
  BY <1>1, <1>2, <1>3, <1>4

LEMMA IntLengthFacts ==
  ASSUME NEW str \in Strings, Char(str, 1) \in Digits
  PROVE  /\ IntLength(str) \in 1..Len(str)
         /\ \A k \in 1..IntLength(str) : Char(str, k) # "\n"
<1> DEFINE a == Prefixed(str, <<"0", "x">>, HexDigits)
           b == Prefixed(str, <<"0", "o">>, {"0", "1", "2", "3", "4", "5", "6", "7"})
           c == Prefixed(str, <<"0", "b">>, {"0", "1"})
           d == DecLength(str)
           l == <<a, b, c, d>>
           Good(n) == n \in 0..Len(str) /\ \A k \in 1..n : Char(str, k) # "\n"
           P(k) == l[k] > 0 /\ \A j \in 1..k - 1 : l[j] = 0
<1>1. Good(a)
  BY PrefixedFacts, KindFacts
<1>2. Good(b)
  BY PrefixedFacts, KindFacts
<1>3. Good(c)
  BY PrefixedFacts, KindFacts
<1>4. Good(d) /\ d > 0
  BY DecLengthFacts, KindFacts
<1>5. IntLength(str) = l[CHOOSE k \in DOMAIN l : P(k)]
  BY DEF IntLength, FirstOf
<1> HIDE DEF a, b, c, d, Good
<1>6. DOMAIN l = 1..4 /\ l[1] = a /\ l[2] = b /\ l[3] = c /\ l[4] = d
  OBVIOUS
<1> HIDE DEF l
<1>7. \A k \in 1..4 : Good(l[k])
  <2>1. \A k \in 1..4 : k = 1 \/ k = 2 \/ k = 3 \/ k = 4
    OBVIOUS
  <2> QED
    BY <1>1, <1>2, <1>3, <1>4, <1>6, <2>1
<1>8. \E k \in DOMAIN l : P(k)
  <2>1. \A k \in 1..4 : l[k] \in Nat
    BY <1>7 DEF Good
  <2>2. \A j \in 1..0 : l[j] = 0
    OBVIOUS
  <2>3. CASE l[1] > 0
    <3>1. P(1)
      BY <2>3
    <3> QED
      BY <1>6, <3>1
  <2>4. CASE l[1] = 0 /\ l[2] > 0
    <3>1. P(2)
      BY <2>4
    <3> QED
      BY <1>6, <3>1
  <2>5. CASE l[1] = 0 /\ l[2] = 0 /\ l[3] > 0
    <3>1. P(3)
      BY <2>5
    <3> QED
      BY <1>6, <3>1
  <2>6. CASE l[1] = 0 /\ l[2] = 0 /\ l[3] = 0
    <3>1. P(4)
      BY <1>4, <1>6, <2>6
    <3> QED
      BY <1>6, <3>1
  <2>7. 1 \in 1..4 /\ 2 \in 1..4 /\ 3 \in 1..4
    OBVIOUS
  <2> QED
    BY <2>1, <2>3, <2>4, <2>5, <2>6, <2>7
<1>9. \E k \in DOMAIN l : IntLength(str) = l[k] /\ P(k)
  <2> HIDE DEF P
  <2> QED
    BY <1>5, <1>8
<1>10. Good(IntLength(str)) /\ IntLength(str) > 0
  BY <1>6, <1>7, <1>9
<1> QED
  BY <1>10 DEF Good

LEMMA FloatLengthFacts ==
  ASSUME NEW str \in Strings, FloatLength(str) > 0
  PROVE  /\ FloatLength(str) \in 1..Len(str)
         /\ \A k \in 1..FloatLength(str) - 1 : Char(str, k) # "\n"
<1> DEFINE d == DecLength(str)
           c == Char(str, d + 2)
           e == RunEnd(str, d + 2, Separated(Digits))
<1>1. /\ Len(str) \in Nat /\ d \in 0..Len(str)
      /\ \A k \in 1..d : Char(str, k) \in Separated(Digits)
  BY DecLengthFacts DEF Strings
<1>2. /\ Char(str, d + 1) = "." /\ c # NoChar
      /\ FloatLength(str) = IF c \in Digits THEN e - 1 ELSE d + 2
  BY DEF FloatLength
<1> HIDE DEF d
<1>3. d + 2 <= Len(str) /\ d + 2 \in 1..Len(str) + 1
  BY <1>1, <1>2 DEF Char
<1>4. /\ e \in d + 2..Len(str) + 1 /\ Char(str, e) \notin Separated(Digits)
      /\ \A k \in d + 2..e - 1 : Char(str, k) \in Separated(Digits)
  BY <1>3, KindFacts, RunEndFacts
<1>5. ASSUME NEW k \in 1..d + 1 PROVE Char(str, k) # "\n"
  <2>1. k = d + 1 \/ k \in 1..d
    BY <1>1
  <2> QED
    BY <1>1, <1>2, <2>1, KindFacts
<1> HIDE DEF e
<1>6. CASE c \in Digits
  <2>1. FloatLength(str) = e - 1 /\ e # d + 2
    BY <1>2, <1>4, <1>6, KindFacts
  <2>2. e - 1 \in 1..Len(str)
    BY <1>1, <1>4, <2>1
  <2>3. ASSUME NEW k \in 1..e - 1 - 1 PROVE Char(str, k) # "\n"
    <3>1. k \in 1..d + 1 \/ k \in d + 2..e - 1
      BY <1>1, <1>4
    <3> QED
      BY <1>4, <1>5, <3>1, KindFacts
  <2> QED
    BY <2>1, <2>2, <2>3
<1>7. CASE c \notin Digits
  <2>1. FloatLength(str) = d + 2
    BY <1>2, <1>7
  <2>2. d + 2 \in 1..Len(str) /\ (d + 2) - 1 = d + 1
    BY <1>1, <1>3
  <2>3. \A k \in 1..(d + 2) - 1 : Char(str, k) # "\n"
    BY <1>5, <2>2
  <2> QED
    BY <2>1, <2>2, <2>3
<1> QED
  BY <1>6, <1>7

LEMMA NumberFacts ==
  ASSUME text \in Strings, NEW p \in 1..Len(text), Char(text, p) \in Digits, Number(p)[2] # 0
  PROVE  /\ Number(p)[1] \in {"int", "float"} /\ Number(p)[2] \in Nat \ {0}
         /\ p + Number(p)[2] <= End
         /\ \A k \in p..p + (Number(p)[2] - 1) :
              Char(text, k) = "\n" => Number(p)[1] = "float" /\ k = p + (Number(p)[2] - 1)
<1> DEFINE str == Text(p, p + MaxLiteral)
           n == IntLength(str)
           f == FloatLength(str)
           suffix == {s \in IntSuffixes : StartsWith(str, n + 1, s)}
           Good(m) == m \in 1..Len(str) /\ \A k \in 1..m : Char(str, k) # "\n"
<1>1. /\ Len(text) \in Nat /\ MaxLiteral \in Nat \ {0} /\ p \in 1..Len(text) + 1
      /\ p + MaxLiteral \in Nat /\ p <= p + MaxLiteral
  BY LexerAssumption DEF Strings
<1>2. /\ str \in Strings
      /\ Len(str) = IF p + MaxLiteral - 1 <= Len(text) THEN p + MaxLiteral - p ELSE Len(text) + 1 - p
      /\ \A k \in 1..Len(str) : str[k] = text[p + k - 1]
  BY <1>1, SubFacts DEF Text
<1> HIDE DEF str
<1>3. Len(str) \in Nat \ {0} /\ p + Len(str) <= End
  BY <1>1, <1>2 DEF End
<1>4. \A k \in 1..Len(str) : Char(str, k) = Char(text, p + (k - 1))
  BY <1>1, <1>2, <1>3 DEF Char, End
<1>5. Char(str, 1) \in Digits
  <2>1. 1 \in 1..Len(str) /\ p + (1 - 1) = p
    BY <1>1, <1>3
  <2> QED
    BY <1>4, <2>1
<1>6. Good(n)
  BY <1>2, <1>5, IntLengthFacts
<1>7. f > 0 => f \in 1..Len(str) /\ \A k \in 1..f - 1 : Char(str, k) # "\n"
  BY <1>2, FloatLengthFacts
<1> HIDE DEF n, f
<1>8. ASSUME NEW s \in suffix PROVE Good(n + Len(s))
  <2>1. /\ s \in Seq(Letters \cup Digits) /\ StartsWith(str, n + 1, s) /\ n + 1 \in 1..Len(str) + 1
        /\ Len(s) \in Nat
    BY <1>3, <1>6, SuffixFacts
  <2>2. (n + 1) + Len(s) <= Len(str) + 1 /\ \A k \in 1..Len(s) : str[(n + 1) + k - 1] = s[k]
    BY <1>2, <2>1, StartsAt, SMTT(20)
  <2>3. n + Len(s) \in 1..Len(str)
    BY <1>3, <1>6, <2>1, <2>2
  <2>4. ASSUME NEW k \in 1..n + Len(s) PROVE Char(str, k) # "\n"
    <3>1. CASE k \in 1..n
      BY <1>6, <3>1
    <3>2. CASE k \notin 1..n
      <4>1. k - n \in 1..Len(s) /\ (n + 1) + (k - n) - 1 = k
        BY <1>6, <2>1, <3>2
      <4> DEFINE j == k - n
      <4>4. s[j] \in Letters \cup Digits
        BY <2>1, <4>1
      <4>5. str[(n + 1) + j - 1] = s[j]
        BY <2>2, <4>1
      <4>2. str[k] = s[j] /\ s[j] \in Letters \cup Digits
        BY <4>1, <4>4, <4>5
      <4>3. Char(str, k) = str[k]
        BY <1>3, <2>3 DEF Char
      <4> QED
        BY <4>2, <4>3, KindFacts
    <3> QED
      BY <3>1, <3>2
  <2> QED
    BY <2>3, <2>4
<1> HIDE DEF suffix
<1>9. \/ \E m : Number(p) = <<"int", m>> /\ Good(m)
      \/ Number(p) = <<"float", f>> /\ f > 0
  <2>1. CASE n >= MaxLiteral
    <3>1. Number(p) = <<"int", 0>>
      BY <2>1 DEF Number, str, n
    <3> QED
      BY <3>1
  <2>2. CASE ~(n >= MaxLiteral) /\ Char(text, p + n) = "."
    <3>1. Number(p) = IF f > 0 THEN <<"float", f>> ELSE <<"int", n>>
      BY <2>2 DEF Number, str, n, f
    <3> QED
      BY <1>6, <3>1
  <2>3. CASE ~(n >= MaxLiteral) /\ Char(text, p + n) # "."
    <3>1. Number(p) = <<"int", IF suffix = {} THEN n ELSE n + Len(CHOOSE s \in suffix : TRUE)>>
      BY <2>3 DEF Number, str, n, suffix
    <3>2. CASE suffix = {}
      BY <1>6, <3>1, <3>2
    <3>3. CASE suffix # {}
      <4>1. PICK s \in suffix : s = CHOOSE r \in suffix : TRUE
        BY <3>3
      <4>2. Number(p) = <<"int", n + Len(s)>>
        BY <3>1, <3>3, <4>1
      <4> QED
        BY <1>8, <4>2
    <3> QED
      BY <3>2, <3>3
  <2> QED
    BY <2>1, <2>2, <2>3
<1>10. ASSUME NEW m, Number(p) = <<"int", m>>, Good(m)
       PROVE  /\ Number(p)[1] \in {"int", "float"} /\ Number(p)[2] \in Nat \ {0}
              /\ p + Number(p)[2] <= End
              /\ \A k \in p..p + (Number(p)[2] - 1) :
                   Char(text, k) = "\n" => Number(p)[1] = "float" /\ k = p + (Number(p)[2] - 1)
  <2>1. Number(p)[1] = "int" /\ Number(p)[2] = m
    BY <1>10
  <2>2. m \in Nat \ {0} /\ p + m <= End
    BY <1>1, <1>3, <1>10 DEF End
  <2>3. ASSUME NEW k \in p..p + (m - 1) PROVE Char(text, k) # "\n"
    <3>1. k - p + 1 \in 1..m /\ k - p + 1 \in 1..Len(str) /\ p + ((k - p + 1) - 1) = k
      BY <1>1, <1>3, <1>10, <2>2, SMTT(20)
    <3> QED
      BY <1>4, <1>10, <3>1
  <2> QED
    BY <2>1, <2>2, <2>3
<1>11. ASSUME Number(p) = <<"float", f>>, f > 0
       PROVE  /\ Number(p)[1] \in {"int", "float"} /\ Number(p)[2] \in Nat \ {0}
              /\ p + Number(p)[2] <= End
              /\ \A k \in p..p + (Number(p)[2] - 1) :
                   Char(text, k) = "\n" => Number(p)[1] = "float" /\ k = p + (Number(p)[2] - 1)
  <2>1. Number(p)[1] = "float" /\ Number(p)[2] = f
    BY <1>11
  <2>2. f \in Nat \ {0} /\ p + f <= End
    BY <1>1, <1>3, <1>7, <1>11 DEF End
  <2>3. ASSUME NEW k \in p..p + (f - 1), k # p + (f - 1) PROVE Char(text, k) # "\n"
    <3>1. k - p + 1 \in 1..f - 1 /\ k - p + 1 \in 1..Len(str) /\ p + ((k - p + 1) - 1) = k
      BY <1>1, <1>3, <1>7, <1>11, <2>2, <2>3
    <3> QED
      BY <1>4, <1>7, <1>11, <3>1
  <2> QED
    BY <2>1, <2>2, <2>3
<1> QED
  BY <1>9, <1>10, <1>11

LEMMA WalkTyped ==
  ASSUME text \in Strings, NEW p \in 1..End, NEW q \in p..End, NEW place \in Nat \X Nat
  PROVE  Walk(p, q, place) \in Nat \X Nat
<1> DEFINE lines == {k \in p..q - 1 : Char(text, k) = "\n"}
           last == CHOOSE k \in lines : \A j \in lines : j <= k
<1>1. End \in Nat /\ p \in Nat /\ q \in Nat /\ lines \subseteq p..q - 1 /\ q - p \in Nat
  BY DEF End, Strings
<1>2. Walk(p, q, place) = IF lines = {} THEN <<place[1], place[2] + (q - p)>>
                          ELSE <<place[1] + Cardinality(lines), q - last>>
  BY DEF Walk
<1> HIDE DEF lines
<1>3. Cardinality(lines) \in Nat
  <2>1. IsFiniteSet(p..q - 1)
    BY <1>1, FS_Interval
  <2> QED
    BY <1>1, <2>1, FS_Subset, FS_CardinalityType
<1>4. lines # {} => last \in lines
  <2>1. lines \in SUBSET (0..q)
    BY <1>1
  <2>2. lines # {} => \E k \in lines : \A j \in lines : j <= k
    BY <1>1, <2>1, Greatest
  <2> QED
    BY <2>2
<1> HIDE DEF last
<1>5. lines # {} => q - last \in Nat
  <2>1. lines # {} => last \in p..q - 1
    BY <1>1, <1>4
  <2>2. \A m \in p..q - 1 : q - m \in Nat
    BY <1>1
  <2> QED
    BY <2>1, <2>2
<1>6. place[1] \in Nat /\ place[2] \in Nat
  OBVIOUS
<1>7. CASE lines = {}
  <2>1. Walk(p, q, place) = <<place[1], place[2] + (q - p)>>
    BY <1>2, <1>7
  <2> QED
    BY <1>1, <1>6, <2>1
<1>8. CASE lines # {}
  <2>1. Walk(p, q, place) = <<place[1] + Cardinality(lines), q - last>>
    BY <1>2, <1>8
  <2> QED
    BY <1>3, <1>5, <1>6, <1>8, <2>1
<1> QED
  BY <1>7, <1>8

-----------------------------------------------------------------------------
(* What a lexeme is, by its characters *)

\* A piece of a text, by its characters.
LEMMA SubSeqFacts ==
  ASSUME NEW s \in Strings, NEW a \in 1..Len(s) + 1, NEW b \in a - 1..Len(s)
  PROVE  LET u == SubSeq(s, a, b)
         IN /\ u \in Strings /\ Len(u) = b + 1 - a
            /\ \A k \in 1..b + 1 - a : u[k] = s[a + k - 1] /\ Char(u, k) = s[a + k - 1]
            /\ Char(u, b + 2 - a) = NoChar
<1> DEFINE u == SubSeq(s, a, b)
<1>1. Len(s) \in Nat /\ a \in Int /\ b \in Int /\ \A k \in 1..Len(s) : s[k] \in STRING
  BY DEF Strings
<1>2. \A k \in a..b : s[k] \in STRING
  BY <1>1
<1>3. /\ u \in Seq(STRING) /\ Len(u) = IF a <= b THEN b - a + 1 ELSE 0
      /\ \A k \in 1..b - a + 1 : u[k] = s[a + k - 1]
  BY <1>1, <1>2, SubSeqProperties
<1>4. Len(u) = b + 1 - a /\ b + 1 - a \in Nat /\ b - a + 1 = b + 1 - a
  BY <1>1, <1>3
<1> HIDE DEF u
<1>5. \A k \in 1..b + 1 - a : Char(u, k) = u[k]
  BY <1>4 DEF Char
<1>6. Char(u, b + 2 - a) = NoChar
  BY <1>4 DEF Char
<1>7. u \in Strings /\ \A k \in 1..b + 1 - a : u[k] = s[a + k - 1]
  BY <1>3, <1>4 DEF Strings
<1> QED
  BY <1>4, <1>5, <1>6, <1>7 DEF u

\* A piece of a piece that begins the text.
LEMMA PieceOfPrefix ==
  ASSUME NEW s \in Strings, NEW m \in 0..Len(s), NEW a \in 1..m + 1, NEW b \in a - 1..m
  PROVE  SubSeq(SubSeq(s, 1, m), a, b) = SubSeq(s, a, b)
<1> DEFINE u == SubSeq(s, 1, m)
           v == SubSeq(u, a, b)
           w == SubSeq(s, a, b)
<1>1. Len(s) \in Nat /\ m \in Nat /\ m <= Len(s) /\ 1 \in 1..Len(s) + 1 /\ m \in 1 - 1..Len(s)
      /\ m + 1 - 1 = m
  BY DEF Strings
<1>2. u \in Strings /\ Len(u) = m /\ \A k \in 1..m : u[k] = s[1 + k - 1]
  BY <1>1, SubSeqFacts
<1>3. a \in 1..Len(s) + 1 /\ b \in a - 1..Len(s)
  BY <1>1
<1>4. w \in Strings /\ Len(w) = b + 1 - a /\ \A k \in 1..b + 1 - a : w[k] = s[a + k - 1]
  BY <1>3, SubSeqFacts
<1>5. v \in Strings /\ Len(v) = b + 1 - a /\ \A k \in 1..b + 1 - a : v[k] = u[a + k - 1]
  <2> HIDE DEF u
  <2>1. a \in 1..Len(u) + 1 /\ b \in a - 1..Len(u)
    BY <1>2
  <2> QED
    BY <1>2, <2>1, SubSeqFacts
<1>6. ASSUME NEW k \in 1..b + 1 - a PROVE u[a + k - 1] = s[a + k - 1]
  <2>1. a + k - 1 \in 1..m /\ 1 + (a + k - 1) - 1 = a + k - 1
    BY <1>1
  <2> QED
    BY <1>2, <2>1
<1> HIDE DEF u, v, w
<1>7. v = w
  BY <1>4, <1>5, <1>6, SeqEqual DEF Strings
<1> QED
  BY <1>7 DEF u, v, w

\* Where a string stands in a prefix it stands in the text.
LEMMA StandsInPrefix ==
  ASSUME NEW s \in Strings, NEW m \in 0..Len(s), NEW a \in 1..m + 1, NEW T, NEW t \in Seq(T),
         a + Len(t) <= m + 1
  PROVE  StartsWith(SubSeq(s, 1, m), a, t) <=> StartsWith(s, a, t)
<1> DEFINE u == SubSeq(s, 1, m)
           n == Len(t)
<1>1. Len(s) \in Nat /\ m \in Nat /\ m <= Len(s) /\ n \in Nat /\ a + n <= m + 1
  BY DEF Strings
<1>2. Len(u) = m
  <2>1. 1 \in 1..Len(s) + 1 /\ m \in 1 - 1..Len(s) /\ m + 1 - 1 = m
    BY <1>1
  <2> QED
    BY <2>1, SubSeqFacts
<1> HIDE DEF n
<1>3. (a + n) - 1 \in a - 1..m /\ (a + n) - 1 <= m /\ (a + n) - 1 <= Len(s)
  BY <1>1
<1>4. SubSeq(u, a, (a + n) - 1) = SubSeq(s, a, (a + n) - 1)
  BY <1>3, PieceOfPrefix
<1> HIDE DEF u
<1>5. ASSUME NEW x, (a + n) - 1 <= Len(x) PROVE Sub(x, a, a + n) = SubSeq(x, a, (a + n) - 1)
  BY <1>5, Zenon DEF Sub
<1>6. Sub(u, a, a + n) = SubSeq(u, a, (a + n) - 1) /\ Sub(s, a, a + n) = SubSeq(s, a, (a + n) - 1)
  BY <1>2, <1>3, <1>5
<1> QED
  BY <1>4, <1>6 DEF StartsWith, n, u

\* A piece made of the characters S.
LEMMA OverPiece ==
  ASSUME NEW s \in Strings, NEW a \in 1..Len(s) + 1, NEW b \in a - 1..Len(s), NEW S
  PROVE  Over(SubSeq(s, a, b), S) <=> \A k \in a..b : Char(s, k) \in S
<1> DEFINE u == SubSeq(s, a, b)
           n == b + 1 - a
<1>1. Len(s) \in Nat /\ a \in Nat /\ b \in Int /\ b <= Len(s) /\ n \in Nat
  BY DEF Strings
<1>2. Len(u) = n /\ \A k \in 1..n : Char(u, k) = s[a + k - 1]
  BY SubSeqFacts
<1>3. \A j \in a..b : Char(s, j) = s[j]
  BY <1>1 DEF Char
<1> HIDE DEF u
<1>4. ASSUME Over(u, S), NEW j \in a..b PROVE Char(s, j) \in S
  <2> DEFINE k == j + 1 - a
  <2>1. k \in 1..n /\ a + k - 1 = j
    BY <1>1
  <2> HIDE DEF k, n
  <2> QED
    BY <1>2, <1>3, <1>4, <2>1 DEF Over
<1>5. ASSUME \A j \in a..b : Char(s, j) \in S, NEW k \in 1..n PROVE Char(u, k) \in S
  <2>1. a + k - 1 \in a..b
    BY <1>1
  <2> QED
    BY <1>2, <1>3, <1>5, <2>1
<1> QED
  BY <1>2, <1>4, <1>5 DEF Over, u

\* A piece that is a decimal integer.
LEMMA DigitsPiece ==
  ASSUME NEW s \in Strings, NEW a \in 1..Len(s) + 1, NEW b \in a - 1..Len(s)
  PROVE  IsDigits(SubSeq(s, a, b)) <=>
           a <= b /\ Char(s, a) \in Digits /\ \A k \in a..b : Char(s, k) \in Separated(Digits)
<1> DEFINE u == SubSeq(s, a, b)
<1>1. Len(s) \in Nat /\ a \in Nat /\ b \in Int /\ b <= Len(s) /\ a <= b + 1
  BY DEF Strings
<1>2. Over(u, Separated(Digits)) <=> \A k \in a..b : Char(s, k) \in Separated(Digits)
  BY OverPiece
<1>3. IsDigits(u) <=> Char(u, 1) \in Digits /\ Over(u, Separated(Digits))
  BY DEF IsDigits
<1>4. CASE a <= b
  <2>1. 1 \in 1..b + 1 - a /\ a + 1 - 1 = a
    BY <1>1, <1>4
  <2>2. Char(u, 1) = s[a + 1 - 1]
    BY <2>1, SubSeqFacts
  <2>3. Char(s, a) = s[a]
    BY <1>1, <1>4 DEF Char
  <2> HIDE DEF u
  <2>4. Char(u, 1) = Char(s, a)
    BY <2>1, <2>2, <2>3
  <2> QED
    BY <1>2, <1>3, <1>4, <2>4 DEF u
<1>5. CASE ~(a <= b)
  <2>1. b + 2 - a = 1
    BY <1>1, <1>5
  <2>2. Char(u, b + 2 - a) = NoChar
    BY SubSeqFacts
  <2> HIDE DEF u
  <2>3. Char(u, 1) \notin Digits
    BY <2>1, <2>2, KindFacts DEF Separated
  <2> QED
    BY <1>3, <1>5, <2>3 DEF u
<1> QED
  BY <1>4, <1>5

\* The digits of the integers that begin with "0" and c.
DigitsOf(c) ==
  IF c = "x" THEN HexDigits ELSE IF c = "o" THEN {"0", "1", "2", "3", "4", "5", "6", "7"} ELSE {"0", "1"}
Letter == {"x", "o", "b"}

\* No digit, prefix or point is taken for another.
LEMMA DigitsOfFacts ==
  /\ "." \notin Separated(Digits) /\ "." # NoChar /\ "0" \in Digits
  /\ \A x \in {"u", "i"} : x # "." /\ x \notin Separated(Digits)
  /\ \A c \in Letter : /\ c \notin Separated(Digits) /\ c # "." /\ c \notin {"u", "i"}
                       /\ NoChar \notin Separated(DigitsOf(c)) /\ "." \notin Separated(DigitsOf(c))
                       /\ \A x \in {"u", "i"} : x \notin Separated(DigitsOf(c))
<1>1. "." \notin Separated(Digits) /\ "." # NoChar /\ "0" \in Digits
  BY Zenon DEF Separated, Digits, NoChar
<1>2. "u" # "." /\ "i" # "." /\ "u" \notin Separated(Digits) /\ "i" \notin Separated(Digits)
  BY Zenon DEF Separated, Digits
<1>3. \A c \in Letter : c \notin Separated(Digits) /\ c # "." /\ c \notin {"u", "i"}
  BY Zenon DEF Letter, Separated, Digits
<1> DEFINE Clear(S) == \A x \in {"u", "i", ".", NoChar} : x \notin Separated(S)
<1>4. Clear(HexDigits)
  BY Zenon DEF Separated, HexDigits, Digits, NoChar
<1>5. Clear({"0", "1", "2", "3", "4", "5", "6", "7"})
  BY Zenon DEF Separated, NoChar
<1>6. Clear({"0", "1"})
  BY Zenon DEF Separated, NoChar
<1> HIDE DEF Clear
<1>7. \A c \in Letter : Clear(DigitsOf(c))
  BY <1>4, <1>5, <1>6 DEF DigitsOf
<1>8. \A c \in Letter : /\ NoChar \notin Separated(DigitsOf(c)) /\ "." \notin Separated(DigitsOf(c))
                        /\ \A x \in {"u", "i"} : x \notin Separated(DigitsOf(c))
  BY <1>7, Zenon DEF Clear
<1> QED
  BY <1>1, <1>2, <1>3, <1>8

\* IsInt, with the prefixes spelt by their letters.
LEMMA IntForms ==
  ASSUME NEW u
  PROVE  IsInt(u) <=> IsDigits(u) \/ \E c \in Letter : IsPrefixed(u, <<"0", c>>, DigitsOf(c))
<1>1. Digits \ {"8", "9"} = {"0", "1", "2", "3", "4", "5", "6", "7"}
  BY Zenon DEF Digits
<1>2. /\ DigitsOf("x") = HexDigits /\ DigitsOf("b") = {"0", "1"}
      /\ DigitsOf("o") = {"0", "1", "2", "3", "4", "5", "6", "7"}
  BY DEF DigitsOf
<1> HIDE DEF DigitsOf
<1>3. IsInt(u) <=> \/ IsDigits(u) \/ IsPrefixed(u, <<"0", "x">>, HexDigits)
                   \/ IsPrefixed(u, <<"0", "o">>, Digits \ {"8", "9"}) \/ IsPrefixed(u, <<"0", "b">>, {"0", "1"})
  <2> DEFINE F == {<<<<"0", "x">>, HexDigits>>, <<<<"0", "o">>, Digits \ {"8", "9"}>>, <<<<"0", "b">>, {"0", "1"}>>}
  <2>1. IsInt(u) <=> IsDigits(u) \/ \E f \in F : IsPrefixed(u, f[1], f[2])
    BY DEF IsInt
  <2> DEFINE P(f) == IsPrefixed(u, f[1], f[2])
             x == <<<<"0", "x">>, HexDigits>>
             o == <<<<"0", "o">>, Digits \ {"8", "9"}>>
             b == <<<<"0", "b">>, {"0", "1"}>>
  <2>2. /\ P(x) <=> IsPrefixed(u, <<"0", "x">>, HexDigits)
        /\ P(o) <=> IsPrefixed(u, <<"0", "o">>, Digits \ {"8", "9"})
        /\ P(b) <=> IsPrefixed(u, <<"0", "b">>, {"0", "1"})
    BY Zenon
  <2> HIDE DEF P
  <2>3. (\E f \in F : P(f)) <=> P(x) \/ P(o) \/ P(b)
    BY Zenon
  <2>4. (\E f \in F : IsPrefixed(u, f[1], f[2])) <=> \E f \in F : P(f)
    BY Zenon DEF P
  <2> QED
    BY <2>1, <2>2, <2>3, <2>4, Zenon
<1> QED
  BY <1>1, <1>2, <1>3, Zenon DEF Letter

\* A beginning of s that is an integer with a prefix.
LEMMA PrefixedPiece ==
  ASSUME NEW s \in Strings, NEW m \in 0..Len(s), NEW c, NEW S
  PROVE  IsPrefixed(SubSeq(s, 1, m), <<"0", c>>, S) <=>
           /\ 3 <= m /\ StartsWith(s, 1, <<"0", c>>)
           /\ \A k \in 3..m : Char(s, k) \in Separated(S)
           /\ \E k \in 3..m : Char(s, k) \in S
<1> DEFINE u == SubSeq(s, 1, m)
           p == <<"0", c>>
<1>1. Len(s) \in Nat /\ m \in Nat /\ m <= Len(s) /\ 1 \in 1..Len(s) + 1 /\ m \in 1 - 1..Len(s)
      /\ m + 1 - 1 = m
  BY DEF Strings
<1>2. u \in Strings /\ Len(u) = m /\ \A k \in 1..m : Char(u, k) = s[1 + k - 1]
  BY <1>1, SubSeqFacts
<1>3. \A k \in 1..m : Char(u, k) = Char(s, k)
  BY <1>1, <1>2 DEF Char
<1>4. p \in Seq({"0", c}) /\ Len(p) = 2
  OBVIOUS
<1>5. IsPrefixed(u, p, S) <=> /\ StartsWith(u, 1, p) /\ Over(SubSeq(u, 3, m), Separated(S))
                              /\ \E k \in 3..m : Char(u, k) \in S
  BY <1>2 DEF IsPrefixed
<1>6. (\E k \in 3..m : Char(u, k) \in S) <=> \E k \in 3..m : Char(s, k) \in S
  BY <1>1, <1>3
<1>7. CASE 3 <= m
  <2>1. 3 \in 1..m + 1 /\ m \in 3 - 1..m /\ 1 \in 1..m + 1 /\ 1 + 2 <= m + 1
    BY <1>1, <1>7
  <2>2. SubSeq(u, 3, m) = SubSeq(s, 3, m)
    BY <2>1, PieceOfPrefix
  <2>3. 3 \in 1..Len(s) + 1 /\ m \in 3 - 1..Len(s)
    BY <1>1, <1>7
  <2>4. Over(SubSeq(s, 3, m), Separated(S)) <=> \A k \in 3..m : Char(s, k) \in Separated(S)
    BY <2>3, OverPiece
  <2>5. StartsWith(u, 1, p) <=> StartsWith(s, 1, p)
    <3> HIDE DEF p
    <3> QED
      BY <1>4, <2>1, StandsInPrefix
  <2> HIDE DEF u, p
  <2>6. IsPrefixed(u, p, S) <=> /\ 3 <= m /\ StartsWith(s, 1, p)
                                /\ \A k \in 3..m : Char(s, k) \in Separated(S)
                                /\ \E k \in 3..m : Char(s, k) \in S
    BY <1>5, <1>6, <1>7, <2>2, <2>4, <2>5
  <2> QED
    BY <2>6 DEF u, p
<1>8. CASE ~(3 <= m)
  <2>1. 3..m = {}
    BY <1>1, <1>8
  <2> HIDE DEF u, p
  <2>2. ~IsPrefixed(u, p, S)
    BY <1>5, <2>1
  <2> QED
    BY <1>8, <2>2 DEF u, p
<1> QED
  BY <1>7, <1>8

\* The pattern for integers that begin with "0" and c matches the longest of them.
LEMMA PrefixedLongest ==
  ASSUME NEW s \in Strings, NEW c, NEW S, NoChar \notin Separated(S)
  PROVE  LET n == Prefixed(s, <<"0", c>>, S)
             P(m) == IsPrefixed(SubSeq(s, 1, m), <<"0", c>>, S)
         IN /\ n \in 0..Len(s)
            /\ n > 0 => /\ 3 <= n /\ P(n) /\ Char(s, 1) = "0" /\ Char(s, 2) = c
                        /\ \A k \in 3..n : Char(s, k) \in Separated(S)
            /\ \A m \in 0..Len(s) : P(m) => m <= n
<1> DEFINE e == RunEnd(s, 3, Separated(S))
           n == Prefixed(s, <<"0", c>>, S)
           Stands == StartsWith(s, 1, <<"0", c>>)
           P(m) == IsPrefixed(SubSeq(s, 1, m), <<"0", c>>, S)
<1>1. Len(s) \in Nat
  BY DEF Strings
<1>2. n = IF Stands /\ \E k \in 3..e - 1 : Char(s, k) \in S THEN e - 1 ELSE 0
  BY DEF Prefixed
<1>3. ASSUME NEW m \in 0..Len(s)
      PROVE  P(m) <=> /\ 3 <= m /\ Stands
                      /\ \A k \in 3..m : Char(s, k) \in Separated(S)
                      /\ \E k \in 3..m : Char(s, k) \in S
  BY PrefixedPiece
<1>4. Stands => 2 <= Len(s) /\ s[1] = "0" /\ s[2] = c
  <2>1. 1 \in 1..Len(s) + 1 /\ 1 + 1 = 2
    BY <1>1
  <2> QED
    BY <2>1, StartsWithPair
<1>5. Stands => /\ e \in 3..Len(s) + 1 /\ Char(s, e) \notin Separated(S)
                /\ \A k \in 3..e - 1 : Char(s, k) \in Separated(S)
  <2>1. Stands => 3 \in 1..Len(s) + 1
    BY <1>1, <1>4
  <2> QED
    BY <2>1, RunEndFacts
<1> HIDE DEF e, n, P, Stands
<1>6. CASE Stands /\ \E k \in 3..e - 1 : Char(s, k) \in S
  <2>1. n = e - 1 /\ e - 1 \in 0..Len(s) /\ 3 <= e - 1
    BY <1>1, <1>2, <1>5, <1>6
  <2>2. P(n)
    BY <1>3, <1>5, <1>6, <2>1
  <2>3. Char(s, 1) = "0" /\ Char(s, 2) = c
    BY <1>1, <1>4, <1>6 DEF Char
  <2>4. ASSUME NEW m \in 0..Len(s), P(m) PROVE m <= n
    <3>1. \A k \in 3..m : Char(s, k) \in Separated(S)
      BY <1>3, <2>4
    <3>2. e \notin 3..m
      BY <1>5, <1>6, <3>1
    <3> QED
      BY <1>1, <1>5, <1>6, <2>1, <3>2
  <2>5. n \in 0..Len(s) /\ 3 <= n /\ \A k \in 3..n : Char(s, k) \in Separated(S)
    BY <1>5, <1>6, <2>1
  <2> QED
    BY <2>2, <2>3, <2>4, <2>5 DEF P, n
<1>7. CASE ~(Stands /\ \E k \in 3..e - 1 : Char(s, k) \in S)
  <2>1. n = 0
    BY <1>2, <1>7
  <2>2. ASSUME NEW m \in 0..Len(s), P(m) PROVE FALSE
    <3>1. PICK k \in 3..m : Char(s, k) \in S
      BY <1>3, <2>2
    <3>2. Stands /\ \A j \in 3..m : Char(s, j) \in Separated(S)
      BY <1>3, <2>2
    <3>3. e \notin 3..m
      BY <1>5, <3>2
    <3>4. k \in 3..e - 1
      BY <1>1, <1>5, <3>2, <3>3
    <3> QED
      BY <1>7, <3>1, <3>2, <3>4
  <2> QED
    BY <1>1, <2>1, <2>2 DEF P, n
<1> QED
  BY <1>6, <1>7

\* The pattern for decimal integers matches the longest of them.
LEMMA DecimalLongest ==
  ASSUME NEW s \in Strings, Char(s, 1) \in Digits
  PROVE  LET d == DecLength(s)
         IN /\ d \in 1..Len(s) /\ IsDigits(SubSeq(s, 1, d))
            /\ \A k \in 1..d : Char(s, k) \in Separated(Digits)
            /\ Char(s, d + 1) \notin Separated(Digits)
            /\ \A m \in 0..Len(s) : IsDigits(SubSeq(s, 1, m)) => m <= d
<1> DEFINE e == RunEnd(s, 1, Separated(Digits))
           d == DecLength(s)
<1>1. Len(s) \in Nat /\ 1 \in 1..Len(s) + 1
  BY DEF Strings
<1>2. /\ e \in 1..Len(s) + 1 /\ Char(s, e) \notin Separated(Digits)
      /\ \A k \in 1..e - 1 : Char(s, k) \in Separated(Digits)
  BY <1>1, KindFacts, RunEndFacts
<1>3. d = e - 1
  BY DEF DecLength
<1>4. e # 1
  BY <1>2, KindFacts
<1> HIDE DEF e, d
<1>5. d \in 1..Len(s) /\ e = d + 1
  BY <1>1, <1>2, <1>3, <1>4
<1>6. ASSUME NEW m \in 0..Len(s)
      PROVE  IsDigits(SubSeq(s, 1, m)) <=> 1 <= m /\ \A k \in 1..m : Char(s, k) \in Separated(Digits)
  <2>1. m \in 1 - 1..Len(s)
    BY <1>1
  <2> QED
    BY <1>1, <2>1, DigitsPiece
<1>7. IsDigits(SubSeq(s, 1, d))
  BY <1>1, <1>2, <1>3, <1>5, <1>6
<1>8. ASSUME NEW m \in 0..Len(s), IsDigits(SubSeq(s, 1, m)) PROVE m <= d
  <2>1. e \notin 1..m
    BY <1>2, <1>6, <1>8
  <2> QED
    BY <1>1, <1>5, <2>1
<1> QED
  BY <1>2, <1>3, <1>5, <1>7, <1>8 DEF d

\* The pattern that wins is one for integers with a prefix, or none of them matches.
LEMMA IntLengthIs ==
  ASSUME NEW s \in Strings, Char(s, 1) \in Digits
  PROVE  \/ \E c \in Letter : IntLength(s) = Prefixed(s, <<"0", c>>, DigitsOf(c)) /\ IntLength(s) > 0
         \/ /\ \A c \in Letter : Prefixed(s, <<"0", c>>, DigitsOf(c)) = 0
            /\ IntLength(s) = DecLength(s)
<1> DEFINE a == Prefixed(s, <<"0", "x">>, HexDigits)
           o == Prefixed(s, <<"0", "o">>, {"0", "1", "2", "3", "4", "5", "6", "7"})
           b == Prefixed(s, <<"0", "b">>, {"0", "1"})
           d == DecLength(s)
           l == <<a, o, b, d>>
           P(k) == l[k] > 0 /\ \A j \in 1..k - 1 : l[j] = 0
<1>1. IntLength(s) = l[CHOOSE k \in DOMAIN l : P(k)]
  BY DEF IntLength, FirstOf
<1>2. /\ a = Prefixed(s, <<"0", "x">>, DigitsOf("x")) /\ o = Prefixed(s, <<"0", "o">>, DigitsOf("o"))
      /\ b = Prefixed(s, <<"0", "b">>, DigitsOf("b"))
  BY DEF DigitsOf
<1>3. d > 0 /\ d \in Nat
  BY DecimalLongest
<1>4. a \in Nat /\ o \in Nat /\ b \in Nat
  <2>1. \A c \in Letter : Prefixed(s, <<"0", c>>, DigitsOf(c)) \in Nat
    BY DigitsOfFacts, PrefixedLongest
  <2> QED
    BY <1>2, <2>1 DEF Letter
<1> HIDE DEF a, o, b, d
<1>5. DOMAIN l = 1..4 /\ l[1] = a /\ l[2] = o /\ l[3] = b /\ l[4] = d
  OBVIOUS
<1> HIDE DEF l
<1>6. \A j \in 1..3 : j = 1 \/ j = 2 \/ j = 3
  OBVIOUS
<1>7. \E k \in DOMAIN l : P(k)
  <2>1. CASE a > 0
    <3>1. P(1)
      BY <1>5, <2>1
    <3> QED
      BY <1>5, <3>1
  <2>2. CASE a = 0 /\ o > 0
    <3>1. P(2)
      BY <1>5, <2>2
    <3> QED
      BY <1>5, <3>1
  <2>3. CASE a = 0 /\ o = 0 /\ b > 0
    <3>1. P(3)
      BY <1>5, <2>3
    <3> QED
      BY <1>5, <3>1
  <2>4. CASE a = 0 /\ o = 0 /\ b = 0
    <3>1. P(4)
      BY <1>3, <1>5, <1>6, <2>4
    <3> QED
      BY <1>5, <3>1
  <2> QED
    BY <1>4, <2>1, <2>2, <2>3, <2>4
<1>8. PICK k \in 1..4 : IntLength(s) = l[k] /\ P(k)
  <2> HIDE DEF P
  <2> QED
    BY <1>1, <1>5, <1>7
<1>9. CASE k = 1
  <2>1. IntLength(s) = Prefixed(s, <<"0", "x">>, DigitsOf("x")) /\ IntLength(s) > 0
    BY <1>2, <1>5, <1>8, <1>9
  <2> QED
    BY <2>1 DEF Letter
<1>10. CASE k = 2
  <2>1. IntLength(s) = Prefixed(s, <<"0", "o">>, DigitsOf("o")) /\ IntLength(s) > 0
    BY <1>2, <1>5, <1>8, <1>10
  <2> QED
    BY <2>1 DEF Letter
<1>11. CASE k = 3
  <2>1. IntLength(s) = Prefixed(s, <<"0", "b">>, DigitsOf("b")) /\ IntLength(s) > 0
    BY <1>2, <1>5, <1>8, <1>11
  <2> QED
    BY <2>1 DEF Letter
<1>12. CASE k = 4
  <2>1. IntLength(s) = d /\ a = 0 /\ o = 0 /\ b = 0
    BY <1>5, <1>8, <1>12
  <2> QED
    BY <1>2, <2>1 DEF Letter, d
<1> QED
  BY <1>9, <1>10, <1>11, <1>12

\* The pattern for integers takes the longest one, and no shorter one is
\* followed by what may begin a suffix.
LEMMA IntLongest ==
  ASSUME NEW s \in Strings, Char(s, 1) \in Digits
  PROVE  LET n == IntLength(s)
             d == DecLength(s)
         IN /\ n \in 1..Len(s) /\ IsInt(SubSeq(s, 1, n))
            /\ \A m \in 0..Len(s) : IsInt(SubSeq(s, 1, m)) => m <= n /\ (m < n => Char(s, m + 1) \notin {"u", "i"})
            /\ n = d \/ (d = 1 /\ Char(s, 2) # "." /\ Char(s, 2) \notin Separated(Digits))
<1> DEFINE n == IntLength(s)
           d == DecLength(s)
           L(c) == Prefixed(s, <<"0", c>>, DigitsOf(c))
           P(c, m) == IsPrefixed(SubSeq(s, 1, m), <<"0", c>>, DigitsOf(c))
           D(m) == IsDigits(SubSeq(s, 1, m))
           I(m) == IsInt(SubSeq(s, 1, m))
           Follows(m) == m < n => Char(s, m + 1) \notin {"u", "i"}
<1>1. Len(s) \in Nat
  BY DEF Strings
<1>2. /\ d \in 1..Len(s) /\ D(d)
      /\ \A k \in 1..d : Char(s, k) \in Separated(Digits)
      /\ Char(s, d + 1) \notin Separated(Digits)
      /\ \A m \in 0..Len(s) : D(m) => m <= d
  BY DecimalLongest
<1>3. ASSUME NEW c \in Letter
      PROVE  /\ L(c) \in 0..Len(s)
             /\ L(c) > 0 => /\ 3 <= L(c) /\ P(c, L(c)) /\ Char(s, 2) = c
                            /\ \A k \in 3..L(c) : Char(s, k) \in Separated(DigitsOf(c))
             /\ \A m \in 0..Len(s) : P(c, m) => m <= L(c)
  <2>1. NoChar \notin Separated(DigitsOf(c))
    BY DigitsOfFacts
  <2> QED
    BY <2>1, PrefixedLongest
<1>4. ASSUME NEW c \in Letter, NEW m \in 0..Len(s), P(c, m)
      PROVE  3 <= m /\ Char(s, 2) = c
  <2>1. 3 <= m /\ StartsWith(s, 1, <<"0", c>>)
    BY <1>4, PrefixedPiece
  <2>2. 1 \in 1..Len(s) + 1 /\ 1 + 1 = 2
    BY <1>1
  <2>3. 2 <= Len(s) /\ s[2] = c
    BY <2>1, <2>2, StartsWithPair
  <2> QED
    BY <1>1, <2>1, <2>3 DEF Char
<1>5. \A m : I(m) <=> D(m) \/ \E c \in Letter : P(c, m)
  BY IntForms
<1>6. \/ \E c \in Letter : n = L(c) /\ n > 0
      \/ (\A c \in Letter : L(c) = 0) /\ n = d
  BY IntLengthIs
<1> HIDE DEF n, d, L, P, D, I
<1>7. ASSUME NEW c \in Letter, n = L(c), n > 0
      PROVE  /\ n \in 1..Len(s) /\ I(n) /\ d = 1 /\ Char(s, 2) # "." /\ Char(s, 2) \notin Separated(Digits)
             /\ \A m \in 0..Len(s) : I(m) => m <= n /\ Follows(m)
  <2>1. /\ n \in 1..Len(s) /\ 3 <= n /\ I(n) /\ Char(s, 2) = c
        /\ \A k \in 3..n : Char(s, k) \in Separated(DigitsOf(c))
    BY <1>1, <1>3, <1>5, <1>7
  <2>2. c \notin Separated(Digits) /\ c # "." /\ c \notin {"u", "i"}
    BY DigitsOfFacts
  <2>3. \A k \in 3..n : Char(s, k) \notin {"u", "i"}
    BY <2>1, DigitsOfFacts
  <2>4. 2 \notin 1..d
    BY <1>2, <2>1, <2>2
  <2>5. d = 1
    BY <1>1, <1>2, <2>4
  <2>6. ASSUME NEW m \in 0..Len(s), D(m) PROVE m <= n /\ Follows(m)
    <3>1. m = 0 \/ m = 1
      BY <1>1, <1>2, <2>5, <2>6
    <3>2. CASE m = 1
      <4>1. m + 1 = 2 /\ m <= n
        BY <2>1, <3>2
      <4> QED
        BY <2>1, <2>2, <4>1
    <3>3. CASE m = 0
      <4>1. m <= n /\ m + 1 = 1 /\ 1 \in 1..d
        BY <2>1, <2>5, <3>3
      <4>2. Char(s, m + 1) \in Separated(Digits)
        BY <1>2, <4>1
      <4> QED
        BY <4>1, <4>2, DigitsOfFacts
    <3> QED
      BY <3>1, <3>2, <3>3
  <2>7. ASSUME NEW m \in 0..Len(s), NEW b \in Letter, P(b, m) PROVE m <= n /\ Follows(m)
    <3>1. 3 <= m /\ b = c
      BY <1>4, <2>1, <2>7
    <3>2. m <= n
      BY <1>3, <1>7, <2>7, <3>1
    <3>3. m < n => m + 1 \in 3..n
      BY <1>1, <2>1, <3>1
    <3> QED
      BY <2>3, <3>2, <3>3
  <2> HIDE DEF Follows
  <2> QED
    BY <1>5, <2>1, <2>2, <2>5, <2>6, <2>7
<1>8. ASSUME \A c \in Letter : L(c) = 0, n = d
      PROVE  /\ n \in 1..Len(s) /\ I(n)
             /\ \A m \in 0..Len(s) : I(m) => m <= n /\ Follows(m)
  <2>1. \A m \in 0..Len(s), c \in Letter : ~P(c, m)
    <3>1. ASSUME NEW m \in 0..Len(s), NEW c \in Letter, P(c, m) PROVE FALSE
      <4>1. 3 <= m /\ m <= L(c) /\ L(c) = 0
        BY <1>3, <1>4, <1>8, <3>1
      <4> QED
        BY <1>1, <4>1
    <3> QED
      BY <3>1
  <2>2. ASSUME NEW m \in 0..Len(s), I(m) PROVE m <= n /\ Follows(m)
    <3>1. m <= n
      BY <1>2, <1>5, <1>8, <2>1, <2>2
    <3>2. m < n => m + 1 \in 1..d
      BY <1>1, <1>2, <1>8, <3>1
    <3> QED
      BY <1>2, <3>1, <3>2, DigitsOfFacts
  <2> HIDE DEF Follows
  <2> QED
    BY <1>2, <1>5, <1>8, <2>2
<1>9. n \in 1..Len(s) /\ I(n) /\ \A m \in 0..Len(s) : I(m) => m <= n /\ Follows(m)
  <2> HIDE DEF Follows
  <2> QED
    BY <1>6, <1>7, <1>8
<1>10. n = d \/ (d = 1 /\ Char(s, 2) # "." /\ Char(s, 2) \notin Separated(Digits))
  BY <1>6, <1>7
<1> QED
  BY <1>9, <1>10 DEF n, d, I

\* A float begins with the decimal integer and a point, and the pattern for
\* floats takes the longest one, unless it takes what is no digit.
LEMMA FloatLongest ==
  ASSUME NEW s \in Strings, Char(s, 1) \in Digits
  PROVE  LET d == DecLength(s)
             f == FloatLength(s)
         IN /\ f > 0 => /\ f \in 1..Len(s) /\ Char(s, d + 1) = "." /\ d < f
                        /\ Char(s, f) \in Separated(Digits) => IsFraction(SubSeq(s, 1, f))
            /\ \A m \in 1..Len(s) : IsFraction(SubSeq(s, 1, m)) => Char(s, d + 1) = "." /\ f > 0 /\ m <= f
<1> DEFINE d == DecLength(s)
           f == FloatLength(s)
           c == Char(s, d + 2)
           e == RunEnd(s, d + 2, Separated(Digits))
           Run(a, b) == \A k \in a..b : Char(s, k) \in Separated(Digits)
<1>1. Len(s) \in Nat
  BY DEF Strings
<1>2. d \in 1..Len(s) /\ Run(1, d) /\ Char(s, d + 1) \notin Separated(Digits)
  BY DecimalLongest
<1>3. f = IF Char(s, d + 1) # "." \/ c = NoChar \/ c = "." \/ c \in WordChars \ Digits THEN 0
          ELSE IF c \in Digits THEN e - 1 ELSE d + 2
  BY DEF FloatLength
<1>4. d + 2 <= Len(s) => /\ e \in d + 2..Len(s) + 1 /\ Char(s, e) \notin Separated(Digits)
                         /\ Run(d + 2, e - 1)
  <2>1. d + 2 <= Len(s) => d + 2 \in 1..Len(s) + 1
    BY <1>1, <1>2
  <2> QED
    BY <2>1, KindFacts, RunEndFacts
<1>5. c # NoChar => d + 2 <= Len(s)
  BY <1>1, <1>2 DEF Char
\* Floats of the language that begin s.
<1>6. ASSUME NEW m \in 1..Len(s)
      PROVE  IsFraction(SubSeq(s, 1, m)) <=>
               \E k \in 1..m : /\ Char(s, k) = "."
                               /\ 1 <= k - 1 /\ Run(1, k - 1)
                               /\ k + 1 <= m /\ Char(s, k + 1) \in Digits /\ Run(k + 1, m)
  <2> DEFINE u == SubSeq(s, 1, m)
  <2>1. u \in Strings /\ Len(u) = m /\ \A k \in 1..m : Char(u, k) = Char(s, k)
    <3>1. 1 \in 1..Len(s) + 1 /\ m \in 1 - 1..Len(s) /\ m + 1 - 1 = m
      BY <1>1
    <3>2. u \in Strings /\ Len(u) = m /\ \A k \in 1..m : Char(u, k) = s[1 + k - 1]
      BY <3>1, SubSeqFacts
    <3> QED
      BY <1>1, <3>2 DEF Char
  <2>2. ASSUME NEW k \in 1..m PROVE IsDigits(SubSeq(u, 1, k - 1)) <=> 1 <= k - 1 /\ Run(1, k - 1)
    <3>1. 1 \in 1..m + 1 /\ k - 1 \in 1 - 1..m /\ 1 \in 1..Len(s) + 1 /\ k - 1 \in 1 - 1..Len(s) /\ m \in 0..Len(s)
      BY <1>1
    <3>2. SubSeq(u, 1, k - 1) = SubSeq(s, 1, k - 1)
      BY <3>1, PieceOfPrefix
    <3> HIDE DEF u
    <3> QED
      BY <3>1, <3>2, DigitsPiece
  <2>3. ASSUME NEW k \in 1..m
        PROVE  IsDigits(SubSeq(u, k + 1, m)) <=> k + 1 <= m /\ Char(s, k + 1) \in Digits /\ Run(k + 1, m)
    <3>1. k + 1 \in 1..m + 1 /\ m \in (k + 1) - 1..m /\ k + 1 \in 1..Len(s) + 1 /\ m \in (k + 1) - 1..Len(s) /\ m \in 0..Len(s)
      BY <1>1
    <3>2. SubSeq(u, k + 1, m) = SubSeq(s, k + 1, m)
      BY <3>1, PieceOfPrefix
    <3> HIDE DEF u
    <3> QED
      BY <3>1, <3>2, DigitsPiece
  <2>4. IsFraction(u) <=> \E k \in 1..m : /\ Char(s, k) = "." /\ IsDigits(SubSeq(u, 1, k - 1))
                                       /\ IsDigits(SubSeq(u, k + 1, m))
    BY <2>1 DEF IsFraction
  <2> HIDE DEF u, Run
  <2>5. IsFraction(u) <=> \E k \in 1..m : /\ Char(s, k) = "." /\ 1 <= k - 1 /\ Run(1, k - 1)
                                       /\ k + 1 <= m /\ Char(s, k + 1) \in Digits /\ Run(k + 1, m)
    BY <2>2, <2>3, <2>4
  <2> QED
    BY <2>5 DEF u
<1> HIDE DEF d, f, c, e
<1>7. ASSUME f > 0
      PROVE  /\ f \in 1..Len(s) /\ Char(s, d + 1) = "." /\ d < f
             /\ Char(s, f) \in Separated(Digits) => IsFraction(SubSeq(s, 1, f))
  <2>1. /\ Char(s, d + 1) = "." /\ d + 2 <= Len(s) /\ c \notin WordChars \ Digits
        /\ f = IF c \in Digits THEN e - 1 ELSE d + 2
    BY <1>3, <1>5, <1>7
  <2>2. CASE c \in Digits
    <3>1. e # d + 2
      BY <1>4, <2>1, <2>2, KindFacts DEF c
    <3>2. f = e - 1 /\ f \in 1..Len(s) /\ d + 2 <= f
      BY <1>1, <1>2, <1>4, <2>1, <2>2, <3>1
    <3>3. d + 1 \in 1..f /\ (d + 1) - 1 = d /\ (d + 1) + 1 = d + 2
      BY <1>2, <3>2
    <3>4. Char(s, d + 2) \in Digits /\ Run(d + 2, f)
      BY <1>4, <2>1, <2>2, <3>2 DEF c
    <3>5. IsFraction(SubSeq(s, 1, f))
      <4> HIDE DEF Run
      <4>1. \E k \in 1..f : /\ Char(s, k) = "." /\ 1 <= k - 1 /\ Run(1, k - 1)
                            /\ k + 1 <= f /\ Char(s, k + 1) \in Digits /\ Run(k + 1, f)
        <5>1. 1 <= d
          BY <1>2
        <5> QED
          BY <1>2, <2>1, <3>2, <3>3, <3>4, <5>1
      <4> QED
        BY <1>6, <3>2, <4>1
    <3> QED
      BY <1>1, <1>2, <2>1, <3>2, <3>5
  <2>3. CASE c \notin Digits
    <3>1. f = d + 2 /\ f \in 1..Len(s) /\ d < f
      BY <1>1, <1>2, <2>1, <2>3
    <3>2. c \notin Separated(Digits)
      BY <2>1, <2>3, Zenon DEF WordChars, Separated
    <3> QED
      BY <2>1, <3>1, <3>2 DEF c
  <2> QED
    BY <2>2, <2>3
<1>8. ASSUME NEW m \in 1..Len(s), IsFraction(SubSeq(s, 1, m))
      PROVE  Char(s, d + 1) = "." /\ f > 0 /\ m <= f
  <2>1. PICK k \in 1..m : /\ Char(s, k) = "."
                          /\ 1 <= k - 1 /\ Run(1, k - 1)
                          /\ k + 1 <= m /\ Char(s, k + 1) \in Digits /\ Run(k + 1, m)
    <3> HIDE DEF Run
    <3> QED
      BY <1>6, <1>8
  <2>2. k = d + 1
    <3>1. k \notin 1..d
      BY <1>2, <2>1, DigitsOfFacts
    <3>2. d + 1 \notin 1..k - 1
      BY <1>2, <2>1
    <3> QED
      BY <1>1, <1>2, <2>1, <3>1, <3>2
  <2>3. Char(s, d + 1) = "." /\ c \in Digits /\ d + 2 <= m /\ Run(d + 2, m)
    <3>1. k + 1 = d + 2
      BY <1>2, <2>2
    <3> QED
      BY <2>1, <2>2, <3>1 DEF c
  <2>4. c # NoChar /\ c # "." /\ c \notin WordChars \ Digits
    <3>1. c \in Separated(Digits)
      BY <2>3, KindFacts
    <3> QED
      BY <2>3, <3>1, KindFacts, DigitsOfFacts
  <2>5. f = e - 1
    BY <1>3, <2>3, <2>4
  <2>6. e \in d + 2..Len(s) + 1 /\ Char(s, e) \notin Separated(Digits)
    BY <1>4, <1>5, <2>4
  <2>7. e \notin d + 2..m
    BY <2>3, <2>6
  <2> QED
    BY <1>1, <1>2, <2>3, <2>5, <2>6, <2>7
<1> QED
  BY <1>7, <1>8 DEF d, f

\* The lexemes other than floats with a suffix.
Plain(u) ==
  \/ \E k \in DOMAIN Branches(Char(u, 1)) : u = Branches(Char(u, 1))[k]
  \/ Char(u, 1) \in Letters \cup {"_"} /\ Over(u, WordChars)
  \/ IsInt(u) \/ IsFraction(u)
  \/ \E x \in IntSuffixes : Len(u) > Len(x) /\ StartsWith(u, Len(u) - Len(x) + 1, x)
                            /\ IsInt(SubSeq(u, 1, Len(u) - Len(x)))

LEMMA LexemeForms == \A u : IsLexeme(u) <=> Plain(u) \/ IsTypedFloat(u)
BY Zenon DEF IsLexeme, IsFloat, Plain

\* What begins with a digit is such a lexeme when it is an integer, a float or an
\* integer and its suffix.
LEMMA NumberForms ==
  ASSUME NEW u, Char(u, 1) \in Digits
  PROVE  Plain(u) <=> \/ IsInt(u) \/ IsFraction(u)
                         \/ \E x \in IntSuffixes : /\ Len(u) > Len(x) /\ StartsWith(u, Len(u) - Len(x) + 1, x)
                                                   /\ IsInt(SubSeq(u, 1, Len(u) - Len(x)))
<1>1. DOMAIN Branches(Char(u, 1)) = {}
  BY BranchFacts, MarkCharFacts
<1>2. Char(u, 1) \notin Letters \cup {"_"}
  <2>1. \A c \in Digits : c \notin Letters \cup {"_"}
    BY ZenonT(30) DEF Digits, Letters, HexDigits
  <2> QED
    BY <2>1
<1> QED
  BY <1>1, <1>2, Zenon DEF Plain

\* The first m characters of s are an integer and the suffix x.
Suffixed(s, m, x) ==
  m > Len(x) /\ StartsWith(s, m - Len(x) + 1, x) /\ IsInt(SubSeq(s, 1, m - Len(x)))

\* An integer and its suffix, in a beginning of s and in s.
LEMMA SuffixedPiece ==
  ASSUME NEW s \in Strings, NEW m \in 1..Len(s), NEW x \in IntSuffixes
  PROVE  Suffixed(SubSeq(s, 1, m), m, x) <=> Suffixed(s, m, x)
<1> DEFINE u == SubSeq(s, 1, m)
           n == Len(x)
<1>1. Len(s) \in Nat /\ m \in 0..Len(s)
  BY DEF Strings
<1>2. x \in Seq(Letters \cup Digits) /\ n \in 2..5
  BY SuffixFacts
<1>3. CASE m > n
  <2> HIDE DEF n
  <2>1. /\ m - n + 1 \in 1..m + 1 /\ (m - n + 1) + n <= m + 1
        /\ 1 \in 1..m + 1 /\ m - n \in 1 - 1..m
    BY <1>1, <1>2, <1>3
  <2>2. StartsWith(u, m - n + 1, x) <=> StartsWith(s, m - n + 1, x)
    BY <1>1, <1>2, <2>1, StandsInPrefix DEF n
  <2>3. SubSeq(u, 1, m - n) = SubSeq(s, 1, m - n)
    BY <1>1, <2>1, PieceOfPrefix
  <2> HIDE DEF u
  <2> QED
    BY <2>2, <2>3 DEF Suffixed, n, u
<1>4. CASE ~(m > n)
  BY <1>4 DEF Suffixed
<1> QED
  BY <1>3, <1>4

\* The lexemes without a float suffix that a text with a digit at its start begins with.
LEMMA NumberPieces ==
  ASSUME NEW s \in Strings, Char(s, 1) \in Digits, NEW m \in 1..Len(s)
  PROVE  LET u == SubSeq(s, 1, m)
         IN Plain(u) <=> IsInt(u) \/ IsFraction(u) \/ \E x \in IntSuffixes : Suffixed(s, m, x)
<1> DEFINE u == SubSeq(s, 1, m)
<1>1. Len(s) \in Nat /\ 1 \in 1..Len(s) + 1 /\ m \in 1 - 1..Len(s) /\ m + 1 - 1 = m /\ 1 \in 1..m
      /\ 1 + 1 - 1 = 1
  BY DEF Strings
<1>2. Len(u) = m /\ Char(u, 1) = s[1]
  BY <1>1, SubSeqFacts
<1>3. Char(u, 1) \in Digits
  <2>1. 1 <= Len(s)
    BY <1>1
  <2>2. Char(s, 1) = s[1]
    BY <2>1 DEF Char
  <2> QED
    BY <1>2, <2>2
<1>4. \A x \in IntSuffixes : Suffixed(u, m, x) <=> Suffixed(s, m, x)
  BY SuffixedPiece
<1> HIDE DEF u
<1>5. Plain(u) <=> \/ IsInt(u) \/ IsFraction(u)
                      \/ \E x \in IntSuffixes : Suffixed(u, m, x)
  BY <1>2, <1>3, NumberForms DEF Suffixed
<1>6. Plain(u) <=> IsInt(u) \/ IsFraction(u) \/ \E x \in IntSuffixes : Suffixed(s, m, x)
  BY <1>4, <1>5
<1> QED
  BY <1>6 DEF u

\* No longer lexeme without a float suffix begins s than its first m characters.
Longest(s, m) == /\ m \in 1..Len(s) /\ Plain(SubSeq(s, 1, m))
                 /\ \A r \in m + 1..Len(s) : ~Plain(SubSeq(s, 1, r))
FitSuffixes(s) == {x \in IntSuffixes : StartsWith(s, IntLength(s) + 1, x)}

\* The rules of Number take the longest of these, whichever of them applies.
LEMMA NumberLongest ==
  ASSUME NEW s \in Strings, Char(s, 1) \in Digits
  PROVE  LET n == IntLength(s)
             f == FloatLength(s)
         IN IF Char(s, n + 1) = "."
            THEN IF f > 0 THEN Char(s, f) \in Separated(Digits) => Longest(s, f) ELSE Longest(s, n)
            ELSE /\ FitSuffixes(s) = {} => Longest(s, n)
                 /\ \A x \in FitSuffixes(s) : Longest(s, n + Len(x))
<1> DEFINE n == IntLength(s)
           f == FloatLength(s)
           d == DecLength(s)
           I(m) == IsInt(SubSeq(s, 1, m))
           F(m) == IsFraction(SubSeq(s, 1, m))
           L(m) == Plain(SubSeq(s, 1, m))
<1>1. Len(s) \in Nat
  BY DEF Strings
<1>2. /\ n \in 1..Len(s) /\ I(n)
      /\ \A m \in 0..Len(s) : I(m) => m <= n /\ (m < n => Char(s, m + 1) \notin {"u", "i"})
      /\ n = d \/ (d = 1 /\ Char(s, 2) # "." /\ Char(s, 2) \notin Separated(Digits))
  BY IntLongest
<1>3. /\ f > 0 => /\ f \in 1..Len(s) /\ Char(s, d + 1) = "." /\ d < f
                  /\ Char(s, f) \in Separated(Digits) => F(f)
      /\ \A m \in 1..Len(s) : F(m) => Char(s, d + 1) = "." /\ f > 0 /\ m <= f
  BY FloatLongest
<1>4. d \in 1..Len(s)
  BY DecimalLongest
<1>5. \A m \in 1..Len(s) : L(m) <=> I(m) \/ F(m) \/ \E x \in IntSuffixes : Suffixed(s, m, x)
  BY NumberPieces
<1>6. \A x \in FitSuffixes(s) : x \in IntSuffixes /\ StartsWith(s, n + 1, x)
  BY DEF FitSuffixes
<1> HIDE DEF n, f, d, F, L
<1>7. Char(s, d + 1) = "." => n = d
  BY <1>2, <1>4
\* Where a suffix stands after an integer, the integer is the longest.
<1>8. ASSUME NEW m \in 1..Len(s), NEW x \in IntSuffixes, Suffixed(s, m, x)
      PROVE  m = n + Len(x) /\ x \in FitSuffixes(s) /\ Char(s, n + 1) # "."
  <2> DEFINE k == m - Len(x)
  <2>1. x \in Seq(Letters \cup Digits) /\ Len(x) \in 2..5 /\ x[1] \in {"u", "i"}
    BY SuffixFacts
  <2>2. m > Len(x) /\ StartsWith(s, k + 1, x) /\ I(k)
    BY <1>8 DEF Suffixed
  <2> HIDE DEF I
  <2>3. k \in 0..Len(s) /\ k + 1 \in 1..Len(s) + 1 /\ k + 1 <= Len(s) /\ m = k + Len(x)
    BY <1>1, <2>1, <2>2
  <2> HIDE DEF k
  <2>4. s[(k + 1) + 1 - 1] = x[1]
    <3>1. 1 \in 1..Len(x)
      BY <2>1
    <3> QED
      BY <2>1, <2>2, <2>3, <3>1, StartsAt
  <2>5. Char(s, k + 1) = x[1]
    <3>1. (k + 1) + 1 - 1 = k + 1
      BY <2>3
    <3> QED
      BY <2>3, <2>4, <3>1 DEF Char
  <2>6. k <= n /\ ~(k < n)
    BY <1>2, <2>1, <2>2, <2>3, <2>5
  <2>7. k = n
    BY <1>2, <2>3, <2>6
  <2>8. Char(s, n + 1) # "."
    BY <2>1, <2>5, <2>7, DigitsOfFacts
  <2> QED
    BY <2>2, <2>3, <2>7, <2>8 DEF FitSuffixes, n
<1>9. \A r \in n + 1..Len(s) : r \in 1..Len(s) /\ r \in 0..Len(s) /\ ~(r <= n)
  BY <1>1, <1>2
<1>10. ASSUME NEW r \in n + 1..Len(s), L(r)
       PROVE  F(r) \/ \E x \in IntSuffixes : Suffixed(s, r, x)
  BY <1>2, <1>5, <1>9, <1>10
<1>11. L(n)
  BY <1>2, <1>5
<1>12. CASE Char(s, n + 1) = "." /\ f > 0
  <2> SUFFICES ASSUME Char(s, f) \in Separated(Digits) PROVE Longest(s, f)
    BY <1>12 DEF n, f
  <2>1. n = d /\ f \in 1..Len(s) /\ d < f /\ F(f)
    BY <1>3, <1>7, <1>12
  <2>2. L(f)
    BY <1>5, <2>1
  <2>3. ASSUME NEW r \in f + 1..Len(s), L(r) PROVE FALSE
    <3>1. r \in n + 1..Len(s) /\ r \in 1..Len(s) /\ ~(r <= f)
      BY <1>1, <1>2, <2>1
    <3>2. ~F(r)
      BY <1>3, <3>1
    <3>3. PICK x \in IntSuffixes : Suffixed(s, r, x)
      BY <1>10, <2>3, <3>1, <3>2
    <3> QED
      BY <1>8, <1>12, <3>1, <3>3
  <2> QED
    BY <2>1, <2>2, <2>3 DEF Longest, L
<1>13. CASE Char(s, n + 1) = "." /\ ~(f > 0)
  <2>1. ASSUME NEW r \in n + 1..Len(s), L(r) PROVE FALSE
    <3>1. ~F(r)
      BY <1>3, <1>9, <1>13
    <3>2. PICK x \in IntSuffixes : Suffixed(s, r, x)
      BY <1>10, <2>1, <3>1
    <3> QED
      BY <1>8, <1>9, <1>13, <3>2
  <2>2. Longest(s, n)
    BY <1>2, <1>11, <2>1 DEF Longest, L
  <2> QED
    BY <1>13, <2>2 DEF n, f
<1>14. CASE Char(s, n + 1) # "."
  <2>1. ASSUME NEW r \in 1..Len(s), F(r) PROVE FALSE
    BY <1>3, <1>7, <1>14, <2>1
  <2>2. ASSUME FitSuffixes(s) = {} PROVE Longest(s, n)
    <3>1. ASSUME NEW r \in n + 1..Len(s), L(r) PROVE FALSE
      BY <1>8, <1>9, <1>10, <2>1, <2>2, <3>1
    <3> QED
      BY <1>2, <1>11, <3>1 DEF Longest, L
  <2>3. ASSUME NEW x \in FitSuffixes(s) PROVE Longest(s, n + Len(x))
    <3> DEFINE m == n + Len(x)
    <3>1. x \in IntSuffixes /\ StartsWith(s, n + 1, x)
      BY <1>6
    <3>2. x \in Seq(Letters \cup Digits) /\ Len(x) \in 2..5
      BY <3>1, SuffixFacts
    <3>3. (n + 1) + Len(x) <= Len(s) + 1 /\ \A k \in 1..Len(x) : s[(n + 1) + k - 1] = x[k]
      <4>1. n + 1 \in 1..Len(s) + 1
        BY <1>1, <1>2
      <4> QED
        BY <3>1, <3>2, <4>1, StartsAt
    <3>4. m \in 1..Len(s) /\ m - Len(x) = n /\ m > Len(x) /\ m > n
      <4>1. \A l \in 2..5 : (n + 1) + l <= Len(s) + 1 =>
              n + l \in 1..Len(s) /\ (n + l) - l = n /\ n + l > l /\ n + l > n
        BY <1>1, <1>2
      <4> QED
        BY <3>2, <3>3, <4>1
    <3>5. L(m)
      <4>1. Suffixed(s, m, x)
        <5> HIDE DEF m
        <5> QED
          BY <1>2, <3>1, <3>4 DEF Suffixed
      <4> QED
        BY <1>5, <3>1, <3>4, <4>1
    <3>6. ASSUME NEW r \in m + 1..Len(s), L(r) PROVE FALSE
      <4>1. r \in n + 1..Len(s) /\ r \in 1..Len(s) /\ r # m
        BY <1>1, <1>2, <3>4
      <4>2. PICK y \in IntSuffixes : Suffixed(s, r, y)
        BY <1>10, <2>1, <3>6, <4>1
      <4>3. r = n + Len(y) /\ y \in FitSuffixes(s)
        BY <1>8, <4>1, <4>2
      <4>4. StartsWith(s, n + 1, y) /\ y \in Seq(Letters \cup Digits) /\ Len(y) \in 2..5
        BY <1>6, <4>3, SuffixFacts
      <4>5. \A k \in 1..Len(y) : s[(n + 1) + k - 1] = y[k]
        <5>1. n + 1 \in 1..Len(s) + 1
          BY <1>1, <1>2
        <5> QED
          BY <4>4, <5>1, StartsAt
      <4>6. 1 \in 1..Len(x) /\ 2 \in 1..Len(x) /\ 1 \in 1..Len(y) /\ 2 \in 1..Len(y)
        <5>1. \A l \in 2..5 : 1 \in 1..l /\ 2 \in 1..l
          OBVIOUS
        <5> QED
          BY <3>2, <4>4, <5>1
      <4>7. x[1] = y[1] /\ x[2] = y[2]
        BY <3>3, <4>5, <4>6
      <4>8. x = y
        BY <3>1, <4>2, <4>7, SuffixFacts
      <4> QED
        BY <4>1, <4>3, <4>8
    <3> QED
      BY <3>4, <3>5, <3>6 DEF Longest, L
  <2> QED
    BY <1>14, <2>2, <2>3 DEF n
<1> QED
  BY <1>12, <1>13, <1>14 DEF n, f

\* Decimal digits, or those around a point.
LEMMA FractionChars ==
  ASSUME NEW s \in Strings, NEW n \in 1..Len(s),
         IsDigits(SubSeq(s, 1, n)) \/ IsFraction(SubSeq(s, 1, n))
  PROVE  Char(s, 1) \in Digits /\ \A k \in 1..n : Char(s, k) \in Separated(Digits) \cup {"."}
<1> DEFINE v == SubSeq(s, 1, n)
<1>1. Len(s) \in Nat /\ 1 \in 1..Len(s) + 1 /\ n \in 1 - 1..Len(s) /\ n + 1 - 1 = n /\ 1 \in 1..n + 1
      /\ n \in 0..Len(s)
  BY DEF Strings
<1>2. v \in Strings /\ Len(v) = n /\ \A k \in 1..n : Char(v, k) = s[1 + k - 1]
  BY <1>1, SubSeqFacts
<1>3. \A k \in 1..n : Char(v, k) = Char(s, k)
  <2>1. \A k \in 1..n : 1 + k - 1 = k /\ k <= Len(s)
    BY <1>1
  <2> QED
    BY <1>2, <2>1 DEF Char
<1>4. CASE IsDigits(v)
  <2>1. Char(s, 1) \in Digits /\ \A k \in 1..n : Char(s, k) \in Separated(Digits)
    BY <1>1, <1>4, DigitsPiece
  <2> QED
    BY <2>1
<1>5. CASE IsFraction(v)
  <2>1. PICK j \in 1..n : /\ Char(v, j) = "." /\ IsDigits(SubSeq(v, 1, j - 1))
                          /\ IsDigits(SubSeq(v, j + 1, n))
    BY <1>2, <1>5 DEF IsFraction
  <2> HIDE DEF v
  <2>2. j - 1 \in 1 - 1..Len(s) /\ j + 1 \in 1..Len(s) + 1 /\ n \in (j + 1) - 1..Len(s)
        /\ j - 1 \in 1 - 1..n /\ j + 1 \in 1..n + 1 /\ n \in (j + 1) - 1..n
    BY <1>1
  <2>3. SubSeq(v, 1, j - 1) = SubSeq(s, 1, j - 1) /\ SubSeq(v, j + 1, n) = SubSeq(s, j + 1, n)
    BY <1>1, <2>2, PieceOfPrefix DEF v
  <2>4. Char(s, 1) \in Digits /\ \A k \in 1..j - 1 : Char(s, k) \in Separated(Digits)
    BY <1>1, <2>1, <2>2, <2>3, DigitsPiece
  <2>5. \A k \in j + 1..n : Char(s, k) \in Separated(Digits)
    BY <1>1, <2>1, <2>2, <2>3, DigitsPiece
  <2>6. \A k \in 1..n : k \in 1..j - 1 \/ k = j \/ k \in j + 1..n
    BY <1>1
  <2> QED
    BY <1>3, <2>1, <2>4, <2>5, <2>6
<1> QED
  BY <1>4, <1>5

\* Digits and points, then an "f", in an integer: it has a prefix, and the "f"
\* comes after what belongs to no decimal number.
LEMMA NoIntOver ==
  ASSUME NEW s \in Strings, NEW n \in 1..Len(s) - 1, Char(s, n + 1) = "f",
         \A k \in 1..n : Char(s, k) \in Separated(Digits) \cup {"."},
         NEW m \in n + 1..Len(s), IsInt(SubSeq(s, 1, m))
  PROVE  FALSE
<1>1. Len(s) \in Nat /\ m \in 0..Len(s) /\ m \in 1 - 1..Len(s) /\ 1 \in 1..Len(s) + 1 /\ n + 1 \in 1..m
  BY DEF Strings
<1>2. "f" \notin Separated(Digits) /\ "f" \notin Letter
  BY Zenon DEF Separated, Digits, Letter
<1>3. ~IsDigits(SubSeq(s, 1, m))
  BY <1>1, <1>2, DigitsPiece
<1>4. PICK c \in Letter : IsPrefixed(SubSeq(s, 1, m), <<"0", c>>, DigitsOf(c))
  BY <1>3, IntForms
<1>5. StartsWith(s, 1, <<"0", c>>)
  BY <1>1, <1>4, PrefixedPiece
<1>6. 1 + 1 <= Len(s) /\ s[1 + 1] = c
  BY <1>1, <1>5, StartsWithPair
<1>7. Char(s, 2) = c
  BY <1>1, <1>6 DEF Char
<1>8. c \notin Separated(Digits) \cup {"."}
  BY DigitsOfFacts
<1>9. n = 1 \/ 2 \in 1..n
  BY <1>1
<1> QED
  BY <1>2, <1>7, <1>8, <1>9

\* A float with a suffix leaves out nothing else that Number takes.
LEMMA TypedLongest ==
  ASSUME NEW s \in Strings, Char(s, 1) \in Digits, NEW m, Longest(s, m),
         NEW r \in m + 1..Len(s), IsTypedFloat(SubSeq(s, 1, r))
  PROVE  r = m + 3
<1> DEFINE u == SubSeq(s, 1, r)
           n == r - 3
           D == Separated(Digits) \cup {"."}
<1>1. Len(s) \in Nat /\ m \in 1..Len(s) /\ m \in Nat /\ r \in 1..Len(s) /\ r \in 0..Len(s)
      /\ 1 \in 1..Len(s) + 1 /\ r \in 1 - 1..Len(s) /\ r + 1 - 1 = r
  BY DEF Strings, Longest
<1>2. u \in Strings /\ Len(u) = r
  BY <1>1, SubSeqFacts
<1>3. PICK x \in FloatSuffixes : n > 0 /\ StartsWith(u, n + 1, x)
  BY <1>2 DEF IsTypedFloat
<1>4. IsDigits(SubSeq(u, 1, n)) \/ IsFraction(SubSeq(u, 1, n))
  BY <1>2 DEF IsTypedFloat
<1> HIDE DEF u
<1>5. n \in 1..Len(s) /\ n \in 1..Len(s) - 1 /\ n + 1 \in 1..r + 1 /\ (n + 1) + 3 <= r + 1
      /\ n \in 1 - 1..r /\ 1 \in 1..r + 1 /\ n + 1 <= Len(s) /\ (n + 1) + 1 - 1 = n + 1
      /\ n + 1 \in 1..Len(s) + 1
  BY <1>1, <1>3
<1>6. SubSeq(u, 1, n) = SubSeq(s, 1, n)
  BY <1>1, <1>5, PieceOfPrefix DEF u
<1>7. Char(s, n + 1) = "f"
  <2>1. x \in Seq({"f", "3", "2", "6", "4"}) /\ Len(x) = 3 /\ x[1] = "f"
    <3> DEFINE F == {"f", "3", "2", "6", "4"}
    <3>1. "f" \in F /\ "3" \in F /\ "2" \in F /\ "6" \in F /\ "4" \in F
      BY Zenon
    <3> HIDE DEF F
    <3>2. \A a, b, c \in F : <<a, b, c>> \in Seq(F)
      OBVIOUS
    <3>3. x = <<"f", "3", "2">> \/ x = <<"f", "6", "4">>
      BY Zenon DEF FloatSuffixes
    <3>4. x \in Seq(F)
      BY <3>1, <3>2, <3>3
    <3> QED
      BY <3>3, <3>4 DEF F
  <2>2. StartsWith(s, n + 1, x)
    BY <1>1, <1>3, <1>5, <2>1, StandsInPrefix DEF u
  <2>3. 1 \in 1..Len(x)
    BY <2>1
  <2>4. s[(n + 1) + 1 - 1] = x[1]
    BY <1>5, <2>1, <2>2, <2>3, StartsAt
  <2> QED
    BY <1>5, <2>1, <2>4 DEF Char
<1>8. IsDigits(SubSeq(s, 1, n)) \/ IsFraction(SubSeq(s, 1, n))
  BY <1>4, <1>6
<1>9. \A k \in 1..n : Char(s, k) \in D
  BY <1>5, <1>8, FractionChars
<1>10. Plain(SubSeq(s, 1, n))
  BY <1>8, Zenon DEF Plain, IsInt
<1>11. n <= m
  <2>1. n \in m + 1..Len(s) => ~Plain(SubSeq(s, 1, n))
    BY DEF Longest
  <2> QED
    BY <1>1, <1>5, <1>10, <2>1
<1> HIDE DEF n
<1>12. ASSUME n < m PROVE FALSE
  <2>1. Plain(SubSeq(s, 1, m))
    BY DEF Longest
  <2>2. m \in n + 1..Len(s) /\ n + 1 \in 1..m
    BY <1>1, <1>5, <1>12
  <2>3. "f" \notin D /\ "f" \notin {"u", "i"}
    BY Zenon DEF Separated, Digits
  <2>4. ~IsInt(SubSeq(s, 1, m))
    BY <1>5, <1>7, <1>9, <2>2, NoIntOver
  <2>5. ~IsFraction(SubSeq(s, 1, m))
    BY <1>1, <1>7, <2>2, <2>3, FractionChars
  <2>6. PICK y \in IntSuffixes : Suffixed(s, m, y)
    BY <1>1, <2>1, <2>4, <2>5, NumberPieces
  <2> DEFINE k == m - Len(y)
  <2>7. y \in Seq(Letters \cup Digits) /\ Len(y) \in 2..5 /\ y[1] \in {"u", "i"}
    BY SuffixFacts
  <2>8. m > Len(y) /\ StartsWith(s, k + 1, y) /\ IsInt(SubSeq(s, 1, k))
    BY <2>6 DEF Suffixed
  <2>9. k \in 1..Len(s) /\ k + 1 \in 1..Len(s) + 1 /\ k + 1 <= Len(s) /\ (k + 1) + 1 - 1 = k + 1
    <3>1. \A l \in 2..5 : m > l => m - l \in 1..Len(s) /\ (m - l) + 1 <= Len(s)
      BY <1>1
    <3>2. k \in 1..Len(s) /\ k + 1 <= Len(s)
      BY <2>7, <2>8, <3>1
    <3> HIDE DEF k
    <3> QED
      BY <1>1, <3>2
  <2> HIDE DEF k
  <2>10. Char(s, k + 1) = y[1]
    <3>1. 1 \in 1..Len(y)
      BY <2>7
    <3>2. s[(k + 1) + 1 - 1] = y[1]
      BY <2>7, <2>8, <2>9, <3>1, StartsAt
    <3> QED
      BY <2>9, <3>2 DEF Char
  <2>11. y[1] \notin D
    BY <2>7, DigitsOfFacts
  <2>12. CASE k >= n + 1
    <3>1. k \in n + 1..Len(s)
      BY <1>1, <1>5, <2>9, <2>12
    <3> QED
      BY <1>5, <1>7, <1>9, <2>8, <3>1, NoIntOver
  <2>13. CASE k = n
    BY <1>7, <2>3, <2>7, <2>10, <2>13
  <2>14. CASE k < n
    <3>1. k + 1 \in 1..n
      BY <1>5, <2>9, <2>14
    <3> QED
      BY <1>9, <2>10, <2>11, <3>1
  <2> QED
    BY <1>5, <2>9, <2>12, <2>13, <2>14
<1>13. n = m
  BY <1>1, <1>5, <1>11, <1>12
<1> QED
  BY <1>1, <1>13 DEF n

\* What the text has from p to q, and from p to where a piece of it ends.
LEMMA TextPiece ==
  ASSUME text \in Strings, NEW p \in 1..Len(text), NEW q \in p + 1..End
  PROVE  /\ Text(p, q) \in Strings /\ Len(Text(p, q)) = q - p /\ Text(p, q) = SubSeq(text, p, q - 1)
         /\ \A k \in 1..q - p : Char(Text(p, q), k) = Char(text, p + (k - 1))
<1>1. Len(text) \in Nat /\ p \in 1..Len(text) + 1 /\ q \in Nat /\ p <= q /\ q - 1 <= Len(text)
      /\ q - 1 \in p - 1..Len(text) /\ (q - 1) + 1 - p = q - p
  BY DEF Strings, End
<1>2. Text(p, q) = SubSeq(text, p, q - 1)
  BY <1>1 DEF Text, Sub
<1> DEFINE u == SubSeq(text, p, q - 1)
<1>3. /\ u \in Strings /\ Len(u) = q - p
      /\ \A k \in 1..q - p : Char(u, k) = text[p + k - 1]
  BY <1>1, SubSeqFacts
<1> HIDE DEF u
<1>4. ASSUME NEW k \in 1..q - p PROVE Char(u, k) = Char(text, p + (k - 1))
  <2>1. p + k - 1 = p + (k - 1) /\ p + (k - 1) <= Len(text)
    BY <1>1
  <2> QED
    BY <1>3, <2>1 DEF Char
<1> QED
  BY <1>2, <1>3, <1>4 DEF u

\* The characters that a number may take.
LEMMA NumberWindow ==
  ASSUME text \in Strings, NEW p \in 1..Len(text)
  PROVE  LET str == Text(p, p + MaxLiteral)
         IN /\ str \in Strings /\ Len(str) \in 1..MaxLiteral /\ p + Len(str) <= End
            /\ Len(str) < MaxLiteral => p + Len(str) = End
            /\ \A k \in 1..Len(str) : Char(str, k) = Char(text, p + (k - 1))
            /\ \A m \in 1..Len(str) : Text(p, p + m) = SubSeq(str, 1, m)
            /\ \A q \in p + 1..End : q - p <= MaxLiteral => q - p \in 1..Len(str)
<1> DEFINE str == Text(p, p + MaxLiteral)
           q == IF p + MaxLiteral <= End THEN p + MaxLiteral ELSE End
           n == q - p
<1>1. /\ Len(text) \in Nat /\ End = Len(text) + 1 /\ MaxLiteral \in Nat \ {0}
      /\ p \in Nat /\ p < End
  BY LexerAssumption DEF Strings, End
<1>2. q \in p + 1..End
  BY <1>1
<1>3. str = Text(p, q)
  <2>1. CASE p + MaxLiteral <= End
    BY <2>1
  <2>2. CASE ~(p + MaxLiteral <= End)
    <3>1. ~((p + MaxLiteral) - 1 <= Len(text)) /\ End - 1 = Len(text) /\ End - 1 <= Len(text) /\ q = End
      BY <1>1, <2>2
    <3>2. \A a, b : ~(b - 1 <= Len(text)) => Sub(text, a, b) = SubSeq(text, a, Len(text))
      BY DEF Sub
    <3>3. str = SubSeq(text, p, Len(text))
      BY <3>1, <3>2 DEF Text
    <3>4. Text(p, End) = SubSeq(text, p, Len(text))
      BY <3>1 DEF Text, Sub
    <3> QED
      BY <3>1, <3>3, <3>4
  <2> QED
    BY <2>1, <2>2
<1>4. n \in 1..MaxLiteral /\ p + n = q /\ p + n <= End /\ (n < MaxLiteral => p + n = End)
  BY <1>1
<1>5. \A r \in p + 1..End : r - p <= MaxLiteral => r - p \in 1..n
  BY <1>1
<1> HIDE DEF str
<1>6. /\ str \in Strings /\ Len(str) = n /\ str = SubSeq(text, p, q - 1)
      /\ \A k \in 1..n : Char(str, k) = Char(text, p + (k - 1))
  <2> HIDE DEF q
  <2> QED
    BY <1>2, <1>3, TextPiece
<1>7. ASSUME NEW m \in 1..n PROVE Text(p, p + m) = SubSeq(str, 1, m)
  <2> DEFINE u == Text(p, p + m)
             v == SubSeq(str, 1, m)
  <2>1. p + m \in p + 1..End /\ (p + m) - p = m
    BY <1>1, <1>4
  <2>2. u \in Strings /\ Len(u) = m /\ \A k \in 1..m : Char(u, k) = Char(text, p + (k - 1))
    BY <2>1, TextPiece
  <2> HIDE DEF n
  <2>3. v \in Strings /\ Len(v) = m /\ \A k \in 1..m : Char(v, k) = str[1 + k - 1]
    <3>1. 1 \in 1..Len(str) + 1 /\ m \in 1 - 1..Len(str) /\ m + 1 - 1 = m
      BY <1>4, <1>6
    <3> QED
      BY <1>6, <3>1, SubSeqFacts, ZenonT(30)
  <2> HIDE DEF u, v
  <2>4. ASSUME NEW k \in 1..m PROVE u[k] = v[k]
    <3>1. k \in 1..n /\ 1 + k - 1 = k /\ k <= Len(u) /\ k <= Len(v) /\ k <= Len(str)
      BY <1>4, <1>6, <2>2, <2>3
    <3>2. Char(u, k) = u[k] /\ Char(v, k) = v[k] /\ Char(str, k) = str[k]
      BY <3>1 DEF Char
    <3> QED
      BY <1>6, <2>2, <2>3, <3>1, <3>2
  <2>5. u = v
    BY <2>2, <2>3, <2>4, SeqEqual DEF Strings
  <2> QED
    BY <2>5 DEF u, v
<1> HIDE DEF n, q
<1> QED
  BY <1>1, <1>4, <1>5, <1>6, <1>7 DEF str

\* A token of the type from p to q, that is no string and does not take what is
\* no digit after a point, is the longest lexeme there, but for a float suffix.
Maximal(type, p, q) ==
  LET lexeme == Text(p, q)
      longest == IF type \in {"int", "float"} THEN MaxLiteral ELSE Len(text)
  IN (/\ type \notin {"string", "char"}
      /\ ~(type = "float" /\ Char(lexeme, Len(lexeme)) \notin Separated(Digits))) =>
       /\ IsLexeme(lexeme)
       /\ \A r \in q + 1..End :
            r - p <= longest /\ IsLexeme(Text(p, r)) => r = q + 3 /\ IsTypedFloat(Text(p, r))

\* The number taken is the longest within MaxLiteral characters.
LEMMA NumberMaximal ==
  ASSUME text \in Strings, NEW p \in 1..Len(text), Char(text, p) \in Digits, Number(p)[2] # 0
  PROVE  Maximal(Number(p)[1], p, p + Number(p)[2])
<1> DEFINE str == Text(p, p + MaxLiteral)
           n == IntLength(str)
           f == FloatLength(str)
<1>1. /\ str \in Strings /\ Len(str) \in 1..MaxLiteral /\ p + Len(str) <= End
      /\ Len(str) < MaxLiteral => p + Len(str) = End
      /\ \A k \in 1..Len(str) : Char(str, k) = Char(text, p + (k - 1))
      /\ \A m \in 1..Len(str) : Text(p, p + m) = SubSeq(str, 1, m)
      /\ \A q \in p + 1..End : q - p <= MaxLiteral => q - p \in 1..Len(str)
  BY NumberWindow
<1>2. MaxLiteral \in Nat \ {0} /\ End \in Nat /\ End = Len(text) + 1 /\ p \in Nat
  BY LexerAssumption DEF Strings, End
<1> HIDE DEF str
<1>3. Char(str, 1) \in Digits
  <2>1. 1 \in 1..Len(str) /\ p + (1 - 1) = p
    BY <1>1, <1>2
  <2> QED
    BY <1>1, <2>1
<1>4. n \in 1..Len(str)
  BY <1>1, <1>3, IntLongest
<1>5. f > 0 => f \in 1..Len(str)
  BY <1>1, <1>3, FloatLongest
<1>6. IF Char(str, n + 1) = "."
      THEN IF f > 0 THEN Char(str, f) \in Separated(Digits) => Longest(str, f) ELSE Longest(str, n)
      ELSE /\ FitSuffixes(str) = {} => Longest(str, n)
           /\ \A x \in FitSuffixes(str) : Longest(str, n + Len(x))
  BY <1>1, <1>3, NumberLongest
<1>7. Number(p) = IF n >= MaxLiteral THEN <<"int", 0>>
                  ELSE IF Char(text, p + n) = "."
                       THEN IF f > 0 THEN <<"float", f>> ELSE <<"int", n>>
                  ELSE <<"int", IF FitSuffixes(str) = {} THEN n
                                ELSE n + Len(CHOOSE s \in FitSuffixes(str) : TRUE)>>
  BY DEF Number, FitSuffixes, str
<1> HIDE DEF n, f
<1>8. n < MaxLiteral
  <2>1. n >= MaxLiteral => Number(p)[2] = 0
    BY <1>7
  <2> QED
    BY <1>1, <1>2, <1>4, <2>1
<1>9. Char(str, n + 1) = Char(text, p + n)
  <2>1. CASE n + 1 \in 1..Len(str)
    <3>1. p + ((n + 1) - 1) = p + n
      BY <1>1, <1>2, <1>4
    <3> QED
      BY <1>1, <2>1, <3>1
  <2>2. CASE n + 1 \notin 1..Len(str)
    <3>1. n = Len(str) /\ ~(n + 1 <= Len(str))
      BY <1>1, <1>2, <1>4, <2>2
    <3>2. p + n = End
      BY <1>1, <1>8, <3>1
    <3>3. ~(p + n <= Len(text))
      BY <1>2, <3>2
    <3> QED
      BY <3>1, <3>3 DEF Char
  <2> QED
    BY <2>1, <2>2
\* What is the longest lexeme in the window is so in the text, up to its length.
<1>10. ASSUME NEW type, NEW m, Longest(str, m) PROVE Maximal(type, p, p + m) \/ type \notin {"int", "float"}
  <2> SUFFICES ASSUME type \in {"int", "float"}
               PROVE  /\ IsLexeme(Text(p, p + m))
                      /\ \A r \in p + m + 1..End :
                           r - p <= MaxLiteral /\ IsLexeme(Text(p, r)) =>
                             r = p + m + 3 /\ IsTypedFloat(Text(p, r))
    BY DEF Maximal
  <2>1. m \in 1..Len(str) /\ IsLexeme(SubSeq(str, 1, m))
    BY <1>10, LexemeForms DEF Longest
  <2>2. ASSUME NEW r \in p + m + 1..End, r - p <= MaxLiteral, IsLexeme(Text(p, r))
        PROVE  r = p + m + 3 /\ IsTypedFloat(Text(p, r))
    <3>1. r \in p + 1..End /\ p + (r - p) = r
      BY <1>1, <1>2, <2>1
    <3>2. r - p \in 1..Len(str)
      BY <1>1, <2>2, <3>1
    <3>3. r - p \in m + 1..Len(str)
      BY <1>1, <1>2, <2>1, <3>2
    <3>4. Text(p, p + (r - p)) = SubSeq(str, 1, r - p)
      BY <1>1, <3>2
    <3>5. IsTypedFloat(Text(p, r))
      <4>1. ~Plain(SubSeq(str, 1, r - p))
        BY <1>10, <3>3 DEF Longest
      <4> QED
        BY <2>2, <3>1, <3>4, <4>1, LexemeForms
    <3>6. r - p = m + 3
      BY <1>1, <1>3, <1>10, <3>1, <3>3, <3>4, <3>5, TypedLongest
    <3> QED
      BY <1>2, <2>1, <3>1, <3>5, <3>6
  <2> QED
    BY <1>1, <2>1, <2>2
<1>11. CASE Char(text, p + n) = "." /\ f > 0
  <2>1. Number(p)[1] = "float" /\ Number(p)[2] = f
    BY <1>2, <1>4, <1>7, <1>8, <1>11
  <2>2. CASE Char(str, f) \in Separated(Digits)
    BY <1>6, <1>9, <1>10, <1>11, <2>1, <2>2
  <2>3. CASE Char(str, f) \notin Separated(Digits)
    <3> DEFINE u == Text(p, p + f)
    <3>1. p + f \in p + 1..End /\ (p + f) - p = f /\ f \in 1..f
      BY <1>1, <1>2, <1>5, <1>11
    <3>2. Len(u) = f /\ Char(u, f) = Char(text, p + (f - 1))
      BY <3>1, TextPiece
    <3>3. Char(u, Len(u)) = Char(str, f)
      BY <1>1, <1>5, <1>11, <3>2
    <3> QED
      BY <2>1, <2>3, <3>3 DEF Maximal
  <2> QED
    BY <2>2, <2>3
<1>12. CASE Char(text, p + n) = "." /\ ~(f > 0)
  <2>1. Number(p)[1] = "int" /\ Number(p)[2] = n
    BY <1>2, <1>4, <1>7, <1>8, <1>12
  <2> QED
    BY <1>6, <1>9, <1>10, <1>12, <2>1
<1>13. CASE Char(text, p + n) # "." /\ FitSuffixes(str) = {}
  <2>1. Number(p)[1] = "int" /\ Number(p)[2] = n
    BY <1>2, <1>4, <1>7, <1>8, <1>13
  <2> QED
    BY <1>6, <1>9, <1>10, <1>13, <2>1
<1>14. CASE Char(text, p + n) # "." /\ FitSuffixes(str) # {}
  <2>1. PICK x \in FitSuffixes(str) : x = CHOOSE s \in FitSuffixes(str) : TRUE
    BY <1>14
  <2>2. Number(p)[1] = "int" /\ Number(p)[2] = n + Len(x)
    BY <1>2, <1>4, <1>7, <1>8, <1>14, <2>1
  <2>3. Longest(str, n + Len(x))
    BY <1>6, <1>9, <1>14
  <2> QED
    BY <1>10, <2>2, <2>3
<1> QED
  BY <1>11, <1>12, <1>13, <1>14

\* What does not begin with a digit is a lexeme when it is a mark or a word.
LEMMA OtherForms ==
  ASSUME NEW u \in Strings, Char(u, 1) \notin Digits
  PROVE  IsLexeme(u) <=> \/ \E k \in DOMAIN Branches(Char(u, 1)) : u = Branches(Char(u, 1))[k]
                         \/ Char(u, 1) \in Letters \cup {"_"} /\ Over(u, WordChars)
<1>1. Len(u) \in Nat /\ u = SubSeq(u, 1, Len(u)) /\ 1 \in 1..Len(u) + 1
  <2>1. \A k \in 1..Len(u) : u[1 + k - 1] = u[k]
    BY DEF Strings
  <2>2. Len(u) \in Nat /\ 1 \in 1..Len(u) + 1 /\ Len(u) \in 1 - 1..Len(u) /\ Len(u) + 1 - 1 = Len(u)
    BY DEF Strings
  <2> DEFINE v == SubSeq(u, 1, Len(u))
  <2>3. v \in Strings /\ Len(v) = Len(u) /\ \A k \in 1..Len(u) : v[k] = u[1 + k - 1]
    BY <2>2, SubSeqFacts, ZenonT(30)
  <2> HIDE DEF v
  <2>4. v = u
    BY <2>1, <2>3, SeqEqual DEF Strings
  <2> QED
    BY <2>2, <2>4 DEF v
<1>2. ASSUME NEW m \in 0..Len(u) PROVE ~IsInt(SubSeq(u, 1, m)) /\ ~IsDigits(SubSeq(u, 1, m))
  <2>1. m \in 1 - 1..Len(u)
    BY <1>1
  <2>2. ~IsDigits(SubSeq(u, 1, m))
    BY <1>1, <2>1, DigitsPiece
  <2>3. ASSUME NEW c \in Letter, IsPrefixed(SubSeq(u, 1, m), <<"0", c>>, DigitsOf(c)) PROVE FALSE
    <3>1. StartsWith(u, 1, <<"0", c>>)
      BY <2>3, PrefixedPiece
    <3>2. 1 + 1 <= Len(u) /\ u[1] = "0"
      BY <1>1, <3>1, StartsWithPair
    <3>3. Char(u, 1) = "0"
      BY <1>1, <3>2 DEF Char
    <3> QED
      BY <3>3, DigitsOfFacts
  <2> QED
    BY <2>2, <2>3, IntForms
<1>3. ~IsInt(u)
  <2>1. Len(u) \in 0..Len(u)
    BY <1>1
  <2>2. ~IsInt(SubSeq(u, 1, Len(u)))
    BY <1>2, <2>1
  <2> QED
    BY <1>1, <2>2, Zenon
<1>4. ~IsFloat(u)
  <2>1. ASSUME NEW k \in 1..Len(u), IsDigits(SubSeq(u, 1, k - 1)) PROVE FALSE
    <3>1. k - 1 \in 0..Len(u)
      BY <1>1
    <3> QED
      BY <1>2, <2>1, <3>1
  <2>2. ~IsFraction(u)
    BY <2>1 DEF IsFraction
  <2>3. ASSUME IsTypedFloat(u) PROVE FALSE
    <3> DEFINE n == Len(u) - 3
               v == SubSeq(u, 1, n)
    <3>1. n > 0 /\ (IsDigits(v) \/ IsFraction(v))
      BY <2>3 DEF IsTypedFloat
    <3>2. n \in 1..Len(u) /\ n \in 0..Len(u) /\ 1 \in 1..n + 1
      BY <1>1, <3>1
    <3>3. ~IsDigits(v)
      BY <1>2, <3>2
    <3>4. PICK k \in 1..Len(v) : IsDigits(SubSeq(v, 1, k - 1))
      BY <3>1, <3>3 DEF IsFraction
    <3>5. Len(v) = n
      <4>1. 1 \in 1..Len(u) + 1 /\ n \in 1 - 1..Len(u) /\ n + 1 - 1 = n
        BY <1>1, <3>2
      <4> HIDE DEF n
      <4> QED
        BY <4>1, SubSeqFacts
    <3> HIDE DEF n
    <3>6. k - 1 \in 1 - 1..n /\ k - 1 \in 0..Len(u) /\ k \in 1..Len(u)
      BY <1>1, <3>2, <3>4, <3>5
    <3>7. SubSeq(v, 1, k - 1) = SubSeq(u, 1, k - 1)
      BY <3>2, <3>6, PieceOfPrefix
    <3> QED
      BY <2>1, <3>4, <3>6, <3>7
  <2> QED
    BY <2>2, <2>3 DEF IsFloat
<1>5. ASSUME NEW x \in IntSuffixes, Len(u) > Len(x), IsInt(SubSeq(u, 1, Len(u) - Len(x))) PROVE FALSE
  <2>1. Len(x) \in 2..5
    BY SuffixFacts
  <2>2. \A l \in 2..5 : Len(u) > l => Len(u) - l \in 0..Len(u)
    BY <1>1
  <2> QED
    BY <1>2, <1>5, <2>1, <2>2
<1> QED
  BY <1>3, <1>4, <1>5 DEF IsLexeme

\* A word ends where its characters do.
LEMMA WordMaximal ==
  ASSUME text \in Strings, NEW p \in 1..Len(text), IsWord(p), NEW type, type \notin {"int", "float"}
  PROVE  Maximal(type, p, RunEnd(text, p, WordChars))
<1> DEFINE e == RunEnd(text, p, WordChars)
           c == Char(text, p)
<1>1. Len(text) \in Nat /\ End = Len(text) + 1 /\ p \in 1..Len(text) + 1
  BY DEF Strings, End
<1>2. c \in Letters \cup {"_"} /\ c \in WordChars /\ c \notin Digits
  <2>1. \A x \in Letters \cup {"_"} : x \notin Digits
    BY ZenonT(30) DEF Digits, Letters, HexDigits
  <2>2. \A x \in Letters \cup {"_"} : x \in WordChars
    BY Zenon DEF WordChars, Separated
  <2> QED
    BY <2>1, <2>2 DEF IsWord
<1>3. e \in p..Len(text) + 1 /\ Char(text, e) \notin WordChars /\ \A k \in p..e - 1 : Char(text, k) \in WordChars
  BY <1>1, KindFacts, RunEndFacts
<1> HIDE DEF e
<1>4. e \in p + 1..End
  <2>1. e # p
    BY <1>2, <1>3
  <2> QED
    BY <1>1, <1>3, <2>1
<1>5. ASSUME NEW r \in p + 1..End
      PROVE  /\ Text(p, r) \in Strings /\ Len(Text(p, r)) = r - p /\ Char(Text(p, r), 1) = c
             /\ Over(Text(p, r), WordChars) <=> \A k \in p..r - 1 : Char(text, k) \in WordChars
  <2>1. 1 \in 1..r - p /\ p + (1 - 1) = p /\ r - 1 \in p - 1..Len(text)
    BY <1>1
  <2>2. Over(SubSeq(text, p, r - 1), WordChars) <=> \A k \in p..r - 1 : Char(text, k) \in WordChars
    BY <1>1, <2>1, OverPiece
  <2>3. /\ Text(p, r) \in Strings /\ Len(Text(p, r)) = r - p /\ Text(p, r) = SubSeq(text, p, r - 1)
        /\ Char(Text(p, r), 1) = Char(text, p + (1 - 1))
    BY <2>1, TextPiece
  <2> QED
    BY <2>1, <2>2, <2>3
<1> HIDE DEF c
<1>6. IsLexeme(Text(p, e))
  BY <1>2, <1>3, <1>4, <1>5, OtherForms
<1>7. ASSUME NEW r \in e + 1..End, IsLexeme(Text(p, r)) PROVE FALSE
  <2> DEFINE u == Text(p, r)
  <2>1. r \in p + 1..End /\ e \in p..r - 1 /\ r - p # 1
    BY <1>1, <1>3, <1>4
  <2>2. ~Over(u, WordChars)
    BY <1>3, <1>5, <2>1
  <2>3. PICK k \in DOMAIN Branches(c) : u = Branches(c)[k]
    BY <1>2, <1>5, <1>7, <2>1, <2>2, OtherForms
  <2>4. c = "_"
    BY <1>2, <2>3, BranchFacts, MarkCharFacts
  <2>5. Len(u) = 1
    BY <2>3, <2>4, BranchFacts DEF Ordered
  <2>6. Len(u) = r - p
    BY <1>5, <2>1
  <2> HIDE DEF u
  <2> QED
    BY <2>1, <2>5, <2>6
<1> QED
  BY <1>6, <1>7 DEF Maximal, e

\* The mark taken is the first of its case that the text begins with.
LEMMA PunctuationFacts ==
  ASSUME NEW p, Punctuation(p) # <<>>
  PROVE  LET marks == Branches(Char(text, p))
         IN \E k \in DOMAIN marks :
              /\ Punctuation(p) = marks[k] /\ StartsWith(text, p, marks[k])
              /\ \A j \in DOMAIN marks : StartsWith(text, p, marks[j]) => k <= j
<1> DEFINE marks == Branches(Char(text, p))
           fit == {k \in DOMAIN marks : StartsWith(text, p, marks[k])}
<1>1. fit # {} /\ Punctuation(p) = marks[CHOOSE k \in fit : \A j \in fit : k <= j]
  BY DEF Punctuation
<1>2. \E k \in fit : \A j \in fit : k <= j
  <2>1. fit \in SUBSET (0..5) /\ 5 \in Nat
    BY BranchFacts
  <2> HIDE DEF fit
  <2> QED
    BY <1>1, <2>1, Least
<1>3. PICK k \in fit : Punctuation(p) = marks[k] /\ \A j \in fit : k <= j
  BY <1>1, <1>2
<1> QED
  BY <1>3

\* No branch of the switch hides one that takes more.
LEMMA MarkMaximal ==
  ASSUME text \in Strings, NEW p \in 1..Len(text), Char(text, p) \notin Digits, ~IsWord(p),
         Punctuation(p) # <<>>
  PROVE  Maximal("mark", p, p + Len(Punctuation(p)))
<1> DEFINE mark == Punctuation(p)
           c == Char(text, p)
           marks == Branches(c)
           e == p + Len(mark)
<1>1. Len(text) \in Nat /\ End = Len(text) + 1 /\ p \in 1..Len(text) + 1
  BY DEF Strings, End
<1>2. PICK k \in DOMAIN marks : /\ mark = marks[k] /\ StartsWith(text, p, marks[k])
                                /\ \A j \in DOMAIN marks : StartsWith(text, p, marks[j]) => k <= j
  BY PunctuationFacts
<1>3. Ordered(c, marks) /\ DOMAIN marks \subseteq 1..5
  BY BranchFacts
<1> HIDE DEF mark, marks
<1>4. mark[1] = c /\ Len(mark) \in 1..3 /\ \E T : mark \in Seq(T)
  BY <1>2, <1>3 DEF Ordered, Spells
<1>5. e \in p + 1..End
  <2>1. p + Len(mark) <= Len(text) + 1
    BY <1>1, <1>2, <1>4, StartsAt
  <2>2. \A n \in 1..3 : p + n <= Len(text) + 1 => p + n \in p + 1..End
    BY <1>1
  <2> QED
    BY <1>4, <2>1, <2>2
<1>6. Text(p, e) = mark
  BY <1>2 DEF StartsWith, Text
<1>7. ASSUME NEW r \in p + 1..End
      PROVE  /\ Text(p, r) \in Strings /\ Len(Text(p, r)) = r - p /\ Char(Text(p, r), 1) = c
             /\ r - p > 1 => Char(Text(p, r), 2) = Char(text, p + 1)
  <2>1. 1 \in 1..r - p /\ p + (1 - 1) = p /\ p + (2 - 1) = p + 1 /\ (r - p > 1 => 2 \in 1..r - p)
    BY <1>1
  <2>2. /\ Text(p, r) \in Strings /\ Len(Text(p, r)) = r - p
        /\ \A j \in 1..r - p : Char(Text(p, r), j) = Char(text, p + (j - 1))
    BY TextPiece
  <2>3. r - p > 1 => Char(Text(p, r), 2) = Char(text, p + (2 - 1))
    BY <2>1, <2>2
  <2> QED
    BY <2>1, <2>2, <2>3
<1> HIDE DEF e
<1>8. IsLexeme(Text(p, e))
  <2>1. Char(Text(p, e), 1) = c
    BY <1>5, <1>7
  <2> QED
    BY <1>2, <1>6, <2>1, Zenon DEF IsLexeme, marks
<1>9. ASSUME NEW r \in e + 1..End, IsLexeme(Text(p, r)) PROVE FALSE
  <2> DEFINE u == Text(p, r)
  <2>1. r \in p + 1..End /\ r - p > 1 /\ r - p > e - p /\ p + (r - p) = r /\ r - p \in Nat
    BY <1>1, <1>5
  <2>2. u \in Strings /\ Len(u) = r - p /\ Char(u, 1) = c /\ Char(u, 2) = Char(text, p + 1)
    BY <1>7, <2>1
  <2>3. CASE \E j \in DOMAIN marks : u = marks[j]
    <3>1. PICK j \in DOMAIN marks : u = marks[j]
      BY <2>3
    <3>2. StartsWith(text, p, u)
      BY <2>1, <2>2 DEF StartsWith, Text
    <3>3. k <= j
      BY <1>2, <3>1, <3>2
    <3>4. Len(mark) = e - p
      <4>1. \A n \in 1..3 : (p + n) - p = n
        BY <1>1
      <4> QED
        BY <1>4, <4>1 DEF e
    <3>5. k # j
      BY <1>2, <2>1, <2>2, <3>1, <3>4
    <3>6. k < j
      BY <1>3, <3>3, <3>5
    <3>7. Len(u) <= Len(mark)
      BY <1>2, <1>3, <3>1, <3>6 DEF Ordered
    <3>8. e - p \in Nat
      BY <1>1, <1>5
    <3> QED
      BY <2>1, <2>2, <3>4, <3>7, <3>8
  <2>4. CASE c \in Letters \cup {"_"} /\ Over(u, WordChars)
    <3>1. 2 \in 1..Len(u)
      BY <2>1, <2>2
    <3>2. Char(text, p + 1) \in WordChars
      BY <2>2, <2>4, <3>1 DEF Over
    <3> QED
      BY <2>4, <3>2 DEF IsWord
  <2>5. (\E j \in DOMAIN marks : u = marks[j]) \/ (c \in Letters \cup {"_"} /\ Over(u, WordChars))
    <3> HIDE DEF u, c
    <3>1. c \notin Digits /\ IsLexeme(u)
      BY <1>9 DEF c, u
    <3> QED
      BY <2>2, <3>1, OtherForms DEF marks
  <2> QED
    BY <2>3, <2>4, <2>5
<1> QED
  BY <1>8, <1>9 DEF Maximal, e, mark

-----------------------------------------------------------------------------
(* The scanner's steps *)

Types == {"int", "float", "char", "string", "keyword", "identifier", "mark"}
TokenRecords == [type : Types, lexeme : Strings, row : Nat, col : Nat, at : Nat]

\* What is true of the scanner between two turns of its loop: its fields have
\* their types, every token lies within the text, the scanner stands where the
\* last token ends, and nothing has been lost so far.
ScannerState ==
  /\ text \in Strings /\ pos \in 1..End /\ row \in Nat /\ col \in Nat
  /\ tokens \in Seq(TokenRecords)
  /\ \A k \in 1..Len(tokens) : tokens[k].at \in 1..End /\ After(k) \in 1..End
  /\ Running => pos = After(Len(tokens))
  /\ Lossless

\* A token of the type is taken from Start to q; a is its place and b the place
\* where the scanner is left.
Placed(type, q, a, b) ==
  \/ /\ type \notin {"string", "char"} /\ a = Here
     /\ \/ b = Walk(Start, q, Here)
        \/ /\ b = <<Here[1], Here[2] + (q - Start)>>
           /\ \A k \in Start..q - 1 : Char(text, k) = "\n" => type = "float" /\ k = q - 1
  \/ type \in {"string", "char"} /\ a = Walk(Start, q, Here) /\ b = a
TakesToken ==
  /\ Running /\ Start # 0
  /\ \E q \in Start + 1..End, type \in Types, a, b \in Nat \X Nat :
       Push(type, Start, q, a, b) /\ Placed(type, q, a, b) /\ Maximal(type, Start, q)

\* The scanner stops: in an open comment, at the start of what it refuses or at
\* the end of the text, or after what it refuses.
Stops ==
  /\ Running
  /\ \E code : \E q \in 1..End, a \in Nat \X Nat :
       /\ Fail(code, q, a) /\ code # "running"
       /\ code = "kSuccess" => Start = End
       /\ \/ q = pos /\ a = <<row, col>>
          \/ Start # 0 /\ q = Start /\ a = Here
          \/ Start # 0 /\ q \in Start..End /\ a = Walk(Start, q, Here)

LEMMA HereFacts ==
  ASSUME ScannerState, Start # 0
  PROVE  /\ Start \in pos..End /\ Start \in 1..End /\ Start \in Gaps(text)[pos]
         /\ Here \in Nat \X Nat /\ End \in Nat /\ End = Len(text) + 1 /\ Len(text) \in Nat
<1>1. /\ End = Len(text) + 1 /\ Len(text) \in Nat /\ text \in Strings /\ pos \in 1..Len(text) + 1
      /\ <<row, col>> \in Nat \X Nat
  BY DEF ScannerState, End, Strings
<1>2. Start \in pos..End /\ Start \in Gaps(text)[pos]
  BY <1>1, SkipPassesGaps DEF Start
<1>3. Here \in Nat \X Nat
  BY <1>1, <1>2, WalkTyped DEF Here
<1> QED
  BY <1>1, <1>2, <1>3

\* A character that is in a set where no character is lies in the text.
LEMMA InText ==
  ASSUME text \in Strings, NEW p \in 1..End, Char(text, p) # NoChar
  PROVE  p \in 1..Len(text)
BY CharFacts DEF End

LEMMA NumberStep ==
  ASSUME ScannerState, NumberLiteral
  PROVE  TakesToken \/ Stops
<1> DEFINE n == Number(Start)
           q == Start + n[2]
<1>1. Running /\ Start # 0 /\ Char(text, Start) \in Digits /\ text \in Strings
  <2>1. Start > 0 => Start # 0
    OBVIOUS
  <2> QED
    BY <2>1 DEF NumberLiteral, ScannerState
<1>2. Start \in 1..End /\ Here \in Nat \X Nat /\ End \in Nat
  BY <1>1, HereFacts
<1>3. Start \in 1..Len(text)
  BY <1>1, <1>2, KindFacts, InText
<1>4. CASE n[2] = 0
  <2>1. Fail("kNumber", Start, Here)
    BY <1>4 DEF NumberLiteral
  <2> QED
    BY <1>1, <1>2, <2>1 DEF Stops
<1>5. CASE n[2] # 0
  <2> DEFINE b == <<Here[1], Here[2] + n[2]>>
  <2>1. Push(n[1], Start, q, Here, b)
    BY <1>5 DEF NumberLiteral
  <2>2. /\ n[1] \in {"int", "float"} /\ n[2] \in Nat \ {0} /\ q <= End
        /\ \A k \in Start..Start + (n[2] - 1) :
             Char(text, k) = "\n" => n[1] = "float" /\ k = Start + (n[2] - 1)
    BY <1>1, <1>3, <1>5, NumberFacts
  <2> HIDE DEF n
  <2>3. q \in Start + 1..End /\ q - Start = n[2] /\ q - 1 = Start + (n[2] - 1)
    BY <1>2, <2>2
  <2>4. Here[1] \in Nat /\ Here[2] \in Nat
    BY <1>2
  <2>5. b \in Nat \X Nat
    BY <2>2, <2>4
  <2>6. n[1] \in Types /\ n[1] \notin {"string", "char"}
    BY <2>2 DEF Types
  <2>7. Placed(n[1], q, Here, b)
    BY <2>2, <2>3, <2>6 DEF Placed
  <2>8. Maximal(n[1], Start, q)
    BY <1>1, <1>3, <1>5, NumberMaximal DEF n
  <2> HIDE DEF b, q
  <2> QED
    BY <1>1, <1>2, <2>1, <2>3, <2>5, <2>6, <2>7, <2>8 DEF TakesToken
<1> QED
  BY <1>4, <1>5

LEMMA QuotedStep ==
  ASSUME ScannerState, StringLiteral
  PROVE  TakesToken \/ Stops
<1> DEFINE open == IF Char(text, Start) = "b" THEN Start + 1 ELSE Start
           c == Char(text, open)
           e == StringEnd(text, c)[open + 1]
           place == Walk(Start, e, Here)
           type == IF c = "'" THEN "char" ELSE "string"
<1>1. Running /\ Start # 0 /\ IsString(Start) /\ text \in Strings
  <2>1. Start > 0 => Start # 0
    OBVIOUS
  <2> QED
    BY <2>1 DEF StringLiteral, ScannerState
<1>2. Start \in 1..End /\ Here \in Nat \X Nat /\ End \in Nat /\ End = Len(text) + 1
  BY <1>1, HereFacts
<1>3. Start \in 1..Len(text) /\ open \in Start..Len(text)
  <2>1. Char(text, Start) \in Quotes => Char(text, Start) # NoChar /\ Char(text, Start) # "b"
    BY Zenon DEF Quotes, NoChar
  <2>2. Char(text, Start) = "b" => Char(text, Start) # NoChar
    BY Zenon DEF NoChar
  <2>3. Start \in 1..Len(text)
    BY <1>1, <1>2, <2>1, <2>2, InText DEF IsString
  <2>4. CASE Char(text, Start) # "b"
    BY <2>3, <2>4
  <2>5. CASE Char(text, Start) = "b"
    <3>1. Char(text, Start + 1) \in Quotes
      BY <1>1, <2>1, <2>5 DEF IsString
    <3>2. Char(text, Start + 1) # NoChar /\ Start + 1 \in 1..End
      BY <1>2, <2>3, <3>1, KindFacts
    <3>3. Start + 1 \in 1..Len(text)
      BY <1>1, <3>2, InText
    <3> QED
      BY <2>3, <2>5, <3>3
  <2> QED
    BY <2>3, <2>4, <2>5
<1> HIDE DEF open, c
<1>4. e # 0 => e \in Start + 1..End
  <2>1. open + 1 \in 1..Len(text) + 1
    BY <1>2, <1>3
  <2>2. e \in {0} \cup (open + 1) + 1..Len(text) + 1
    BY <1>1, <2>1, StringEndAbove
  <2> HIDE DEF e
  <2> QED
    BY <1>2, <1>3, <2>2
<1> HIDE DEF e
<1>5. e # 0 => place \in Nat \X Nat
  <2>1. e \in Start + 1..End => e \in Start..End
    BY <1>2
  <2> QED
    BY <1>1, <1>2, <1>4, <2>1, WalkTyped
<1> HIDE DEF place
<1>6. IF e = 0 THEN Fail("kCharString", Start, Here)
      ELSE IF c = "'" /\ e - Start # 3 THEN Fail("kCharString", e, place)
      ELSE Push(type, Start, e, place, place)
  BY DEF StringLiteral, open, c, e, place
<1>7. CASE e = 0
  BY <1>1, <1>2, <1>6, <1>7 DEF Stops
<1>8. CASE e # 0 /\ c = "'" /\ e - Start # 3
  <2>1. Fail("kCharString", e, place) /\ e \in Start..End /\ e \in 1..End
    BY <1>2, <1>4, <1>6, <1>8
  <2> QED
    BY <1>1, <1>5, <1>8, <2>1 DEF Stops, place
<1>9. CASE e # 0 /\ ~(c = "'" /\ e - Start # 3)
  <2>1. Push(type, Start, e, place, place)
    BY <1>6, <1>9
  <2>2. type \in Types /\ type \in {"string", "char"}
    BY DEF Types
  <2>3. Placed(type, e, place, place) /\ Maximal(type, Start, e)
    BY <2>2 DEF Placed, place, Maximal
  <2> HIDE DEF type
  <2> QED
    BY <1>1, <1>4, <1>5, <1>9, <2>1, <2>2, <2>3 DEF TakesToken
<1> QED
  BY <1>7, <1>8, <1>9

LEMMA WordStep ==
  ASSUME ScannerState, KeywordIdentifier
  PROVE  TakesToken
<1> DEFINE e == RunEnd(text, Start, WordChars)
           place == Walk(Start, e, Here)
           type == IF Text(Start, e) \in Keywords THEN "keyword" ELSE "identifier"
<1>1. Running /\ Start # 0 /\ IsWord(Start) /\ text \in Strings
  <2>1. Start > 0 => Start # 0
    OBVIOUS
  <2> QED
    BY <2>1 DEF KeywordIdentifier, ScannerState
<1>2. Start \in 1..End /\ Here \in Nat \X Nat /\ End \in Nat /\ End = Len(text) + 1
  BY <1>1, HereFacts
<1>3. Char(text, Start) \in WordChars
  <2>1. "_" \in WordChars /\ Letters \subseteq WordChars
    BY Zenon DEF WordChars, Separated
  <2> QED
    BY <1>1, <2>1, Zenon DEF IsWord
<1>4. e \in Start..Len(text) + 1 /\ Char(text, e) \notin WordChars
  BY <1>1, <1>2, KindFacts, RunEndFacts
<1>8. type \in Types /\ type \notin {"string", "char", "int", "float"}
  BY DEF Types
<1>10. Maximal(type, Start, e)
  <2>1. Start \in 1..Len(text)
    BY <1>1, <1>2, <1>3, KindFacts, InText
  <2> HIDE DEF type
  <2> QED
    BY <1>1, <1>8, <2>1, WordMaximal
<1> HIDE DEF e
<1>5. e \in Start + 1..End /\ e \in Start..End
  <2>1. e # Start
    BY <1>3, <1>4
  <2> QED
    BY <1>2, <1>4, <2>1
<1>6. place \in Nat \X Nat
  BY <1>1, <1>2, <1>5, WalkTyped
<1>7. Push(type, Start, e, Here, place)
  BY DEF KeywordIdentifier, e
<1>9. Placed(type, e, Here, place)
  BY <1>8 DEF Placed
<1> HIDE DEF place, type
<1> QED
  BY <1>1, <1>2, <1>5, <1>6, <1>7, <1>8, <1>9, <1>10 DEF TakesToken

LEMMA MarkStep ==
  ASSUME ScannerState, PunctuationDelimiter
  PROVE  TakesToken \/ Stops
<1> DEFINE mark == Punctuation(Start)
           e == Start + Len(mark)
           place == Walk(Start, e, Here)
           c == Char(text, Start)
           marks == Branches(c)
<1>1. Running /\ Start # 0 /\ text \in Strings
  <2>1. Start > 0 => Start # 0
    OBVIOUS
  <2> QED
    BY <2>1 DEF PunctuationDelimiter, ScannerState
<1>2. Start \in 1..End /\ Here \in Nat \X Nat /\ End \in Nat /\ End = Len(text) + 1
  BY <1>1, HereFacts
<1>3. CASE mark = <<>>
  <2>1. Fail("kPunctuationDelimiter", Start, Here)
    BY <1>3 DEF PunctuationDelimiter
  <2> QED
    BY <1>1, <1>2, <2>1 DEF Stops
<1>4. CASE mark # <<>>
  <2>1. PICK k \in DOMAIN marks : mark = marks[k] /\ StartsWith(text, Start, marks[k])
    BY <1>4, PunctuationFacts
  <2>2. Ordered(c, marks)
    BY BranchFacts
  <2> HIDE DEF mark, marks
  <2>3. Spells(mark, c, Len(mark)) /\ Len(mark) \in 1..3
    BY <2>1, <2>2 DEF Ordered
  <2>4. Start + Len(mark) <= Len(text) + 1
    BY <1>1, <1>2, <2>1, <2>3, StartsAt DEF Spells
  <2>5. e \in Start + 1..End /\ e \in Start..End
    <3>1. \A n \in 1..3 : Start + n <= Len(text) + 1 => Start + n \in Start + 1..End /\ Start + n \in Start..End
      BY <1>2
    <3> QED
      BY <2>3, <2>4, <3>1
  <2>6. Push("mark", Start, e, Here, place)
    BY <1>4 DEF PunctuationDelimiter, mark
  <2>9. Maximal("mark", Start, e)
    <3>1. Start \in 1..Len(text)
      BY <1>2 DEF PunctuationDelimiter
    <3>2. Char(text, Start) \notin Digits /\ ~IsWord(Start)
      BY DEF PunctuationDelimiter
    <3> QED
      BY <1>1, <1>4, <3>1, <3>2, MarkMaximal DEF mark
  <2> HIDE DEF e
  <2>7. place \in Nat \X Nat
    BY <1>1, <1>2, <2>5, WalkTyped
  <2>8. "mark" \in Types /\ Placed("mark", e, Here, place)
    BY DEF Types, Placed
  <2> HIDE DEF place
  <2> QED
    BY <1>1, <1>2, <2>5, <2>6, <2>7, <2>8, <2>9 DEF TakesToken
<1> QED
  BY <1>3, <1>4

LEMMA StepKinds ==
  ASSUME ScannerState, Next
  PROVE  TakesToken \/ Stops
<1>1. CASE OpenComment
  <2>1. Running /\ Fail("kWhitespaceComment", pos, <<row, col>>)
    BY <1>1 DEF OpenComment
  <2>2. pos \in 1..End /\ <<row, col>> \in Nat \X Nat
    BY DEF ScannerState
  <2> QED
    BY <2>1, <2>2 DEF Stops
<1>2. CASE AtEnd
  <2>1. Running /\ Start = End /\ Fail("kSuccess", End, Here)
    BY <1>2 DEF AtEnd
  <2>2. End # 0
    BY DEF ScannerState, Strings, End
  <2>3. End \in 1..End /\ Here \in Nat \X Nat
    BY <2>1, <2>2, HereFacts
  <2> QED
    BY <2>1, <2>2, <2>3 DEF Stops
<1> QED
  BY <1>1, <1>2, NumberStep, QuotedStep, WordStep, MarkStep DEF Next

\* What taking a token does to the tokens.
LEMMA PushFacts ==
  ASSUME ScannerState, Running, Start # 0, NEW q \in Start + 1..End, NEW type \in Types,
         NEW a \in Nat \X Nat, NEW b \in Nat \X Nat, Push(type, Start, q, a, b)
  PROVE  LET n == Len(tokens)
             t == Token(type, Start, q, a)
         IN /\ n \in Nat /\ t \in TokenRecords /\ t.at = Start /\ t.lexeme = Text(Start, q)
            /\ t.row = a[1] /\ t.col = a[2] /\ t.type = type
            /\ Len(t.lexeme) = q - Start /\ q \in 1..End
            /\ tokens' \in Seq(TokenRecords) /\ Len(tokens') = n + 1
            /\ \A k \in 1..n : tokens'[k] = tokens[k]
            /\ tokens'[n + 1] = t
            /\ \A k \in 0..n : After(k)' = After(k)
            /\ \A k : k = n + 1 => After(k)' = q
            /\ text' = text /\ err' = err /\ pos' = q /\ row' = b[1] /\ col' = b[2]
<1> DEFINE n == Len(tokens)
           t == Token(type, Start, q, a)
<1>1. /\ Start \in 1..End /\ End \in Nat /\ End = Len(text) + 1 /\ Len(text) \in Nat
      /\ text \in Strings /\ tokens \in Seq(TokenRecords) /\ n \in Nat
  BY HereFacts DEF ScannerState
<1>2. /\ Start \in 1..Len(text) + 1 /\ q \in Nat /\ Start <= q /\ q - 1 <= Len(text) /\ q \in 1..End
      /\ q - Start \in Nat /\ Start \in Nat
  BY <1>1
<1>3. Text(Start, q) \in Strings /\ Len(Text(Start, q)) = q - Start
  BY <1>1, <1>2, SubFacts DEF Text
<1>4. /\ t.at = Start /\ t.lexeme = Text(Start, q) /\ t.row = a[1] /\ t.col = a[2] /\ t.type = type
      /\ t \in TokenRecords
  BY <1>2, <1>3 DEF Token, TokenRecords
<1>5. /\ tokens' = Append(tokens, t) /\ text' = text /\ err' = err /\ pos' = q
      /\ row' = b[1] /\ col' = b[2]
  BY DEF Push
<1> HIDE DEF t
<1>6. /\ tokens' \in Seq(TokenRecords) /\ Len(tokens') = n + 1
      /\ \A k \in 1..n : tokens'[k] = tokens[k]
      /\ tokens'[n + 1] = t
  BY <1>1, <1>4, <1>5
<1>7. ASSUME NEW k \in 0..n PROVE After(k)' = After(k)
  <2>1. k # 0 => tokens'[k] = tokens[k]
    BY <1>1, <1>6
  <2> QED
    BY <2>1 DEF After
<1>8. ASSUME NEW k, k = n + 1 PROVE After(k)' = q
  <2>1. k # 0 /\ Start + (q - Start) = q
    BY <1>1, <1>2, <1>8
  <2>2. After(k)' = t.at + Len(t.lexeme)
    BY <1>6, <1>8, <2>1 DEF After
  <2> QED
    BY <1>3, <1>4, <2>1, <2>2
<1> QED
  BY <1>1, <1>2, <1>3, <1>4, <1>5, <1>6, <1>7, <1>8 DEF t

LEMMA TokenKeepsState ==
  ASSUME ScannerState, TakesToken
  PROVE  ScannerState'
<1>1. Running /\ Start # 0
  BY DEF TakesToken
<1>2. PICK q \in Start + 1..End, type \in Types, a \in Nat \X Nat, b \in Nat \X Nat :
        Push(type, Start, q, a, b)
  BY DEF TakesToken
<1> DEFINE n == Len(tokens)
           t == Token(type, Start, q, a)
<1>3. /\ n \in Nat /\ t \in TokenRecords /\ t.at = Start /\ t.lexeme = Text(Start, q)
      /\ Len(t.lexeme) = q - Start /\ q \in 1..End
      /\ tokens' \in Seq(TokenRecords) /\ Len(tokens') = n + 1
      /\ \A k \in 1..n : tokens'[k] = tokens[k]
      /\ tokens'[n + 1] = t
      /\ \A k \in 0..n : After(k)' = After(k)
      /\ \A k : k = n + 1 => After(k)' = q
      /\ text' = text /\ err' = err /\ pos' = q /\ row' = b[1] /\ col' = b[2]
  BY <1>1, <1>2, PushFacts
<1> HIDE DEF t
<1>4. /\ Start \in 1..End /\ Start \in Gaps(text)[pos] /\ End \in Nat /\ pos = After(n)
      /\ tokens \in Seq(TokenRecords) /\ text \in Strings
      /\ \A k \in 1..n : tokens[k].at \in 1..End /\ After(k) \in 1..End
      /\ Lossless
  BY <1>1, HereFacts DEF ScannerState
<1>5. End' = End /\ b[1] \in Nat /\ b[2] \in Nat
  BY <1>3 DEF End
<1>6. ASSUME NEW k \in 1..n + 1 PROVE k = n + 1 \/ k \in 1..n
  BY <1>3
<1>7. ASSUME NEW k \in 1..n + 1 PROVE tokens'[k].at \in 1..End /\ After(k)' \in 1..End
  <2>1. CASE k \in 1..n
    <3>1. tokens'[k] = tokens[k] /\ After(k)' = After(k)
      BY <1>3, <2>1
    <3> QED
      BY <1>4, <2>1, <3>1
  <2>2. CASE k = n + 1
    <3>1. tokens'[k] = t /\ After(k)' = q
      BY <1>3, <2>2
    <3> QED
      BY <1>3, <1>4, <3>1
  <2> QED
    BY <1>6, <2>1, <2>2
<1>8. ASSUME NEW k \in 1..n + 1
      PROVE  /\ Len(tokens'[k].lexeme) > 0
             /\ tokens'[k].lexeme = Sub(text, tokens'[k].at, After(k)')
             /\ tokens'[k].at \in Gaps(text)[After(k - 1)']
  <2>1. CASE k \in 1..n
    <3>1. tokens'[k] = tokens[k] /\ After(k)' = After(k) /\ After(k - 1)' = After(k - 1)
      BY <1>3, <2>1
    <3>2. k \in DOMAIN tokens
      BY <1>4, <2>1
    <3> QED
      BY <1>4, <3>1, <3>2 DEF Lossless, Text
  <2>2. CASE k = n + 1
    <3>1. k - 1 = n /\ n \in 0..n
      BY <1>3, <2>2
    <3>2. Len(t.lexeme) > 0
      BY <1>3, <1>4
    <3>3. tokens'[k] = t /\ After(k)' = q /\ After(k - 1)' = pos
      BY <1>3, <1>4, <2>2, <3>1
    <3> QED
      BY <1>3, <1>4, <3>2, <3>3 DEF Text
  <2> QED
    BY <1>6, <2>1, <2>2
<1>9. DOMAIN tokens' = 1..n + 1
  BY <1>3
<1>10. err' # "kSuccess" /\ Running'
  BY <1>1, <1>3 DEF Running
<1>11. Lossless'
  BY <1>3, <1>8, <1>9, <1>10 DEF Lossless, Text
<1>12. pos' = After(Len(tokens))'
  <2>1. PICK k : k = n + 1
    OBVIOUS
  <2>2. After(k)' = q /\ Len(tokens') = k
    BY <1>3, <2>1
  <2>3. After(Len(tokens))' = After(k)'
    BY <2>2 DEF After
  <2> QED
    BY <1>3, <2>2, <2>3
<1> QED
  BY <1>3, <1>4, <1>5, <1>7, <1>11, <1>12 DEF ScannerState

LEMMA StopKeepsState ==
  ASSUME ScannerState, Stops
  PROVE  ScannerState'
<1>1. PICK code : \E q \in 1..End, a \in Nat \X Nat :
        Fail(code, q, a) /\ code # "running" /\ (code = "kSuccess" => Start = End)
  BY DEF Stops
<1>2. PICK q \in 1..End, a \in Nat \X Nat : Fail(code, q, a)
  BY <1>1
<1>3. /\ text' = text /\ tokens' = tokens /\ pos' = q /\ row' = a[1] /\ col' = a[2] /\ err' = code
      /\ a[1] \in Nat /\ a[2] \in Nat
  BY <1>2 DEF Fail
<1>4. End' = End /\ (\A k : After(k)' = After(k)) /\ ~Running'
  BY <1>1, <1>3 DEF End, After, Running
<1>5. code = "kSuccess" => End \in Gaps(text)[After(Len(tokens))]
  <2> SUFFICES ASSUME code = "kSuccess" PROVE End \in Gaps(text)[After(Len(tokens))]
    OBVIOUS
  <2>1. Start = End /\ Start # 0 /\ Running
    BY <1>1 DEF Stops, ScannerState, Strings, End
  <2> QED
    BY <2>1, HereFacts DEF ScannerState
<1>6. Lossless'
  BY <1>3, <1>4, <1>5 DEF Lossless, Text, ScannerState
<1> QED
  BY <1>3, <1>4, <1>6 DEF ScannerState

LEMMA ScannerStateInit == Init => ScannerState
<1> SUFFICES ASSUME NEW t \in Texts, InitWith(t) PROVE ScannerState
  BY DEF Init
<1>1. /\ text \in Strings /\ pos = 1 /\ row = 1 /\ col = 1 /\ tokens = <<>> /\ err = "running"
  BY LexerAssumption DEF InitWith, Strings
<1>2. Len(text) \in Nat /\ End \in Nat /\ 1 \in 1..End
  BY <1>1 DEF Strings, End
<1>3. tokens \in Seq(TokenRecords) /\ Len(tokens) = 0 /\ DOMAIN tokens = {} /\ 1..0 = {}
  BY <1>1
<1>4. After(Len(tokens)) = 1
  BY <1>3 DEF After
<1>5. Lossless
  BY <1>1, <1>3 DEF Lossless
<1> QED
  BY <1>1, <1>2, <1>3, <1>4, <1>5 DEF ScannerState

LEMMA ScannerStateStep ==
  ASSUME ScannerState, [Next]_vars
  PROVE  ScannerState'
<1>1. CASE Next
  BY <1>1, StepKinds, TokenKeepsState, StopKeepsState
<1>2. CASE UNCHANGED vars
  <2>1. text' = text /\ pos' = pos /\ row' = row /\ col' = col /\ tokens' = tokens /\ err' = err
    BY <1>2 DEF vars
  <2> QED
    BY <2>1 DEF ScannerState, Lossless, Text, After, End, Running
<1> QED
  BY <1>1, <1>2

\* Whatever the text, the scanner's fields have their types, its tokens lie in
\* the text, and it stands where the last one ends (Lexer::tokenize).
THEOREM ScannerStateInvariant == Spec => []ScannerState
BY ScannerStateInit, ScannerStateStep, PTL DEF Spec

\* Whatever the text, no character is lost or read twice: each token is the
\* text of its span, and what advance() drops between two tokens, or before the
\* end, is made of blanks and whole comments, whose brackets match.
THEOREM NothingLost == Spec => []Lossless
<1>1. ScannerState => Lossless
  BY DEF ScannerState
<1> QED
  BY <1>1, ScannerStateInvariant, PTL

\* Each turn of the loop takes a token of at least one character and leaves the
\* others as they are, or the scanner stops for good.
Advances == \/ pos' > pos /\ Len(tokens') = Len(tokens) + 1 /\ SubSeq(tokens', 1, Len(tokens)) = tokens
            \/ ~Running' /\ tokens' = tokens

\* Whatever the text, every turn makes progress, so tokenize() makes no more
\* turns than the text has characters, and one.
THEOREM EveryTurnAdvances == Spec => [][Running /\ Advances]_vars
<1>1. ASSUME ScannerState, [Next]_vars PROVE [Running /\ Advances]_vars
  <2>1. CASE TakesToken
    <3>1. Running /\ Start # 0
      BY <2>1 DEF TakesToken
    <3>2. PICK q \in Start + 1..End, type \in Types, a \in Nat \X Nat, b \in Nat \X Nat :
            Push(type, Start, q, a, b)
      BY <2>1 DEF TakesToken
    <3>3. /\ Len(tokens) \in Nat /\ tokens' \in Seq(TokenRecords) /\ Len(tokens') = Len(tokens) + 1
          /\ \A k \in 1..Len(tokens) : tokens'[k] = tokens[k]
          /\ pos' = q
      BY <1>1, <3>1, <3>2, PushFacts
    <3>4. tokens \in Seq(TokenRecords) /\ Start \in pos..End /\ pos \in Nat
      BY <1>1, <3>1, HereFacts DEF ScannerState, End
    <3>5. pos' > pos
      BY <1>1, <3>1, <3>3, <3>4, HereFacts
    <3>6. SubSeq(tokens', 1, Len(tokens)) = tokens
      BY <3>3, <3>4
    <3> QED
      BY <3>1, <3>3, <3>5, <3>6 DEF Advances
  <2>2. CASE Stops
    <3>1. Running /\ \E code, q, a : Fail(code, q, a) /\ code # "running"
      BY <2>2 DEF Stops
    <3> QED
      BY <3>1 DEF Advances, Fail, Running
  <2> QED
    BY <1>1, <2>1, <2>2, StepKinds
<1> QED
  BY <1>1, ScannerStateInvariant, PTL DEF Spec

-----------------------------------------------------------------------------
(* Rows and columns *)

\* advance_one() over a piece of the text moves from exact to exact.
LEMMA WalkExact ==
  ASSUME text \in Strings, NEW p \in 1..End, NEW q \in p..End
  PROVE  Walk(p, q, <<RowOf(text, p), ColOf(text, p)>>) = <<RowOf(text, q), ColOf(text, q)>>
<1> DEFINE lines == {k \in p..q - 1 : Char(text, k) = "\n"}
           P == Newlines(text, p)
           Q == Newlines(text, q)
           IsLast(T, k) == k \in T /\ \A j \in T : j <= k
           last(T) == CHOOSE k \in T : \A j \in T : j <= k
           place == <<RowOf(text, p), ColOf(text, p)>>
<1>1. End \in Nat /\ p \in Nat /\ q \in Nat /\ p >= 1 /\ p <= q
  BY DEF End, Strings
<1>2. Q = P \cup lines /\ P \cap lines = {}
  BY <1>1 DEF Newlines
<1>3. P \subseteq 1..p - 1 /\ lines \subseteq p..q - 1 /\ Q \subseteq 1..q - 1
  BY DEF Newlines
<1>4. IsFiniteSet(P) /\ IsFiniteSet(lines) /\ Cardinality(P) \in Nat /\ Cardinality(lines) \in Nat
  <2>1. IsFiniteSet(1..p - 1) /\ IsFiniteSet(p..q - 1)
    BY <1>1, FS_Interval
  <2>2. IsFiniteSet(P) /\ IsFiniteSet(lines)
    BY <1>3, <2>1, FS_Subset, Zenon
  <2> QED
    BY <2>2, FS_CardinalityType
<1>5. Walk(p, q, place) = IF lines = {} THEN <<place[1], place[2] + (q - p)>>
                          ELSE <<place[1] + Cardinality(lines), q - last(lines)>>
  BY DEF Walk
<1>6. /\ RowOf(text, p) = 1 + Cardinality(P) /\ ColOf(text, p) = p - IF P = {} THEN 0 ELSE last(P)
      /\ RowOf(text, q) = 1 + Cardinality(Q) /\ ColOf(text, q) = q - IF Q = {} THEN 0 ELSE last(Q)
  BY DEF RowOf, ColOf
<1>7. place[1] = RowOf(text, p) /\ place[2] = ColOf(text, p)
  OBVIOUS
<1> HIDE DEF place, lines, P, Q
<1>8. \A T \in SUBSET (0..q) : T # {} => IsLast(T, last(T))
  <2> SUFFICES ASSUME NEW T \in SUBSET (0..q), T # {} PROVE IsLast(T, last(T))
    OBVIOUS
  <2>1. \E k \in T : \A j \in T : j <= k
    BY <1>1, Greatest
  <2> QED
    BY <2>1
<1> HIDE DEF last
<1>9. CASE lines = {}
  <2>1. Q = P
    BY <1>2, <1>9
  <2>2. P # {} => last(P) \in Nat
    <3>1. P \in SUBSET (0..q)
      BY <1>1, <1>3
    <3>2. P # {} => IsLast(P, last(P))
      BY <1>8, <3>1
    <3>3. P # {} => last(P) \in 0..q
      BY <3>1, <3>2, Zenon
    <3> QED
      BY <3>3
  <2> DEFINE m == IF P = {} THEN 0 ELSE last(P)
  <2>3. m \in Nat
    BY <2>2
  <2>4. (p - m) + (q - p) = q - m
    BY <1>1, <2>3
  <2>5. Walk(p, q, place) = <<place[1], place[2] + (q - p)>>
    BY <1>5, <1>9
  <2> HIDE DEF m
  <2>6. ColOf(text, p) = p - m /\ ColOf(text, q) = q - m
    BY <1>6, <2>1 DEF m
  <2> QED
    BY <1>6, <1>7, <2>1, <2>4, <2>5, <2>6 DEF place
<1>10. CASE lines # {}
  <2>1. Cardinality(Q) = Cardinality(P) + Cardinality(lines)
    <3>1. Cardinality(P \cup lines) = Cardinality(P) + Cardinality(lines) - Cardinality(P \cap lines)
      BY <1>4, FS_Union
    <3>2. Cardinality(P \cap lines) = 0
      BY <1>2, FS_EmptySet
    <3> QED
      BY <1>2, <1>4, <3>1, <3>2
  <2>2. lines \in SUBSET (0..q) /\ Q \in SUBSET (0..q) /\ Q # {}
    BY <1>1, <1>2, <1>3, <1>10
  <2>3. IsLast(lines, last(lines)) /\ IsLast(Q, last(Q))
    BY <1>8, <1>10, <2>2
  <2>4. last(Q) = last(lines)
    <3>1. last(lines) \in Q /\ last(lines) <= last(Q)
      BY <1>2, <2>3
    <3>2. last(Q) \in P => last(Q) < last(lines)
      <4>1. last(lines) \in p..q - 1 /\ (last(Q) \in P => last(Q) \in 1..p - 1)
        BY <1>3, <2>3, Zenon
      <4> QED
        BY <1>1, <4>1
    <3>3. last(Q) \in lines => last(Q) <= last(lines)
      BY <2>3
    <3>4. last(Q) \in Nat /\ last(lines) \in Nat
      <4>1. last(Q) \in 0..q /\ last(lines) \in 0..q
        BY <2>2, <2>3, Zenon
      <4> QED
        BY <4>1
    <3> QED
      BY <1>2, <2>3, <3>1, <3>2, <3>3, <3>4
  <2>5. Walk(p, q, place) = <<place[1] + Cardinality(lines), q - last(lines)>>
    BY <1>5, <1>10
  <2>6. place[1] + Cardinality(lines) = RowOf(text, q)
    BY <1>4, <1>6, <1>7, <2>1
  <2>7. q - last(lines) = ColOf(text, q)
    BY <1>6, <2>2, <2>4
  <2> QED
    BY <2>5, <2>6, <2>7 DEF place
<1> QED
  BY <1>9, <1>10 DEF place

NoneSwallowed ==
  \A k \in DOMAIN tokens : Swallows(tokens[k]) => Char(text, After(k) - 1) # "\n"
TokenExact(k) ==
  LET p == IF tokens[k].type \in {"string", "char"} THEN After(k) ELSE tokens[k].at
  IN tokens[k].row = RowOf(text, p) /\ tokens[k].col = ColOf(text, p)
PlaceOf(p) == <<RowOf(text, p), ColOf(text, p)>>

LEMMA PlacesParts ==
  Places <=> (NoneSwallowed => PositionExact /\ \A k \in DOMAIN tokens : TokenExact(k))
BY DEF Places, NoneSwallowed, TokenExact

LEMMA HereExact ==
  ASSUME ScannerState, PositionExact, Start # 0
  PROVE  Here = PlaceOf(Start)
<1>1. text \in Strings /\ pos \in 1..End /\ Start \in pos..End
  BY HereFacts DEF ScannerState
<1>2. <<row, col>> = PlaceOf(pos)
  BY DEF PositionExact, PlaceOf
<1> QED
  BY <1>1, <1>2, WalkExact DEF Here, PlaceOf

LEMMA TokenKeepsPlaces ==
  ASSUME ScannerState, Places, TakesToken
  PROVE  Places'
<1>1. Running /\ Start # 0
  BY DEF TakesToken
<1>2. PICK q \in Start + 1..End, type \in Types, a \in Nat \X Nat, b \in Nat \X Nat :
        Push(type, Start, q, a, b) /\ Placed(type, q, a, b)
  BY DEF TakesToken
<1> DEFINE n == Len(tokens)
           t == Token(type, Start, q, a)
<1>3. /\ n \in Nat /\ t \in TokenRecords /\ t.at = Start /\ t.lexeme = Text(Start, q)
      /\ t.row = a[1] /\ t.col = a[2] /\ t.type = type
      /\ Len(t.lexeme) = q - Start /\ q \in 1..End
      /\ tokens' \in Seq(TokenRecords) /\ Len(tokens') = n + 1
      /\ \A k \in 1..n : tokens'[k] = tokens[k]
      /\ tokens'[n + 1] = t
      /\ \A k \in 0..n : After(k)' = After(k)
      /\ \A k : k = n + 1 => After(k)' = q
      /\ text' = text /\ pos' = q /\ row' = b[1] /\ col' = b[2]
  BY <1>1, <1>2, PushFacts
<1> HIDE DEF t
<1>4. /\ Start \in 1..End /\ End \in Nat /\ End = Len(text) + 1 /\ Len(text) \in Nat
      /\ tokens \in Seq(TokenRecords) /\ text \in Strings
  BY <1>1, HereFacts DEF ScannerState
<1>5. DOMAIN tokens' = 1..n + 1 /\ DOMAIN tokens = 1..n
  BY <1>3, <1>4
<1> SUFFICES ASSUME NoneSwallowed' PROVE PositionExact' /\ (\A k \in DOMAIN tokens : TokenExact(k))'
  BY PlacesParts, PTL
<1>6. PositionExact /\ \A k \in 1..n : TokenExact(k)
  <2>1. NoneSwallowed
    <3> SUFFICES ASSUME NEW k \in 1..n, Swallows(tokens[k]) PROVE Char(text, After(k) - 1) # "\n"
      BY <1>5 DEF NoneSwallowed
    <3>1. k \in 1..n + 1 /\ tokens'[k] = tokens[k] /\ After(k)' = After(k)
      BY <1>3
    <3>2. Swallows(tokens'[k]) => Char(text, After(k)' - 1) # "\n"
      BY <1>3, <1>5, <3>1 DEF NoneSwallowed
    <3> QED
      BY <3>1, <3>2
  <2> QED
    BY <1>5, <2>1, PlacesParts
<1>7. Here = PlaceOf(Start) /\ Walk(Start, q, Here) = PlaceOf(q)
  <2>1. q \in Start..End
    BY <1>4
  <2>2. Here = PlaceOf(Start)
    BY <1>1, <1>6, HereExact
  <2> QED
    BY <1>4, <2>1, <2>2, WalkExact DEF PlaceOf
<1>8. ASSUME type = "float", Char(text, q - 1) = "\n" PROVE FALSE
  <2>1. Len(t.lexeme) = q - Start /\ q - Start \in Nat \ {0} /\ Start + (q - Start - 1) = q - 1
    BY <1>3, <1>4
  <2>2. Char(t.lexeme, Len(t.lexeme)) = Char(text, q - 1)
    <3>1. Start \in 1..Len(text) + 1 /\ q \in Nat /\ Start <= q
      BY <1>4
    <3>2. \A k \in 1..Len(Text(Start, q)) : Text(Start, q)[k] = text[Start + k - 1]
      BY <1>4, <3>1, SubFacts DEF Text
    <3>3. t.lexeme[q - Start] = text[Start + (q - Start) - 1] /\ Start + (q - Start) - 1 = q - 1
      BY <1>3, <1>4, <2>1, <3>2
    <3>4. q - 1 <= Len(text)
      BY <1>4
    <3> QED
      BY <1>3, <2>1, <3>3, <3>4 DEF Char
  <2>3. Swallows(t)
    BY <1>3, <1>8, <2>2, KindFacts DEF Swallows
  <2>4. PICK k : k = n + 1
    OBVIOUS
  <2>5. k \in 1..n + 1 /\ tokens'[k] = t /\ After(k)' = q
    BY <1>3, <2>4
  <2>6. Swallows(tokens'[k]) => Char(text, After(k)' - 1) # "\n"
    BY <1>3, <1>5, <2>5 DEF NoneSwallowed
  <2> QED
    BY <1>8, <2>3, <2>5, <2>6
<1>9. b = PlaceOf(q) /\ a = PlaceOf(IF type \in {"string", "char"} THEN q ELSE Start)
  <2>1. CASE type \in {"string", "char"}
    BY <1>2, <1>7, <2>1 DEF Placed
  <2>2. CASE type \notin {"string", "char"}
    <3>1. a = Here
      BY <1>2, <2>2 DEF Placed
    <3>2. b = Walk(Start, q, Here)
      <4>1. CASE /\ b = <<Here[1], Here[2] + (q - Start)>>
                 /\ \A k \in Start..q - 1 : Char(text, k) = "\n" => type = "float" /\ k = q - 1
        <5>1. {k \in Start..q - 1 : Char(text, k) = "\n"} = {}
          BY <1>8, <4>1
        <5> QED
          BY <4>1, <5>1, Zenon DEF Walk
      <4> QED
        BY <1>2, <2>2, <4>1 DEF Placed
    <3> QED
      BY <1>7, <2>2, <3>1, <3>2
  <2> QED
    BY <2>1, <2>2
<1>10. PositionExact'
  <2>1. row' = RowOf(text', pos') /\ col' = ColOf(text', pos')
    BY <1>3, <1>9 DEF PlaceOf
  <2> QED
    BY <2>1 DEF PositionExact
<1>11. ASSUME NEW k \in 1..n + 1 PROVE TokenExact(k)'
  <2>1. CASE k \in 1..n
    <3>1. tokens'[k] = tokens[k] /\ After(k)' = After(k) /\ text' = text
      BY <1>3, <2>1
    <3> QED
      BY <1>6, <2>1, <3>1 DEF TokenExact
  <2>2. CASE k = n + 1
    <3>1. tokens'[k] = t /\ After(k)' = q /\ text' = text
      BY <1>3, <2>2
    <3>2. t.row = RowOf(text, IF type \in {"string", "char"} THEN q ELSE Start)
          /\ t.col = ColOf(text, IF type \in {"string", "char"} THEN q ELSE Start)
      BY <1>3, <1>9 DEF PlaceOf
    <3> QED
      BY <1>3, <3>1, <3>2 DEF TokenExact
  <2>3. k = n + 1 \/ k \in 1..n
    BY <1>3
  <2> QED
    BY <2>1, <2>2, <2>3
<1> QED
  BY <1>5, <1>10, <1>11

LEMMA StopKeepsPlaces ==
  ASSUME ScannerState, Places, Stops
  PROVE  Places'
<1>1. PICK code : \E q \in 1..End, a \in Nat \X Nat :
        /\ Fail(code, q, a)
        /\ \/ q = pos /\ a = <<row, col>>
           \/ Start # 0 /\ q = Start /\ a = Here
           \/ Start # 0 /\ q \in Start..End /\ a = Walk(Start, q, Here)
  BY DEF Stops
<1>2. PICK q \in 1..End, a \in Nat \X Nat :
        /\ Fail(code, q, a)
        /\ \/ q = pos /\ a = <<row, col>>
           \/ Start # 0 /\ q = Start /\ a = Here
           \/ Start # 0 /\ q \in Start..End /\ a = Walk(Start, q, Here)
  BY <1>1
<1>3. text' = text /\ tokens' = tokens /\ pos' = q /\ row' = a[1] /\ col' = a[2]
  BY <1>2 DEF Fail
<1> SUFFICES ASSUME NoneSwallowed' PROVE PositionExact' /\ (\A k \in DOMAIN tokens : TokenExact(k))'
  BY PlacesParts, PTL
<1>4. PositionExact /\ \A k \in DOMAIN tokens : TokenExact(k)
  <2>1. NoneSwallowed
    BY <1>3 DEF NoneSwallowed, After
  <2> QED
    BY <2>1, PlacesParts
<1>5. a = PlaceOf(q)
  <2>1. CASE q = pos /\ a = <<row, col>>
    BY <1>4, <2>1 DEF PositionExact, PlaceOf
  <2>2. CASE Start # 0 /\ q = Start /\ a = Here
    BY <1>4, <2>2, HereExact
  <2>3. CASE Start # 0 /\ q \in Start..End /\ a = Walk(Start, q, Here)
    <3>1. text \in Strings /\ Start \in 1..End /\ Here = PlaceOf(Start)
      BY <1>4, <2>3, HereExact, HereFacts DEF ScannerState
    <3> QED
      BY <2>3, <3>1, WalkExact DEF PlaceOf
  <2> QED
    BY <1>2, <2>1, <2>2, <2>3
<1>6. PositionExact'
  <2>1. row' = RowOf(text', pos') /\ col' = ColOf(text', pos')
    BY <1>3, <1>5 DEF PlaceOf
  <2> QED
    BY <2>1 DEF PositionExact
<1>7. (\A k \in DOMAIN tokens : TokenExact(k))'
  BY <1>3, <1>4 DEF TokenExact, After
<1> QED
  BY <1>6, <1>7

\* Whatever the text, _row and _col are the exact position of _pos, and every
\* token carries its exact place, unless a number such as "1." has taken the
\* newline after its point with it (advance_one, tokenize_number_literal).
THEOREM PlacesExact == Spec => []Places
<1>1. Init => Places
  <2> SUFFICES ASSUME NEW t \in Texts, InitWith(t) PROVE Places
    BY DEF Init
  <2>1. pos = 1 /\ row = 1 /\ col = 1 /\ tokens = <<>>
    BY DEF InitWith
  <2>2. Newlines(text, 1) = {}
    BY DEF Newlines
  <2>3. RowOf(text, 1) = 1 /\ ColOf(text, 1) = 1
    BY <2>2, FS_EmptySet DEF RowOf, ColOf
  <2>4. PositionExact /\ DOMAIN tokens = {}
    BY <2>1, <2>3 DEF PositionExact
  <2> QED
    BY <2>4, PlacesParts
<1>2. ASSUME ScannerState, Places, [Next]_vars PROVE Places'
  <2>1. CASE Next
    BY <1>2, <2>1, StepKinds, TokenKeepsPlaces, StopKeepsPlaces
  <2>2. CASE UNCHANGED vars
    <3>1. text' = text /\ pos' = pos /\ row' = row /\ col' = col /\ tokens' = tokens
      BY <2>2 DEF vars
    <3> QED
      BY <1>2, <3>1 DEF Places, PositionExact, After
  <2> QED
    BY <1>2, <2>1, <2>2
<1> QED
  BY <1>1, <1>2, ScannerStateInvariant, PTL DEF Spec

-----------------------------------------------------------------------------
(* Tokens are the longest *)

\* The part of LongestMatch that is about the token k.
TokenMaximal(k) == Maximal(tokens[k].type, tokens[k].at, After(k))

\* LongestMatch, token by token.
LEMMA LongestMatchParts ==
  ScannerState => (LongestMatch <=> \A k \in 1..Len(tokens) : TokenMaximal(k))
<1> SUFFICES ASSUME ScannerState PROVE LongestMatch <=> \A k \in 1..Len(tokens) : TokenMaximal(k)
  OBVIOUS
<1>1. DOMAIN tokens = 1..Len(tokens)
  BY DEF ScannerState
<1>2. ASSUME NEW k \in 1..Len(tokens) PROVE tokens[k].lexeme = Text(tokens[k].at, After(k))
  BY <1>1 DEF ScannerState, Lossless
<1> QED
  BY <1>1, <1>2 DEF LongestMatch, TokenMaximal, Maximal, Swallows, CutsSuffix

\* A token that is taken is the longest, and the others stay so.
LEMMA TokenKeepsLongest ==
  ASSUME ScannerState, TakesToken, LongestMatch
  PROVE  LongestMatch'
<1>1. Running /\ Start # 0
  BY DEF TakesToken
<1>2. PICK q \in Start + 1..End, type \in Types, a \in Nat \X Nat, b \in Nat \X Nat :
        Push(type, Start, q, a, b) /\ Maximal(type, Start, q)
  BY DEF TakesToken
<1> DEFINE n == Len(tokens)
           t == Token(type, Start, q, a)
<1>3. /\ n \in Nat /\ t.at = Start /\ t.type = type /\ Len(tokens') = n + 1
      /\ \A k \in 1..n : tokens'[k] = tokens[k]
      /\ tokens'[n + 1] = t
      /\ \A k \in 0..n : After(k)' = After(k)
      /\ \A k : k = n + 1 => After(k)' = q
      /\ text' = text
  BY <1>1, <1>2, PushFacts
<1> HIDE DEF t
<1>4. ScannerState'
  BY TokenKeepsState
<1>5. ASSUME NEW k \in 1..n + 1 PROVE TokenMaximal(k)'
  <2>1. CASE k = n + 1
    <3>1. tokens'[k].type = type /\ tokens'[k].at = Start /\ After(k)' = q
      BY <1>3, <2>1
    <3> QED
      BY <1>2, <1>3, <3>1 DEF TokenMaximal, Maximal, Text, End
  <2>2. CASE k \in 1..n
    <3>1. tokens'[k] = tokens[k] /\ After(k)' = After(k)
      BY <1>3, <2>2
    <3>2. TokenMaximal(k)
      BY <2>2, LongestMatchParts
    <3> QED
      BY <1>3, <3>1, <3>2 DEF TokenMaximal, Maximal, Text, End
  <2> QED
    BY <1>3, <2>1, <2>2
<1>6. \A k \in 1..Len(tokens') : TokenMaximal(k)'
  BY <1>3, <1>5
<1>7. (ScannerState => (LongestMatch <=> \A k \in 1..Len(tokens) : TokenMaximal(k)))'
  BY LongestMatchParts, PTL
<1> QED
  BY <1>4, <1>6, <1>7

\* Whatever the text, each token that is no string is the longest lexeme of the
\* language at its start, a number within MaxLiteral characters: no branch of
\* the switch hides a longer mark, a word takes all that belongs to it, and no
\* pattern for numbers stops short of another, except before the suffix of a
\* float, which is all that is then left out (Lexer::tokenize).
THEOREM LongestTokens == Spec => []LongestMatch
<1>1. Init => LongestMatch
  BY DEF Init, InitWith, LongestMatch
<1>2. ASSUME ScannerState, LongestMatch, [Next]_vars PROVE LongestMatch'
  <2>1. CASE Next
    <3>1. CASE Stops
      <4>1. text' = text /\ tokens' = tokens
        BY <3>1 DEF Stops, Fail
      <4> QED
        BY <1>2, <4>1 DEF LongestMatch, Swallows, CutsSuffix, After, End, Text
    <3> QED
      BY <1>2, <2>1, <3>1, StepKinds, TokenKeepsLongest
  <2>2. CASE UNCHANGED vars
    <3>1. text' = text /\ tokens' = tokens
      BY <2>2 DEF vars
    <3> QED
      BY <1>2, <3>1 DEF LongestMatch, Swallows, CutsSuffix, After, End, Text
  <2> QED
    BY <1>2, <2>1, <2>2
<1> QED
  BY <1>1, <1>2, ScannerStateInvariant, PTL DEF Spec
=============================================================================
