-------------------------- MODULE JsonParserProofs --------------------------
(***************************************************************************)
(* For every set of strings and scalars, every nesting limit and every     *)
(* length of text: the parser's recursion is bounded by the limit, it      *)
(* accepts exactly the JSON texts, and it returns what they denote.        *)
(***************************************************************************)
EXTENDS JsonText, RecursionLemmas, SequenceTheorems, FiniteSetTheorems

IInv == TypeOK /\ PlaceMatchesStack /\ RecursionBounded

\* What leaving an activation does to the stack.
LEMMA BelowType ==
  ASSUME NEW S, NEW s \in Seq(S), s # <<>>
  PROVE  /\ Below(s) \in Seq(S)
         /\ Len(Below(s)) = Len(s) - 1
         /\ Len(s) \in Nat \ {0}
<1>1. Len(s) \in Nat \ {0}
  BY LenProperties, EmptySeq
<1> DEFINE n == Len(s) - 1
<1>2. n \in Int /\ 1 \in Int /\ n \geq 0
  BY <1>1
<1>3. \A i \in 1..n : s[i] \in S
  BY <1>1, ElementOfSeq
<1> HIDE DEF n
<1>4. SubSeq(s, 1, n) \in Seq(S) /\ Len(SubSeq(s, 1, n)) = n
  BY <1>2, <1>3, SubSeqProperties, Z3
<1> QED
  BY <1>1, <1>4 DEF Below, n

\* Where ParseValue returns to.
LEMMA ReturnPlace ==
  ASSUME NEW v, NEW st, NEW bs, Return(v, st, bs)
  PROVE  /\ stack' = st
         /\ st = <<>> => pc' = "end"
         /\ st # <<>> => pc' = "after"
  BY DEF Return

\* The parser starts with no activation.
LEMMA InitEstablishes == Init => IInv
  BY ParserAssumption
  DEF Init, IInv, TypeOK, PlaceMatchesStack, RecursionBounded, Places

\* ++cursor_ keeps the types of the text and of the next token.
LEMMA AdvanceTypes ==
  ASSUME TypeOK, Advance, peek \in Tokens
  PROVE  /\ text' \in Seq(Tokens)
         /\ peek' \in Tokens \cup {EOF}
<1>1. text \in Seq(Tokens) BY DEF TypeOK
<1>2. text' \in Seq(Tokens) BY <1>1, AppendProperties DEF Advance
<1> QED BY <1>2 DEF Advance

\* Every step of the parser keeps the invariant.
LEMMA StepPreserves == IInv /\ [Next]_vars => IInv'
<1> SUFFICES ASSUME IInv, [Next]_vars PROVE IInv'
  OBVIOUS
<1> USE ParserAssumption DEF IInv
<1>1. CASE SkipWhitespace
  <2>1. peek \in Tokens
    BY <1>1 DEF SkipWhitespace, Tokens, Punctuation, Openers, Atoms
  <2>2. text' \in Seq(Tokens) /\ peek' \in Tokens \cup {EOF}
    BY <1>1, <2>1, AdvanceTypes DEF SkipWhitespace
  <2> QED
    BY <1>1, <2>2
    DEF SkipWhitespace, TypeOK, PlaceMatchesStack, RecursionBounded, Places
<1>2. CASE ParseScalar
  <2>1. peek \in Tokens
    BY <1>2 DEF ParseScalar, Tokens, Punctuation, Openers, Atoms
  <2>2. text' \in Seq(Tokens) /\ peek' \in Tokens \cup {EOF}
    BY <1>2, <2>1, AdvanceTypes DEF ParseScalar
  <2>3. Len(stack) \in Nat
    BY LenProperties DEF TypeOK
  <2>4. /\ stack' = stack
        /\ stack = <<>> => pc' = "end"
        /\ stack # <<>> => pc' = "after"
    BY <1>2, ReturnPlace DEF ParseScalar
  <2>5. Len(stack') \in Nat /\ Len(stack') \leq MaxDepth
    BY <1>2, <2>3, <2>4 DEF ParseScalar, TooDeep, RecursionBounded
  <2>a. TypeOK'
    BY <2>2, <2>3, <2>4, <2>5 DEF TypeOK, Places
  <2>b. PlaceMatchesStack'
    BY <2>2, <2>3, <2>4, <2>5 DEF PlaceMatchesStack
  <2>c. RecursionBounded'
    BY <2>2, <2>3, <2>4, <2>5 DEF RecursionBounded
  <2> QED
    BY <2>a, <2>b, <2>c
<1>3. CASE OpenContainer
  <2>1. peek \in Tokens
    BY <1>3 DEF OpenContainer, Tokens, Punctuation, Openers, Atoms
  <2>2. text' \in Seq(Tokens) /\ peek' \in Tokens \cup {EOF}
    BY <1>3, <2>1, AdvanceTypes DEF OpenContainer
  <2>3. /\ stack' \in Seq(Openers) /\ stack' # <<>>
        /\ Len(stack') = Len(stack) + 1 /\ Len(stack) \in Nat
    <3>1. stack \in Seq(Openers) /\ peek \in Openers
      BY <1>3 DEF OpenContainer, TypeOK
    <3>2. stack' = Append(stack, peek)
      BY <1>3 DEF OpenContainer
    <3> QED
      BY <3>1, <3>2, AppendProperties, LenProperties
  <2>4. Len(stack) \leq MaxDepth /\ pc' = "open"
    BY <1>3, <2>3 DEF OpenContainer, TooDeep
  <2>a. TypeOK'
    BY <2>2, <2>3, <2>4 DEF TypeOK, Places
  <2>b. PlaceMatchesStack'
    BY <2>2, <2>3, <2>4 DEF PlaceMatchesStack
  <2>c. RecursionBounded'
    BY <2>2, <2>3, <2>4 DEF RecursionBounded
  <2> QED
    BY <2>a, <2>b, <2>c
<1>4. CASE CloseEmpty
  <2>1. peek \in Tokens
    BY <1>4 DEF CloseEmpty, Tokens, Punctuation, Openers, Atoms, Closer
  <2>2. text' \in Seq(Tokens) /\ peek' \in Tokens \cup {EOF}
    BY <1>4, <2>1, AdvanceTypes DEF CloseEmpty
  <2>3. /\ Below(stack) \in Seq(Openers)
        /\ Len(Below(stack)) = Len(stack) - 1
        /\ Len(stack) \in Nat
    BY <1>4, BelowType DEF CloseEmpty, TypeOK, PlaceMatchesStack
  <2>4. /\ stack' = Below(stack)
        /\ Below(stack) = <<>> => pc' = "end"
        /\ Below(stack) # <<>> => pc' = "after"
    BY <1>4, ReturnPlace DEF CloseEmpty
  <2>5. Len(stack') \in Nat /\ Len(stack') \leq MaxDepth
    BY <1>4, <2>3, <2>4 DEF CloseEmpty, RecursionBounded
  <2>a. TypeOK'
    BY <2>2, <2>3, <2>4, <2>5 DEF TypeOK, Places
  <2>b. PlaceMatchesStack'
    BY <2>2, <2>3, <2>4, <2>5 DEF PlaceMatchesStack
  <2>c. RecursionBounded'
    BY <2>2, <2>3, <2>4, <2>5 DEF RecursionBounded
  <2> QED
    BY <2>a, <2>b, <2>c
<1>5. CASE EnterLoop
  BY <1>5 DEF EnterLoop, TypeOK, PlaceMatchesStack, RecursionBounded, Places
<1>6. CASE ParseKey
  <2>1. peek \in Tokens
    BY <1>6 DEF ParseKey, Tokens, Punctuation, Openers, Atoms
  <2>2. text' \in Seq(Tokens) /\ peek' \in Tokens \cup {EOF}
    BY <1>6, <2>1, AdvanceTypes DEF ParseKey
  <2> QED
    BY <1>6, <2>2
    DEF ParseKey, TypeOK, PlaceMatchesStack, RecursionBounded, Places
<1>7. CASE ParseColon
  <2>1. peek \in Tokens
    BY <1>7 DEF ParseColon, Tokens, Punctuation, Openers, Atoms
  <2>2. text' \in Seq(Tokens) /\ peek' \in Tokens \cup {EOF}
    BY <1>7, <2>1, AdvanceTypes DEF ParseColon
  <2> QED
    BY <1>7, <2>2
    DEF ParseColon, TypeOK, PlaceMatchesStack, RecursionBounded, Places
<1>8. CASE ParseComma
  <2>1. peek \in Tokens
    BY <1>8 DEF ParseComma, Tokens, Punctuation, Openers, Atoms
  <2>2. text' \in Seq(Tokens) /\ peek' \in Tokens \cup {EOF}
    BY <1>8, <2>1, AdvanceTypes DEF ParseComma
  <2> QED
    BY <1>8, <2>2
    DEF ParseComma, TypeOK, PlaceMatchesStack, RecursionBounded, Places
<1>9. CASE CloseContainer
  <2>1. peek \in Tokens
    BY <1>9 DEF CloseContainer, Tokens, Punctuation, Openers, Atoms, Closer
  <2>2. text' \in Seq(Tokens) /\ peek' \in Tokens \cup {EOF}
    BY <1>9, <2>1, AdvanceTypes DEF CloseContainer
  <2>3. /\ Below(stack) \in Seq(Openers)
        /\ Len(Below(stack)) = Len(stack) - 1
        /\ Len(stack) \in Nat
    BY <1>9, BelowType DEF CloseContainer, TypeOK, PlaceMatchesStack
  <2>4. /\ stack' = Below(stack)
        /\ Below(stack) = <<>> => pc' = "end"
        /\ Below(stack) # <<>> => pc' = "after"
    BY <1>9, ReturnPlace DEF CloseContainer
  <2>5. Len(stack') \in Nat /\ Len(stack') \leq MaxDepth
    BY <1>9, <2>3, <2>4 DEF CloseContainer, RecursionBounded
  <2>a. TypeOK'
    BY <2>2, <2>3, <2>4, <2>5 DEF TypeOK, Places
  <2>b. PlaceMatchesStack'
    BY <2>2, <2>3, <2>4, <2>5 DEF PlaceMatchesStack
  <2>c. RecursionBounded'
    BY <2>2, <2>3, <2>4, <2>5 DEF RecursionBounded
  <2> QED
    BY <2>a, <2>b, <2>c
<1>10. CASE Accept
  BY <1>10 DEF Accept, TypeOK, PlaceMatchesStack, RecursionBounded, Places
<1>11. CASE Reject
  BY <1>11 DEF Reject, TypeOK, PlaceMatchesStack, RecursionBounded, Places
<1>12. CASE Returned
  BY <1>12 DEF Returned, vars, TypeOK, PlaceMatchesStack, RecursionBounded, Places
<1>13. CASE UNCHANGED vars
  BY <1>13 DEF vars, TypeOK, PlaceMatchesStack, RecursionBounded, Places
<1> QED
  BY <1>1, <1>2, <1>3, <1>4, <1>5, <1>6, <1>7, <1>8, <1>9, <1>10, <1>11,
     <1>12, <1>13 DEF Next

\* The types, and that the parser never reads past the end of the text: the
\* whole text it has consumed is tokens, never the end-of-text mark.
THEOREM ParserTypeCorrect == Spec => []TypeOK
<1>1. IInv => TypeOK
  BY DEF IInv
<1> QED
  BY <1>1, InitEstablishes, StepPreserves, PTL DEF Spec

\* ParseValue never has more than kMaximumJsonDepth + 1 containers open, and
\* the one beyond the limit completes no item, whatever the text.
THEOREM ParserRecursionBounded == Spec => []RecursionBounded
<1>1. IInv => RecursionBounded
  BY DEF IInv
<1> QED
  BY <1>1, InitEstablishes, StepPreserves, PTL DEF Spec

-----------------------------------------------------------------------------
(***************************************************************************)
(* Texts.                                                                  *)
(***************************************************************************)
Text == Seq(Tokens)

\* A text with one more token.
LEMMA AppendText ==
  ASSUME NEW s \in Text, NEW t \in Tokens
  PROVE  /\ Append(s, t) \in Text /\ Append(s, t) # <<>>
         /\ Len(s) \in Nat /\ Len(Append(s, t)) = Len(s) + 1
         /\ \A i \in 1..Len(s) : Append(s, t)[i] = s[i]
         /\ Append(s, t)[Len(s) + 1] = t
<1>1. Len(s) \in Nat
  BY LenProperties DEF Text
<1> QED
  BY <1>1, AppendProperties DEF Text

\* A piece of a text.
LEMMA Piece ==
  ASSUME NEW s \in Text, NEW a \in Nat, NEW b \in Int, a \geq 1, b \leq Len(s)
  PROVE  /\ SubSeq(s, a, b) \in Text
         /\ Len(SubSeq(s, a, b)) = IF a \leq b THEN b - a + 1 ELSE 0
         /\ \A i \in 1..(b - a + 1) : SubSeq(s, a, b)[i] = s[a + i - 1]
<1>1. Len(s) \in Nat
  BY LenProperties DEF Text
<1>2. \A i \in a..b : s[i] \in Tokens
  <2> TAKE i \in a..b
  <2>1. i \in 1..Len(s)
    BY <1>1
  <2> QED
    BY <2>1, ElementOfSeq DEF Text
<1>3. /\ SubSeq(s, a, b) \in Seq(Tokens)
      /\ Len(SubSeq(s, a, b)) = IF a \leq b THEN b - a + 1 ELSE 0
      /\ \A i \in 1..(b - a + 1) : SubSeq(s, a, b)[i] = s[a + i - 1]
  BY <1>2, SubSeqProperties
<1> QED
  BY <1>3 DEF Text

\* The pieces of a text that do not reach the token appended to it.
LEMMA PieceOfAppend ==
  ASSUME NEW s \in Text, NEW t \in Tokens, NEW a \in Nat, NEW b \in Int,
         a \geq 1, b \leq Len(s)
  PROVE  SubSeq(Append(s, t), a, b) = SubSeq(s, a, b)
<1> DEFINE r == Append(s, t)
           p == SubSeq(s, a, b)
           q == SubSeq(r, a, b)
<1>1. /\ r \in Text /\ Len(r) = Len(s) + 1 /\ Len(s) \in Nat
      /\ \A i \in 1..Len(s) : r[i] = s[i]
  BY AppendText
<1> HIDE DEF r
<1>2. b \leq Len(r)
  BY <1>1
<1>3. /\ p \in Text /\ Len(p) = IF a \leq b THEN b - a + 1 ELSE 0
      /\ \A i \in 1..(b - a + 1) : p[i] = s[a + i - 1]
  BY Piece
<1>4. /\ q \in Text /\ Len(q) = IF a \leq b THEN b - a + 1 ELSE 0
      /\ \A i \in 1..(b - a + 1) : q[i] = r[a + i - 1]
  BY <1>1, <1>2, Piece
<1> HIDE DEF p, q
<1>5. \A i \in 1..Len(p) : p[i] = q[i]
  <2> TAKE i \in 1..Len(p)
  <2>1. i \in 1..(b - a + 1) /\ a + i - 1 \in 1..Len(s)
    BY <1>1, <1>3
  <2> QED
    BY <1>1, <1>3, <1>4, <2>1
<1>6. p = q
  BY <1>3, <1>4, <1>5, SeqEqual DEF Text
<1> QED
  BY <1>6 DEF p, q, r

\* The whole text, and the text before its last token.
LEMMA WholePiece ==
  ASSUME NEW s \in Text, NEW t \in Tokens
  PROVE  /\ SubSeq(s, 1, Len(s)) = s
         /\ SubSeq(Append(s, t), 1, Len(s)) = s
<1>1. Len(s) \in Nat
  BY LenProperties DEF Text
<1>2. SubSeq(s, 1, Len(s)) = s
  BY SubSeqFull DEF Text
<1>3. SubSeq(Append(s, t), 1, Len(s)) = SubSeq(s, 1, Len(s))
  BY <1>1, PieceOfAppend
<1> QED
  BY <1>2, <1>3

\* Texts have lengths, by which functions on them can be defined.
LEMMA TextLength ==
  ASSUME NEW s \in Text
  PROVE  /\ Len(s) \in Nat
         /\ s # <<>> => Len(s) \geq 1
         /\ s = <<>> => Len(s) = 0
         /\ <<>> \in Text
         /\ \A i \in 1..Len(s) : s[i] \in Tokens
<1>1. Len(s) \in Nat /\ <<>> \in Text
  BY LenProperties, EmptySeq DEF Text
<1>2. s # <<>> => Len(s) \in Nat \ {0}
  BY EmptySeq DEF Text
<1>3. s = <<>> => Len(s) = 0
  BY EmptySeq
<1>4. \A i \in 1..Len(s) : s[i] \in Tokens
  BY ElementOfSeq DEF Text
<1> QED
  BY <1>1, <1>2, <1>3, <1>4

Length == [s \in Text |-> Len(s)]

LEMMA LengthSize == Length \in [Text -> Nat] /\ \A s \in Text : Length[s] = Len(s)
  BY TextLength DEF Length

-----------------------------------------------------------------------------
(***************************************************************************)
(* Significant: the text without its whitespace.                           *)
(***************************************************************************)
\* Significant is defined by its equation.
LEMMA SignificantEquation ==
  \A s \in Text :
    Significant[s] =
      IF s = <<>> THEN <<>>
      ELSE IF s[Len(s)] = "ws" THEN Significant[SubSeq(s, 1, Len(s) - 1)]
           ELSE Append(Significant[SubSeq(s, 1, Len(s) - 1)], s[Len(s)])
<1> DEFINE before(s) == SubSeq(s, 1, Len(s) - 1)
           step(g, s) == IF s = <<>> THEN <<>>
                         ELSE IF s[Len(s)] = "ws" THEN g[before(s)]
                              ELSE Append(g[before(s)], s[Len(s)])
           F == [p \in [Text -> Text] \X Text |-> step(p[1], p[2])]
           Eq(f) == f = [s \in Text |-> step(f, s)]
<1>1. ASSUME NEW s \in Text, s # <<>>
      PROVE  before(s) \in Text /\ Len(before(s)) < Len(s) /\ s[Len(s)] \in Tokens
  <2>1. Len(s) \in Nat /\ Len(s) \geq 1 /\ s[Len(s)] \in Tokens
    BY <1>1, TextLength
  <2>2. Len(s) - 1 \in Int /\ Len(s) - 1 \leq Len(s)
    BY <2>1
  <2>3. before(s) \in Text /\ Len(before(s)) = IF 1 \leq Len(s) - 1 THEN Len(s) - 1 - 1 + 1 ELSE 0
    BY <2>2, Piece
  <2> HIDE DEF before
  <2> QED
    BY <2>1, <2>3
<1> HIDE DEF before
<1>2. ASSUME NEW g \in [Text -> Text], NEW s \in Text PROVE step(g, s) \in Text
  <2>1. CASE s = <<>>
    BY <2>1, TextLength
  <2>2. CASE s # <<>>
    <3>1. g[before(s)] \in Text /\ s[Len(s)] \in Tokens
      BY <1>1, <2>2
    <3>2. Append(g[before(s)], s[Len(s)]) \in Text
      BY <3>1, AppendText
    <3> QED
      BY <2>2, <3>1, <3>2
  <2> QED
    BY <2>1, <2>2
<1>3. ASSUME NEW g, NEW h, NEW s \in Text,
             \A u \in Text : Len(u) < Len(s) => g[u] = h[u]
      PROVE  step(g, s) = step(h, s)
  <2>1. CASE s = <<>>
    BY <2>1
  <2>2. CASE s # <<>>
    <3>1. g[before(s)] = h[before(s)]
      BY <1>1, <1>3, <2>2
    <3> QED
      BY <3>1
  <2> QED
    BY <2>1, <2>2
<1> HIDE DEF step
<1>4. F \in [[Text -> Text] \X Text -> Text]
  <2>1. ASSUME NEW p \in [Text -> Text] \X Text PROVE step(p[1], p[2]) \in Text
    BY <1>2
  <2> QED
    BY <2>1
<1>5. StepsFromSmaller(F, Text, Text, Length)
  <2>1. \A g, h \in [Text -> Text], s \in Text :
          (\A u \in Text : Length[u] < Length[s] => g[u] = h[u])
            => F[<<g, s>>] = F[<<h, s>>]
    BY <1>3, LengthSize
  <2> HIDE DEF F
  <2> QED
    BY <1>4, <2>1, LengthSize DEF StepsFromSmaller
<1>6. <<>> \in Text
  BY EmptySeq DEF Text
<1>7. PICK g : StepsBy(g, F, Text, Text)
  <2> HIDE DEF F
  <2> QED
    BY <1>5, <1>6, SizeRecursion
<1>8. Eq(g)
  BY <1>7 DEF StepsBy
<1>9. Eq(Significant)
  <2>1. Eq(CHOOSE f : Eq(f))
    <3> HIDE DEF Eq
    <3> QED
      BY <1>8
  <2>2. Significant = CHOOSE f : Eq(f)
    BY DEF Significant, Eq, step, before, Text
  <2> QED
    BY <2>1, <2>2
<1> QED
  BY <1>9 DEF step, before

\* What is kept of a text with one more token.
LEMMA SignificantOfAppend ==
  ASSUME NEW s \in Text, NEW t \in Tokens
  PROVE  Significant[Append(s, t)] =
           IF t = "ws" THEN Significant[s] ELSE Append(Significant[s], t)
<1> DEFINE r == Append(s, t)
<1>1. r \in Text /\ r # <<>> /\ Len(r) = Len(s) + 1 /\ Len(s) \in Nat /\ r[Len(r)] = t
  BY AppendText
<1>2. SubSeq(r, 1, Len(s)) = s
  BY WholePiece
<1> HIDE DEF r
<1>3. Len(r) - 1 = Len(s)
  BY <1>1
<1>4. Significant[r] = IF t = "ws" THEN Significant[s] ELSE Append(Significant[s], t)
  BY <1>1, <1>2, <1>3, SignificantEquation
<1> QED
  BY <1>4 DEF r

\* It is empty when nothing is read, and always a text.
LEMMA SignificantType ==
  /\ Significant[<<>>] = <<>>
  /\ \A s \in Text : Significant[s] \in Text
<1>1. Significant[<<>>] = <<>>
  <2>1. <<>> \in Text
    BY EmptySeq DEF Text
  <2> QED
    BY <2>1, SignificantEquation
<1> DEFINE S == {n \in Nat : \A s \in Text : Len(s) = n => Significant[s] \in Text}
<1>2. 0 \in S
  <2>1. \A s \in Text : Len(s) = 0 => s = <<>>
    BY TextLength
  <2>2. <<>> \in Text
    BY EmptySeq DEF Text
  <2> QED
    BY <1>1, <2>1, <2>2
<1>3. \A n \in Nat : n \in S => n + 1 \in S
  <2> SUFFICES ASSUME NEW n \in Nat, n \in S, NEW s \in Text, Len(s) = n + 1
               PROVE  Significant[s] \in Text
    OBVIOUS
  <2> DEFINE b == SubSeq(s, 1, Len(s) - 1)
  <2>1. s # <<>> /\ s[Len(s)] \in Tokens
    BY TextLength
  <2>2. 1 \in Nat /\ Len(s) - 1 \in Int /\ Len(s) - 1 \leq Len(s)
    OBVIOUS
  <2>3. b \in Text /\ Len(b) = IF 1 \leq Len(s) - 1 THEN Len(s) - 1 - 1 + 1 ELSE 0
    BY <2>2, Piece
  <2> HIDE DEF b
  <2>4. Len(b) = n
    BY <2>3
  <2>5. Significant[b] \in Text
    BY <2>3, <2>4
  <2>6. Append(Significant[b], s[Len(s)]) \in Text
    BY <2>1, <2>5, AppendText
  <2> QED
    BY <2>1, <2>5, <2>6, SignificantEquation DEF b
<1>4. Nat \subseteq S
  <2> HIDE DEF S
  <2> QED
    BY <1>2, <1>3, NatSetInduction
<1> QED
  BY <1>1, <1>4, TextLength

-----------------------------------------------------------------------------
(***************************************************************************)
(* Depth.                                                                  *)
(***************************************************************************)
\* How much deeper the text is behind a token.
Weight(t) == IF t \in Openers THEN 1 ELSE IF t \in Closers THEN -1 ELSE 0

\* The positions before i that hold one of A.
Holding(s, A, i) == {j \in 1..(i - 1) : s[j] \in A}

LEMMA CountStep ==
  ASSUME NEW s, NEW A, NEW i \in Nat, i \geq 1
  PROVE  /\ Cardinality(Holding(s, A, 1)) = 0
         /\ Cardinality(Holding(s, A, i)) \in Nat
         /\ Cardinality(Holding(s, A, i + 1)) =
              Cardinality(Holding(s, A, i)) + IF s[i] \in A THEN 1 ELSE 0
<1> DEFINE P == Holding(s, A, i)
           Q == Holding(s, A, i + 1)
<1>1. Holding(s, A, 1) = {}
  BY DEF Holding
<1>2. IsFiniteSet(P)
  <2>1. IsFiniteSet(1..(i - 1))
    BY FS_Interval
  <2>2. P \subseteq 1..(i - 1)
    BY DEF Holding
  <2> QED
    BY <2>1, <2>2, FS_Subset
<1>3. i \notin P
  BY DEF Holding
<1>4. 1..((i + 1) - 1) = (1..(i - 1)) \cup {i}
  OBVIOUS
<1>5. Q = IF s[i] \in A THEN P \cup {i} ELSE P
  BY <1>4 DEF Holding
<1> HIDE DEF P, Q
<1>6. Cardinality(P) \in Nat
  BY <1>2, FS_CardinalityType
<1>7. Cardinality(P \cup {i}) = Cardinality(P) + 1
  BY <1>2, <1>3, FS_AddElement
<1>8. Cardinality(Q) = Cardinality(P) + IF s[i] \in A THEN 1 ELSE 0
  BY <1>5, <1>6, <1>7
<1> QED
  BY <1>1, <1>6, <1>8, FS_EmptySet DEF P, Q

\* Depth counts up and down, token by token.
LEMMA DepthStep ==
  ASSUME NEW s
  PROVE  /\ Depth(s, 1) = 0
         /\ \A i \in Nat : i \geq 1 =>
              /\ Depth(s, i) \in Int
              /\ Depth(s, i + 1) = Depth(s, i) + Weight(s[i])
<1>1. \A i : Depth(s, i) = Cardinality(Holding(s, Openers, i)) - Cardinality(Holding(s, Closers, i))
  BY DEF Depth, Holding
<1>2. Depth(s, 1) = 0
  <2>1. Cardinality(Holding(s, Openers, 1)) = 0 /\ Cardinality(Holding(s, Closers, 1)) = 0
    BY CountStep
  <2> QED
    BY <1>1, <2>1
<1>3. ASSUME NEW i \in Nat, i \geq 1
      PROVE  /\ Depth(s, i) \in Int
             /\ Depth(s, i + 1) = Depth(s, i) + Weight(s[i])
  <2> DEFINE p == Cardinality(Holding(s, Openers, i))
             q == Cardinality(Holding(s, Closers, i))
             p1 == Cardinality(Holding(s, Openers, i + 1))
             q1 == Cardinality(Holding(s, Closers, i + 1))
  <2>1. p \in Nat /\ p1 = p + IF s[i] \in Openers THEN 1 ELSE 0
    BY <1>3, CountStep
  <2>2. q \in Nat /\ q1 = q + IF s[i] \in Closers THEN 1 ELSE 0
    BY <1>3, CountStep
  <2>3. Depth(s, i) = p - q /\ Depth(s, i + 1) = p1 - q1
    BY <1>1
  <2> HIDE DEF p, q, p1, q1
  <2>4. ~ (s[i] \in Openers /\ s[i] \in Closers)
    BY DEF Openers, Closers
  <2> QED
    BY <2>1, <2>2, <2>3, <2>4 DEF Weight
<1> QED
  BY <1>2, <1>3

\* A token behind a text does not change the depth within it.
LEMMA DepthOfAppend ==
  ASSUME NEW s \in Text, NEW t \in Tokens, NEW i \in 1..(Len(s) + 1)
  PROVE  Depth(Append(s, t), i) = Depth(s, i)
<1> DEFINE r == Append(s, t)
<1>1. Len(s) \in Nat /\ \A j \in 1..Len(s) : r[j] = s[j]
  BY AppendText
<1> HIDE DEF r
<1>2. \A j \in 1..(i - 1) : r[j] = s[j]
  BY <1>1
<1>3. /\ {j \in 1..(i - 1) : r[j] \in Openers} = {j \in 1..(i - 1) : s[j] \in Openers}
      /\ {j \in 1..(i - 1) : r[j] \in Closers} = {j \in 1..(i - 1) : s[j] \in Closers}
  BY <1>2
<1> QED
  BY <1>3 DEF Depth, r

\* The depth behind the token.
LEMMA DepthBehind ==
  ASSUME NEW s \in Text, NEW t \in Tokens
  PROVE  /\ Depth(Append(s, t), Len(s) + 1) = Depth(s, Len(s) + 1)
         /\ Depth(Append(s, t), Len(s) + 2) = Depth(s, Len(s) + 1) + Weight(t)
<1> DEFINE r == Append(s, t)
<1>1. Len(s) \in Nat /\ r[Len(s) + 1] = t
  BY AppendText
<1>2. Depth(r, Len(s) + 1) = Depth(s, Len(s) + 1)
  BY <1>1, DepthOfAppend
<1> HIDE DEF r
<1>3. Len(s) + 1 \in Nat /\ Len(s) + 1 \geq 1 /\ (Len(s) + 1) + 1 = Len(s) + 2
  BY <1>1
<1>4. Depth(r, (Len(s) + 1) + 1) = Depth(r, Len(s) + 1) + Weight(r[Len(s) + 1])
  BY <1>3, DepthStep
<1> QED
  BY <1>1, <1>2, <1>3, <1>4 DEF r

\* The depth within a piece is what has been added since it began.
LEMMA DepthOfPiece ==
  ASSUME NEW s \in Text, NEW a \in Nat, NEW b \in Int, a \geq 1, b \leq Len(s), a - 1 \leq b
  PROVE  \A i \in 1..(b - a + 2) :
           Depth(SubSeq(s, a, b), i) = Depth(s, a + i - 1) - Depth(s, a)
<1> DEFINE p == SubSeq(s, a, b)
           N == b - a + 1
           S == {k \in 0..N : Depth(p, k + 1) = Depth(s, a + k) - Depth(s, a)}
<1>1. /\ N \in Nat /\ Len(s) \in Nat
      /\ \A i \in 1..N : p[i] = s[a + i - 1]
  BY Piece, TextLength
<1> HIDE DEF p
<1>2. 0 \in S
  <2>1. Depth(p, 1) = 0 /\ Depth(s, a) \in Int
    BY DepthStep
  <2> QED
    BY <1>1, <2>1
<1>3. \A k \in 1..N : k - 1 \in S => k \in S
  <2> SUFFICES ASSUME NEW k \in 1..N, k - 1 \in S PROVE k \in S
    OBVIOUS
  <2> HIDE DEF N
  <2>1. /\ k \in Nat /\ k \geq 1 /\ a + k - 1 \in Nat /\ a + k - 1 \geq 1
        /\ (a + k - 1) + 1 = a + k /\ (k - 1) + 1 = k /\ a + (k - 1) = a + k - 1
    BY <1>1
  <2>2. Depth(p, k) = Depth(s, a + k - 1) - Depth(s, a)
    BY <2>1
  <2>3. Depth(p, k) \in Int /\ Depth(p, k + 1) = Depth(p, k) + Weight(p[k])
    BY <2>1, DepthStep
  <2>4. /\ Depth(s, a + k - 1) \in Int
        /\ Depth(s, (a + k - 1) + 1) = Depth(s, a + k - 1) + Weight(s[a + k - 1])
    BY <2>1, DepthStep
  <2>5. p[k] = s[a + k - 1]
    BY <1>1
  <2>6. Depth(s, a) \in Int
    BY DepthStep
  <2>7. Weight(p[k]) \in Int
    BY DEF Weight
  <2>8. Depth(p, k + 1) = Depth(s, a + k) - Depth(s, a)
    BY <2>1, <2>2, <2>3, <2>4, <2>5, <2>6, <2>7
  <2> QED
    BY <1>1, <2>8
<1>4. 0..N \subseteq S
  <2> HIDE DEF S, N
  <2> QED
    BY <1>1, <1>2, <1>3, IntervalInduction
<1>5. ASSUME NEW i \in 1..(b - a + 2) PROVE Depth(p, i) = Depth(s, a + i - 1) - Depth(s, a)
  <2>1. i - 1 \in 0..N /\ (i - 1) + 1 = i /\ a + (i - 1) = a + i - 1
    OBVIOUS
  <2> HIDE DEF N
  <2>2. i - 1 \in S
    BY <1>4, <2>1
  <2> QED
    BY <2>1, <2>2
<1> QED
  BY <1>5 DEF p

-----------------------------------------------------------------------------
(***************************************************************************)
(* Greatest elements.                                                      *)
(***************************************************************************)
LEMMA MaxIs ==
  ASSUME NEW S, NEW m \in S, S \subseteq Int, \A x \in S : m \geq x
  PROVE  Max(S) = m
<1> DEFINE P(y) == \A x \in S : y \geq x
           M == CHOOSE y \in S : P(y)
<1>1. Max(S) = M
  BY DEF Max
<1>2. M \in S /\ P(M)
  <2>1. P(m)
    OBVIOUS
  <2> HIDE DEF P
  <2> QED
    BY <2>1
<1> HIDE DEF M
<1>3. M \geq m /\ m \geq M
  BY <1>2
<1>4. M \in Int /\ m \in Int
  BY <1>2
<1> QED
  BY <1>1, <1>3, <1>4

LEMMA MaxExists ==
  ASSUME NEW n \in Nat, NEW S \in SUBSET (0..n), S # {}
  PROVE  Max(S) \in S /\ \A x \in S : Max(S) \geq x
<1> DEFINE Bounded(A) == \E m \in A : \A x \in A : m \geq x
           I == {k \in Nat : \A A \in SUBSET (0..k) : A # {} => Bounded(A)}
<1>1. 0 \in I
  <2> SUFFICES ASSUME NEW A \in SUBSET (0..0), A # {} PROVE Bounded(A)
    OBVIOUS
  <2>1. PICK m \in A : TRUE
    OBVIOUS
  <2>2. \A x \in A : x = 0
    OBVIOUS
  <2>3. \A x \in A : m \geq x
    BY <2>2
  <2> QED
    BY <2>3
<1>2. \A k \in Nat : k \in I => k + 1 \in I
  <2> SUFFICES ASSUME NEW k \in Nat, k \in I, NEW A \in SUBSET (0..(k + 1)), A # {}
               PROVE  Bounded(A)
    OBVIOUS
  <2>1. CASE k + 1 \in A
    BY <2>1
  <2>2. CASE k + 1 \notin A
    <3>1. A \in SUBSET (0..k)
      BY <2>2
    <3> HIDE DEF Bounded
    <3> QED
      BY <3>1
  <2> QED
    BY <2>1, <2>2
<1>3. n \in I
  <2> HIDE DEF I
  <2> QED
    BY <1>1, <1>2, NatSetInduction
<1>4. PICK m \in S : \A x \in S : m \geq x
  BY <1>3
<1>5. S \subseteq Int
  OBVIOUS
<1>6. Max(S) = m
  BY <1>4, <1>5, MaxIs
<1> QED
  BY <1>4, <1>6

-----------------------------------------------------------------------------
(***************************************************************************)
(* What is said of a position depends on the text up to there.             *)
(***************************************************************************)
OpenedBefore(s, i) ==
  {j \in 1..(i - 1) : s[j] \in Openers /\ Depth(s, j) + 1 = Depth(s, i)}

\* Where the depth is positive it has once risen to what it is.
LEMMA SomethingOpened ==
  ASSUME NEW s
  PROVE  \A i \in Nat : i \geq 1 /\ Depth(s, i) > 0 => OpenedBefore(s, i) # {}
<1> DEFINE C(i) == Depth(s, i) > 0 => OpenedBefore(s, i) # {}
           I == {n \in Nat : \A i \in 1..(n + 1) : C(i)}
<1>1. 0 \in I
  <2>1. Depth(s, 1) = 0
    BY DepthStep
  <2> QED
    BY <2>1
<1>2. \A n \in Nat : n \in I => n + 1 \in I
  <2> SUFFICES ASSUME NEW n \in Nat, n \in I PROVE n + 1 \in I
    OBVIOUS
  <2> DEFINE h == n + 1
  <2>1. /\ h \in Nat /\ h \geq 1 /\ h + 1 \in Nat /\ h + 1 \geq 1
        /\ Depth(s, h) \in Int /\ Depth(s, h + 1) \in Int
        /\ Depth(s, h + 1) = Depth(s, h) + Weight(s[h])
    BY DepthStep
  <2>2. \A i \in 1..h : C(i)
    OBVIOUS
  <2> HIDE DEF h
  <2>3. ASSUME Depth(s, h + 1) > 0 PROVE OpenedBefore(s, h + 1) # {}
    <3>1. CASE s[h] \in Openers
      <4>1. Weight(s[h]) = 1
        BY <3>1 DEF Weight
      <4>2. h \in OpenedBefore(s, h + 1)
        BY <2>1, <3>1, <4>1 DEF OpenedBefore
      <4> QED
        BY <4>2
    <3>2. CASE s[h] \notin Openers /\ s[h] \notin Closers
      <4>1. Depth(s, h) = Depth(s, h + 1)
        BY <2>1, <3>2 DEF Weight
      <4>2. OpenedBefore(s, h) # {}
        BY <2>1, <2>2, <2>3, <4>1
      <4>3. OpenedBefore(s, h) \subseteq OpenedBefore(s, h + 1)
        BY <2>1, <4>1 DEF OpenedBefore
      <4> QED
        BY <4>2, <4>3
    <3>3. CASE s[h] \notin Openers /\ s[h] \in Closers
      <4>1. Depth(s, h) = Depth(s, h + 1) + 1
        BY <2>1, <3>3 DEF Weight
      <4>2. OpenedBefore(s, h) # {}
        BY <2>1, <2>2, <2>3, <4>1
      <4>3. PICK j \in 1..(h - 1) : s[j] \in Openers /\ Depth(s, j) + 1 = Depth(s, h)
        BY <4>2 DEF OpenedBefore
      <4>4. j \in Nat /\ j \geq 1 /\ j \in 1..h
        BY <2>1
      <4>5. Depth(s, j) = Depth(s, h + 1)
        <5>1. Depth(s, j) \in Int
          BY <4>4, DepthStep
        <5> QED
          BY <2>1, <4>1, <4>3, <5>1
      <4>6. OpenedBefore(s, j) # {}
        BY <2>2, <2>3, <4>4, <4>5
      <4>7. OpenedBefore(s, j) \subseteq OpenedBefore(s, h + 1)
        BY <2>1, <4>4, <4>5 DEF OpenedBefore
      <4> QED
        BY <4>6, <4>7
    <3> QED
      BY <3>1, <3>2, <3>3
  <2>4. \A i \in 1..(h + 1) : i \in 1..h \/ i = h + 1
    BY <2>1
  <2>5. \A i \in 1..(h + 1) : C(i)
    <3> HIDE DEF C
    <3>1. C(h + 1)
      BY <2>3 DEF C
    <3> QED
      BY <2>2, <2>4, <3>1
  <2> HIDE DEF C
  <2> QED
    BY <2>1, <2>5 DEF h
<1>3. Nat \subseteq I
  <2> HIDE DEF I
  <2> QED
    BY <1>1, <1>2, NatSetInduction
<1> SUFFICES ASSUME NEW i \in Nat, i \geq 1 PROVE C(i)
  OBVIOUS
<1>4. i - 1 \in I /\ i \in 1..((i - 1) + 1)
  BY <1>3
<1> HIDE DEF C
<1> QED
  BY <1>4

\* The bracket around a position is before it.
LEMMA AroundOpened ==
  ASSUME NEW s, NEW i \in Nat, i \geq 1, Depth(s, i) > 0
  PROVE  /\ Max(OpenedBefore(s, i)) \in OpenedBefore(s, i)
         /\ Around(s, i) = s[Max(OpenedBefore(s, i))]
         /\ Around(s, i) \in Openers
<1>1. OpenedBefore(s, i) # {}
  BY SomethingOpened
<1>2. i - 1 \in Nat /\ OpenedBefore(s, i) \in SUBSET (0..(i - 1))
  BY DEF OpenedBefore
<1>3. Max(OpenedBefore(s, i)) \in OpenedBefore(s, i)
  BY <1>1, <1>2, MaxExists
<1>4. ~ (Depth(s, i) \leq 0)
  BY DepthStep
<1>5. Around(s, i) = s[Max(OpenedBefore(s, i))]
  BY <1>4 DEF Around, OpenedBefore
<1> QED
  BY <1>3, <1>5 DEF OpenedBefore

LEMMA AroundNothing ==
  ASSUME NEW s, NEW i, Depth(s, i) = 0
  PROVE  Around(s, i) = EOF
  BY DEF Around

\* A token behind the text.
LEMMA AroundOfAppend ==
  ASSUME NEW s \in Text, NEW t \in Tokens, NEW i \in 1..(Len(s) + 1)
  PROVE  Around(Append(s, t), i) = Around(s, i)
<1> DEFINE r == Append(s, t)
<1>1. /\ Len(s) \in Nat /\ \A j \in 1..Len(s) : r[j] = s[j]
      /\ \A j \in 1..(Len(s) + 1) : Depth(r, j) = Depth(s, j)
  BY AppendText, DepthOfAppend
<1> HIDE DEF r
<1>2. i \in Nat /\ i \geq 1 /\ \A j \in 1..(i - 1) : j \in 1..Len(s) /\ j \in 1..(Len(s) + 1)
  BY <1>1
<1>3. Depth(r, i) = Depth(s, i) /\ Depth(s, i) \in Int
  BY <1>1, <1>2, DepthStep
<1>4. OpenedBefore(r, i) = OpenedBefore(s, i)
  BY <1>1, <1>2, <1>3 DEF OpenedBefore
<1>5. CASE Depth(s, i) > 0
  <2>1. /\ Max(OpenedBefore(s, i)) \in OpenedBefore(s, i)
        /\ Around(s, i) = s[Max(OpenedBefore(s, i))]
    BY <1>2, <1>5, AroundOpened
  <2>2. Around(r, i) = r[Max(OpenedBefore(r, i))]
    BY <1>2, <1>3, <1>5, AroundOpened
  <2>3. Max(OpenedBefore(s, i)) \in 1..Len(s)
    BY <1>2, <2>1 DEF OpenedBefore
  <2>4. Around(r, i) = Around(s, i)
    BY <1>1, <1>4, <2>1, <2>2, <2>3
  <2> QED
    BY <2>4 DEF r
<1>6. CASE Depth(s, i) \leq 0
  BY <1>3, <1>6 DEF Around, r
<1> QED
  BY <1>3, <1>5, <1>6

LEMMA BeforeOfAppend ==
  ASSUME NEW s \in Text, NEW t \in Tokens, NEW i \in 1..(Len(s) + 1)
  PROVE  Before(Append(s, t), i, 1) = Before(s, i, 1)
<1>1. Len(s) \in Nat /\ \A j \in 1..Len(s) : Append(s, t)[j] = s[j]
  BY AppendText
<1>2. i > 1 => i - 1 \in 1..Len(s)
  BY <1>1
<1> QED
  BY <1>1, <1>2 DEF Before

LEMMA IsKeyOfAppend ==
  ASSUME NEW s \in Text, NEW t \in Tokens, NEW i \in 1..Len(s)
  PROVE  IsKey(Append(s, t), i) <=> IsKey(s, i)
<1>1. Len(s) \in Nat /\ Append(s, t)[i] = s[i]
  BY AppendText
<1>2. i \in 1..(Len(s) + 1)
  BY <1>1
<1> QED
  BY <1>1, <1>2, AroundOfAppend, BeforeOfAppend DEF IsKey

\* What is not a token is no bracket and no atom.
LEMMA EndIsNoToken == EOF \notin Atoms /\ EOF \notin Closers /\ EOF \notin Openers
  BY ParserAssumption DEF Tokens, Punctuation, Closers, Openers

LEMMA ValueBeforeOfAppend ==
  ASSUME NEW s \in Text, NEW t \in Tokens, NEW i \in 1..(Len(s) + 1)
  PROVE  ValueBefore(Append(s, t), i) <=> ValueBefore(s, i)
<1>1. Before(Append(s, t), i, 1) = Before(s, i, 1)
  BY BeforeOfAppend
<1>2. CASE i > 1
  <2>1. Len(s) \in Nat
    BY TextLength
  <2>2. i - 1 \in 1..Len(s)
    BY <1>2, <2>1
  <2>3. IsKey(Append(s, t), i - 1) <=> IsKey(s, i - 1)
    BY <2>2, IsKeyOfAppend
  <2> QED
    BY <1>1, <2>3 DEF ValueBefore
<1>3. CASE ~ (i > 1)
  <2>1. Before(s, i, 1) = EOF
    BY <1>3 DEF Before
  <2> QED
    BY <1>1, <2>1, EndIsNoToken DEF ValueBefore
<1> QED
  BY <1>2, <1>3

LEMMA FitsOfAppend ==
  ASSUME NEW s \in Text, NEW t \in Tokens, NEW i \in 1..Len(s)
  PROVE  /\ Fits(Append(s, t), i) <=> Fits(s, i)
         /\ Shallow(Append(s, t), i) <=> Shallow(s, i)
<1> DEFINE r == Append(s, t)
<1>1. Len(s) \in Nat /\ r[i] = s[i]
  BY AppendText
<1>2. i \in 1..(Len(s) + 1)
  BY <1>1
<1>3. /\ Around(r, i) = Around(s, i) /\ Before(r, i, 1) = Before(s, i, 1)
      /\ Depth(r, i) = Depth(s, i)
      /\ IsKey(r, i) <=> IsKey(s, i)
      /\ ValueBefore(r, i) <=> ValueBefore(s, i)
  BY <1>2, AroundOfAppend, BeforeOfAppend, DepthOfAppend, IsKeyOfAppend, ValueBeforeOfAppend
<1>4. i > 1 => (IsKey(r, i - 1) <=> IsKey(s, i - 1))
  <2> SUFFICES ASSUME i > 1 PROVE IsKey(r, i - 1) <=> IsKey(s, i - 1)
    OBVIOUS
  <2>1. i - 1 \in 1..Len(s)
    BY <1>1
  <2> QED
    BY <2>1, IsKeyOfAppend
<1> HIDE DEF r
<1>5. Fits(r, i) <=> Fits(s, i)
  BY <1>1, <1>3, <1>4 DEF Fits
<1>6. Shallow(r, i) <=> Shallow(s, i)
  BY <1>1, <1>3 DEF Shallow
<1> QED
  BY <1>5, <1>6 DEF r

\* A text goes on being viable as long as the next token fits.
LEMMA ViableOfAppend ==
  ASSUME NEW s \in Text, NEW t \in Tokens
  PROVE  Viable(Append(s, t)) <=>
           /\ Viable(s)
           /\ Fits(Append(s, t), Len(s) + 1)
           /\ Shallow(Append(s, t), Len(s) + 1)
<1> DEFINE r == Append(s, t)
           n == Len(s)
<1>1. n \in Nat /\ Len(r) = n + 1 /\ r \in Text
  BY AppendText
<1>2. \A i \in 1..n : (Fits(r, i) <=> Fits(s, i)) /\ (Shallow(r, i) <=> Shallow(s, i))
  BY FitsOfAppend
<1>3. DOMAIN s = 1..n /\ DOMAIN r = 1..(n + 1)
  <2>1. DOMAIN s = 1..Len(s)
    BY LenProperties DEF Text
  <2> HIDE DEF r
  <2>2. DOMAIN r = 1..Len(r)
    BY <1>1, LenProperties DEF Text
  <2> QED
    BY <1>1, <2>1, <2>2
<1> HIDE DEF r, n
<1>4. 1..(n + 1) = (1..n) \cup {n + 1}
  BY <1>1
<1>5. Viable(r) <=> Viable(s) /\ Fits(r, n + 1) /\ Shallow(r, n + 1)
  BY <1>2, <1>3, <1>4 DEF Viable
<1> QED
  BY <1>5 DEF r, n

-----------------------------------------------------------------------------
\* The significant tokens before cursor_.
Sig == Significant[text]

(***************************************************************************)
(* o[l] is where the bracket of the l-th activation of st is in s, and     *)
(* c[l] the last comma that is inside this bracket but in no further one,  *)
(* or the bracket itself.                                                  *)
(***************************************************************************)
Brackets(s, st, o) ==
  /\ o \in [1..Len(st) -> 1..Len(s)]
  /\ Depth(s, Len(s) + 1) = Len(st)
  /\ \A l \in 1..Len(st) :
       /\ s[o[l]] = st[l]
       /\ Depth(s, o[l]) = l - 1
       /\ \A i \in (o[l] + 1)..(Len(s) + 1) : Depth(s, i) \geq l

Commas(s, st, o, c) ==
  /\ c \in [1..Len(st) -> 1..Len(s)]
  /\ \A l \in 1..Len(st) :
       /\ c[l] \geq o[l]
       /\ c[l] # o[l] => s[c[l]] = "comma" /\ Depth(s, c[l]) = l
       /\ \A i \in (c[l] + 1)..Len(s) : s[i] = "comma" => Depth(s, i) # l

\* A text and the text with one more token, side by side.
LEMMA OneMore ==
  ASSUME NEW s \in Text, NEW t \in Tokens
  PROVE  /\ Append(s, t) \in Text /\ Append(s, t) # <<>>
         /\ Len(s) \in Nat /\ Len(Append(s, t)) = Len(s) + 1
         /\ \A i \in 1..Len(s) : Append(s, t)[i] = s[i]
         /\ Append(s, t)[Len(s) + 1] = t
         /\ \A i \in 1..(Len(s) + 1) : Depth(Append(s, t), i) = Depth(s, i)
         /\ Depth(s, Len(s) + 1) \in Int
         /\ Depth(Append(s, t), Len(s) + 2) = Depth(s, Len(s) + 1) + Weight(t)
<1>1. Len(s) \in Nat
  BY AppendText
<1>2. Depth(s, Len(s) + 1) \in Int
  BY <1>1, DepthStep
<1>3. \A i \in 1..(Len(s) + 1) : Depth(Append(s, t), i) = Depth(s, i)
  BY DepthOfAppend
<1> QED
  BY <1>1, <1>2, <1>3, AppendText, DepthBehind

\* What is around the next token is the innermost activation.
LEMMA AroundIsTop ==
  ASSUME NEW s \in Text, NEW st \in Seq(Openers), NEW o, Brackets(s, st, o)
  PROVE  Around(s, Len(s) + 1) = IF st = <<>> THEN EOF ELSE st[Len(st)]
<1> DEFINE n == Len(s)
           L == Len(st)
<1>1. n \in Nat /\ L \in Nat /\ Depth(s, n + 1) = L /\ (st = <<>> => L = 0) /\ (st # <<>> => L \geq 1)
  <2>1. st = <<>> => L = 0
    BY EmptySeq
  <2>2. st # <<>> => L \in Nat \ {0}
    BY EmptySeq
  <2> QED
    BY <2>1, <2>2, TextLength, LenProperties DEF Brackets
<1> HIDE DEF n, L
<1>2. CASE st = <<>>
  BY <1>1, <1>2, AroundNothing DEF n
<1>3. CASE st # <<>>
  <2> DEFINE B == OpenedBefore(s, n + 1)
  <2>1. /\ o[L] \in 1..n /\ s[o[L]] = st[L] /\ Depth(s, o[L]) = L - 1
        /\ \A i \in (o[L] + 1)..(n + 1) : Depth(s, i) \geq L
    BY <1>1, <1>3 DEF Brackets, n, L
  <2>2. st[L] \in Openers
    <3>1. L \in 1..Len(st)
      BY <1>1, <1>3 DEF L
    <3> QED
      BY <3>1, ElementOfSeq
  <2>3. o[L] \in B
    BY <1>1, <2>1, <2>2 DEF OpenedBefore
  <2>4. \A j \in B : o[L] \geq j
    <3> SUFFICES ASSUME NEW j \in B, j > o[L] PROVE FALSE
      BY <1>1, <2>1 DEF OpenedBefore
    <3>1. j \in 1..n /\ Depth(s, j) + 1 = L
      BY <1>1 DEF OpenedBefore
    <3>2. Depth(s, j) \geq L
      BY <1>1, <2>1, <3>1
    <3>3. Depth(s, j) \in Int
      <4>1. j \in Nat /\ j \geq 1
        BY <1>1, <3>1
      <4> QED
        BY <4>1, DepthStep
    <3> QED
      BY <1>1, <3>1, <3>2, <3>3
  <2>5. B \subseteq Int
    BY <1>1 DEF OpenedBefore
  <2> HIDE DEF B
  <2>6. Max(B) = o[L]
    BY <2>3, <2>4, <2>5, MaxIs
  <2>7. Depth(s, n + 1) > 0 /\ n + 1 \in Nat /\ n + 1 \geq 1
    BY <1>1, <1>3
  <2>8. Around(s, n + 1) = s[Max(B)]
    BY <2>7, AroundOpened DEF B
  <2> QED
    BY <1>3, <2>1, <2>6, <2>8 DEF n, L
<1> QED
  BY <1>2, <1>3

-----------------------------------------------------------------------------
(***************************************************************************)
(* What the next token does to the brackets and the commas.                *)
(***************************************************************************)
\* A token that is no bracket leaves the brackets alone.
LEMMA BracketsStay ==
  ASSUME NEW s \in Text, NEW t \in Tokens, NEW st \in Seq(Openers), NEW o,
         Brackets(s, st, o), t \notin Openers, t \notin Closers
  PROVE  Brackets(Append(s, t), st, o)
<1> DEFINE r == Append(s, t)
           n == Len(s)
           L == Len(st)
<1>1. /\ n \in Nat /\ Len(r) = n + 1 /\ \A i \in 1..n : r[i] = s[i]
      /\ \A i \in 1..(n + 1) : Depth(r, i) = Depth(s, i)
      /\ Depth(r, n + 2) = Depth(s, n + 1) + Weight(t)
      /\ L \in Nat
  BY OneMore, LenProperties
<1>2. Depth(s, n + 1) = L /\ o \in [1..L -> 1..n]
  BY DEF Brackets
<1>3. ASSUME NEW l \in 1..L
      PROVE  /\ o[l] \in 1..n /\ s[o[l]] = st[l] /\ Depth(s, o[l]) = l - 1
             /\ \A i \in (o[l] + 1)..(n + 1) : Depth(s, i) \geq l
  BY DEF Brackets
<1> HIDE DEF r, n, L
<1>4. Depth(r, n + 2) = L
  BY <1>1, <1>2 DEF Weight
<1>5. o \in [1..L -> 1..(n + 1)]
  BY <1>1, <1>2
<1>6. ASSUME NEW l \in 1..L
      PROVE  /\ r[o[l]] = st[l] /\ Depth(r, o[l]) = l - 1
             /\ \A i \in (o[l] + 1)..(n + 2) : Depth(r, i) \geq l
  <2>1. r[o[l]] = st[l] /\ Depth(r, o[l]) = l - 1
    BY <1>1, <1>3
  <2>2. ASSUME NEW i \in (o[l] + 1)..(n + 2) PROVE Depth(r, i) \geq l
    <3>1. i = n + 2 \/ (i \in 1..(n + 1) /\ i \in (o[l] + 1)..(n + 1))
      BY <1>1, <1>3
    <3> QED
      BY <1>1, <1>3, <1>4, <3>1
  <2> QED
    BY <2>1, <2>2
<1>7. (n + 1) + 1 = n + 2
  BY <1>1
<1> QED
  BY <1>1, <1>4, <1>5, <1>6, <1>7 DEF Brackets, r, L

\* An opening bracket is the innermost one.
WithOpened(f, st, p) == [l \in 1..(Len(st) + 1) |-> IF l \leq Len(st) THEN f[l] ELSE p]

LEMMA BracketsOpen ==
  ASSUME NEW s \in Text, NEW t \in Openers, NEW st \in Seq(Openers), NEW o,
         Brackets(s, st, o)
  PROVE  Brackets(Append(s, t), Append(st, t), WithOpened(o, st, Len(s) + 1))
<1> DEFINE r == Append(s, t)
           n == Len(s)
           L == Len(st)
           u == Append(st, t)
           q == WithOpened(o, st, n + 1)
<1>0. t \in Tokens
  BY DEF Tokens, Punctuation, Openers
<1>1. /\ n \in Nat /\ Len(r) = n + 1 /\ r[n + 1] = t
      /\ \A i \in 1..n : r[i] = s[i]
      /\ \A i \in 1..(n + 1) : Depth(r, i) = Depth(s, i)
      /\ Depth(r, n + 2) = Depth(s, n + 1) + Weight(t)
      /\ L \in Nat
  BY <1>0, OneMore, LenProperties
<1>2. Depth(s, n + 1) = L /\ o \in [1..L -> 1..n]
  BY DEF Brackets
<1>3. ASSUME NEW l \in 1..L
      PROVE  /\ o[l] \in 1..n /\ s[o[l]] = st[l] /\ Depth(s, o[l]) = l - 1
             /\ \A i \in (o[l] + 1)..(n + 1) : Depth(s, i) \geq l
  BY DEF Brackets
<1>a. Len(u) = L + 1 /\ u[L + 1] = t /\ \A l \in 1..L : u[l] = st[l]
  BY AppendProperties
<1>b. /\ q \in [1..(L + 1) -> 1..(n + 1)] /\ q[L + 1] = n + 1
      /\ \A l \in 1..L : q[l] = o[l]
  BY <1>1, <1>2 DEF WithOpened
<1> HIDE DEF r, n, L, u, q
<1>4. Depth(r, n + 2) = L + 1
  BY <1>1, <1>2 DEF Weight
<1>6. ASSUME NEW l \in 1..(L + 1)
      PROVE  /\ r[q[l]] = u[l] /\ Depth(r, q[l]) = l - 1
             /\ \A i \in (q[l] + 1)..(n + 2) : Depth(r, i) \geq l
  <2>1. CASE l \in 1..L
    <3>1. q[l] = o[l] /\ u[l] = st[l]
      BY <1>a, <1>b, <2>1
    <3>2. r[q[l]] = u[l] /\ Depth(r, q[l]) = l - 1
      <4>1. o[l] \in 1..n /\ o[l] \in 1..(n + 1)
        BY <1>1, <1>3, <2>1
      <4> QED
        BY <1>1, <1>3, <2>1, <3>1, <4>1
    <3>3. ASSUME NEW i \in (o[l] + 1)..(n + 2) PROVE Depth(r, i) \geq l
      <4>1. i = n + 2 \/ (i \in 1..(n + 1) /\ i \in (o[l] + 1)..(n + 1))
        BY <1>1, <1>3, <2>1
      <4> QED
        BY <1>1, <1>3, <1>4, <2>1, <4>1
    <3> QED
      BY <3>1, <3>2, <3>3
  <2>2. CASE l = L + 1
    <3>1. q[l] = n + 1 /\ u[l] = t
      BY <1>a, <1>b, <2>2
    <3>2. Depth(r, n + 1) = L /\ r[n + 1] = t
      BY <1>1, <1>2
    <3>3. \A i \in ((n + 1) + 1)..(n + 2) : i = n + 2
      BY <1>1
    <3> QED
      BY <1>1, <1>4, <2>2, <3>1, <3>2, <3>3
  <2> QED
    BY <1>1, <2>1, <2>2
<1>7. (n + 1) + 1 = n + 2
  BY <1>1
<1>8. Brackets(r, u, q)
  BY <1>1, <1>4, <1>6, <1>7, <1>a, <1>b DEF Brackets
<1> QED
  BY <1>8 DEF r, u, q, n

\* A closing bracket closes the innermost one.
WithClosed(f, st) == [l \in 1..(Len(st) - 1) |-> f[l]]

\* What is below the innermost activation.
LEMMA BelowElements ==
  ASSUME NEW S, NEW st \in Seq(S), st # <<>>
  PROVE  /\ Below(st) \in Seq(S)
         /\ Len(st) \in Nat /\ Len(st) \geq 1
         /\ Len(Below(st)) = Len(st) - 1
         /\ \A l \in 1..(Len(st) - 1) : Below(st)[l] = st[l]
         /\ st[Len(st)] \in S
<1>1. /\ Below(st) \in Seq(S) /\ Len(Below(st)) = Len(st) - 1
      /\ Len(st) \in Nat \ {0}
  BY BelowType
<1>2. \A i \in 1..(Len(st) - 1) : st[i] \in S
  BY <1>1, ElementOfSeq
<1>3. Len(st) - 1 \in Int /\ 1 \in Int
  BY <1>1
<1>4. \A i \in 1..((Len(st) - 1) - 1 + 1) : SubSeq(st, 1, Len(st) - 1)[i] = st[1 + i - 1]
  BY <1>2, <1>3, SubSeqProperties
<1>5. \A l \in 1..(Len(st) - 1) : Below(st)[l] = st[l]
  BY <1>1, <1>4 DEF Below
<1>6. st[Len(st)] \in S
  <2>1. Len(st) \in 1..Len(st)
    BY <1>1
  <2> QED
    BY <2>1, ElementOfSeq
<1> QED
  BY <1>1, <1>5, <1>6

LEMMA BracketsClose ==
  ASSUME NEW s \in Text, NEW t \in Closers, NEW st \in Seq(Openers), NEW o,
         st # <<>>, Brackets(s, st, o)
  PROVE  Brackets(Append(s, t), Below(st), WithClosed(o, st))
<1> DEFINE r == Append(s, t)
           n == Len(s)
           L == Len(st)
           u == Below(st)
           q == WithClosed(o, st)
<1>0. t \in Tokens
  BY DEF Tokens, Punctuation, Closers
<1>1. /\ n \in Nat /\ Len(r) = n + 1
      /\ \A i \in 1..n : r[i] = s[i]
      /\ \A i \in 1..(n + 1) : Depth(r, i) = Depth(s, i)
      /\ Depth(r, n + 2) = Depth(s, n + 1) + Weight(t)
      /\ L \in Nat
  BY <1>0, OneMore, LenProperties
<1>2. Depth(s, n + 1) = L /\ o \in [1..L -> 1..n]
  BY DEF Brackets
<1>3. ASSUME NEW l \in 1..L
      PROVE  /\ o[l] \in 1..n /\ s[o[l]] = st[l] /\ Depth(s, o[l]) = l - 1
             /\ \A i \in (o[l] + 1)..(n + 1) : Depth(s, i) \geq l
  BY DEF Brackets
<1>a. Len(u) = L - 1 /\ L \geq 1 /\ \A l \in 1..(L - 1) : u[l] = st[l]
  BY BelowElements
<1>b. /\ q \in [1..(L - 1) -> 1..(n + 1)]
      /\ \A l \in 1..(L - 1) : q[l] = o[l]
  BY <1>1, <1>2 DEF WithClosed
<1> HIDE DEF r, n, L, u, q
<1>4. Depth(r, n + 2) = L - 1
  <2>1. t \notin Openers
    BY DEF Openers, Closers
  <2> QED
    BY <1>1, <1>2, <2>1 DEF Weight
<1>6. ASSUME NEW l \in 1..(L - 1)
      PROVE  /\ r[q[l]] = u[l] /\ Depth(r, q[l]) = l - 1
             /\ \A i \in (q[l] + 1)..(n + 2) : Depth(r, i) \geq l
  <2>0. l \in 1..L /\ l \leq L - 1
    BY <1>1
  <2>1. q[l] = o[l] /\ u[l] = st[l]
    BY <1>a, <1>b
  <2>2. r[q[l]] = u[l] /\ Depth(r, q[l]) = l - 1
    BY <1>1, <1>3, <2>0, <2>1
  <2>3. ASSUME NEW i \in (o[l] + 1)..(n + 2) PROVE Depth(r, i) \geq l
    <3>1. i = n + 2 \/ (i \in 1..(n + 1) /\ i \in (o[l] + 1)..(n + 1))
      BY <1>1, <1>3, <2>0
    <3> QED
      BY <1>1, <1>3, <1>4, <2>0, <3>1
  <2> QED
    BY <2>1, <2>2, <2>3
<1>7. (n + 1) + 1 = n + 2
  BY <1>1
<1>8. Brackets(r, u, q)
  BY <1>1, <1>4, <1>6, <1>7, <1>a, <1>b DEF Brackets
<1> QED
  BY <1>8 DEF r, u, q

\* A token that is no comma and no bracket leaves the commas alone.
LEMMA CommasStay ==
  ASSUME NEW s \in Text, NEW t \in Tokens, NEW st \in Seq(Openers), NEW o, NEW c,
         Commas(s, st, o, c), t # "comma"
  PROVE  Commas(Append(s, t), st, o, c)
<1> DEFINE r == Append(s, t)
           n == Len(s)
           L == Len(st)
<1>1. /\ n \in Nat /\ Len(r) = n + 1 /\ \A i \in 1..n : r[i] = s[i]
      /\ r[n + 1] = t
      /\ \A i \in 1..(n + 1) : Depth(r, i) = Depth(s, i)
      /\ L \in Nat
  BY OneMore, LenProperties
<1>2. c \in [1..L -> 1..n]
  BY DEF Commas
<1>3. ASSUME NEW l \in 1..L
      PROVE  /\ c[l] \in 1..n /\ c[l] \geq o[l]
             /\ c[l] # o[l] => s[c[l]] = "comma" /\ Depth(s, c[l]) = l
             /\ \A i \in (c[l] + 1)..n : s[i] = "comma" => Depth(s, i) # l
  BY DEF Commas
<1> HIDE DEF r, n, L
<1>5. c \in [1..L -> 1..(n + 1)]
  BY <1>1, <1>2
<1>6. ASSUME NEW l \in 1..L
      PROVE  /\ c[l] # o[l] => r[c[l]] = "comma" /\ Depth(r, c[l]) = l
             /\ \A i \in (c[l] + 1)..(n + 1) : r[i] = "comma" => Depth(r, i) # l
  <2>1. c[l] \in 1..n /\ c[l] \in 1..(n + 1)
    BY <1>1, <1>3
  <2>2. ASSUME NEW i \in (c[l] + 1)..(n + 1), r[i] = "comma" PROVE Depth(r, i) # l
    <3>1. i # n + 1
      BY <1>1, <2>2
    <3>2. i \in 1..n /\ i \in (c[l] + 1)..n /\ i \in 1..(n + 1)
      BY <1>1, <2>1, <3>1
    <3>3. s[i] = "comma"
      BY <1>1, <2>2, <3>2
    <3> QED
      BY <1>1, <1>3, <3>2, <3>3
  <2> QED
    BY <1>1, <1>3, <2>1, <2>2
<1> QED
  BY <1>1, <1>3, <1>5, <1>6 DEF Commas, r, L

\* A comma inside a container is the last one of the innermost.
LEMMA CommasComma ==
  ASSUME NEW s \in Text, NEW st \in Seq(Openers), NEW o, NEW c, st # <<>>,
         Brackets(s, st, o), Commas(s, st, o, c)
  PROVE  Commas(Append(s, "comma"), st, o, [c EXCEPT ![Len(st)] = Len(s) + 1])
<1> DEFINE r == Append(s, "comma")
           n == Len(s)
           L == Len(st)
           d == [c EXCEPT ![L] = n + 1]
<1>0. "comma" \in Tokens
  BY DEF Tokens, Punctuation
<1>1. /\ n \in Nat /\ Len(r) = n + 1 /\ \A i \in 1..n : r[i] = s[i]
      /\ r[n + 1] = "comma"
      /\ \A i \in 1..(n + 1) : Depth(r, i) = Depth(s, i)
      /\ L \in Nat /\ L \geq 1
  <2>1. L \in Nat \ {0}
    BY EmptySeq
  <2> QED
    BY <1>0, <2>1, OneMore
<1>2. c \in [1..L -> 1..n]
  BY DEF Commas
<1>3. ASSUME NEW l \in 1..L
      PROVE  /\ c[l] \in 1..n /\ c[l] \geq o[l]
             /\ c[l] # o[l] => s[c[l]] = "comma" /\ Depth(s, c[l]) = l
             /\ \A i \in (c[l] + 1)..n : s[i] = "comma" => Depth(s, i) # l
  BY DEF Commas
<1>4. Depth(s, n + 1) = L /\ o[L] \in 1..n
  <2>1. L \in 1..Len(st)
    BY <1>1
  <2> QED
    BY <2>1 DEF Brackets
<1> HIDE DEF r, n, L
<1>5. d \in [1..L -> 1..(n + 1)] /\ d[L] = n + 1 /\ \A l \in 1..L : l # L => d[l] = c[l]
  BY <1>1, <1>2
<1> HIDE DEF d
<1>6. ASSUME NEW l \in 1..L
      PROVE  /\ d[l] \geq o[l]
             /\ d[l] # o[l] => r[d[l]] = "comma" /\ Depth(r, d[l]) = l
             /\ \A i \in (d[l] + 1)..(n + 1) : r[i] = "comma" => Depth(r, i) # l
  <2>1. CASE l = L
    <3>1. \A i \in ((n + 1) + 1)..(n + 1) : FALSE
      BY <1>1
    <3>2. n + 1 \in 1..(n + 1)
      BY <1>1
    <3> QED
      BY <1>1, <1>4, <1>5, <2>1, <3>1, <3>2
  <2>2. CASE l # L
    <3>1. d[l] = c[l] /\ c[l] \in 1..n /\ c[l] \in 1..(n + 1)
      BY <1>1, <1>3, <1>5, <2>2
    <3>2. ASSUME NEW i \in (c[l] + 1)..(n + 1), r[i] = "comma" PROVE Depth(r, i) # l
      <4>1. CASE i = n + 1
        <5>1. Depth(r, i) = L
          BY <1>1, <1>4, <4>1
        <5> QED
          BY <2>2, <5>1
      <4>2. CASE i # n + 1
        <5>1. i \in 1..n /\ i \in (c[l] + 1)..n /\ i \in 1..(n + 1)
          BY <1>1, <3>1, <4>2
        <5>2. s[i] = "comma"
          BY <1>1, <3>2, <5>1
        <5> QED
          BY <1>1, <1>3, <5>1, <5>2
      <4> QED
        BY <4>1, <4>2
    <3>3. c[l] # o[l] => r[c[l]] = "comma" /\ Depth(r, c[l]) = l
      BY <1>1, <1>3, <3>1
    <3>4. c[l] \geq o[l]
      BY <1>3
    <3> QED
      BY <3>1, <3>2, <3>3, <3>4
  <2> QED
    BY <2>1, <2>2
<1>7. Commas(r, st, o, d)
  BY <1>1, <1>5, <1>6 DEF Commas, L
<1> QED
  BY <1>7 DEF r, d, n, L

\* A container that has just been opened has no comma yet.
LEMMA CommasOpen ==
  ASSUME NEW s \in Text, NEW t \in Openers, NEW st \in Seq(Openers), NEW o, NEW c,
         Commas(s, st, o, c)
  PROVE  Commas(Append(s, t), Append(st, t), WithOpened(o, st, Len(s) + 1),
                WithOpened(c, st, Len(s) + 1))
<1> DEFINE r == Append(s, t)
           n == Len(s)
           L == Len(st)
           u == Append(st, t)
           p == WithOpened(o, st, n + 1)
           d == WithOpened(c, st, n + 1)
<1>0. t \in Tokens /\ t # "comma"
  BY DEF Tokens, Punctuation, Openers
<1>1. /\ n \in Nat /\ Len(r) = n + 1 /\ L \in Nat
  BY <1>0, OneMore, LenProperties
<1>2. Commas(r, st, o, c)
  BY <1>0, CommasStay
<1>a. Len(u) = L + 1
  BY AppendProperties
<1>b. /\ p[L + 1] = n + 1 /\ d[L + 1] = n + 1
      /\ \A l \in 1..L : p[l] = o[l] /\ d[l] = c[l]
  BY <1>1 DEF WithOpened
<1> HIDE DEF r
<1>3. c \in [1..L -> 1..(n + 1)]
  BY <1>1, <1>2 DEF Commas
<1>4. ASSUME NEW l \in 1..L
      PROVE  /\ c[l] \geq o[l]
             /\ c[l] # o[l] => r[c[l]] = "comma" /\ Depth(r, c[l]) = l
             /\ \A i \in (c[l] + 1)..(n + 1) : r[i] = "comma" => Depth(r, i) # l
  BY <1>1, <1>2 DEF Commas
<1>c. d \in [1..(L + 1) -> 1..(n + 1)]
  BY <1>1, <1>3 DEF WithOpened
<1> HIDE DEF n, L, u, p, d
<1>6. ASSUME NEW l \in 1..(L + 1)
      PROVE  /\ d[l] \geq p[l]
             /\ d[l] # p[l] => r[d[l]] = "comma" /\ Depth(r, d[l]) = l
             /\ \A i \in (d[l] + 1)..(n + 1) : r[i] = "comma" => Depth(r, i) # l
  <2>1. CASE l \in 1..L
    BY <1>4, <1>b, <2>1
  <2>2. CASE l = L + 1
    <3>1. \A i \in ((n + 1) + 1)..(n + 1) : FALSE
      BY <1>1
    <3> QED
      BY <1>1, <1>b, <2>2, <3>1
  <2> QED
    BY <1>1, <2>1, <2>2
<1>7. Commas(r, u, p, d)
  BY <1>1, <1>6, <1>a, <1>c DEF Commas
<1> QED
  BY <1>7 DEF r, u, p, d, n

LEMMA CommasClose ==
  ASSUME NEW s \in Text, NEW t \in Closers, NEW st \in Seq(Openers), NEW o, NEW c,
         st # <<>>, Commas(s, st, o, c)
  PROVE  Commas(Append(s, t), Below(st), WithClosed(o, st), WithClosed(c, st))
<1> DEFINE r == Append(s, t)
           n == Len(s)
           L == Len(st)
           u == Below(st)
           p == WithClosed(o, st)
           d == WithClosed(c, st)
<1>0. t \in Tokens /\ t # "comma"
  BY DEF Tokens, Punctuation, Closers
<1>1. /\ n \in Nat /\ Len(r) = n + 1 /\ L \in Nat /\ L \geq 1 /\ Len(u) = L - 1
  BY <1>0, OneMore, BelowElements
<1>2. Commas(r, st, o, c)
  BY <1>0, CommasStay
<1> HIDE DEF r, u
<1>3. c \in [1..L -> 1..(n + 1)]
  BY <1>1, <1>2 DEF Commas
<1>4. ASSUME NEW l \in 1..L
      PROVE  /\ c[l] \geq o[l]
             /\ c[l] # o[l] => r[c[l]] = "comma" /\ Depth(r, c[l]) = l
             /\ \A i \in (c[l] + 1)..(n + 1) : r[i] = "comma" => Depth(r, i) # l
  BY <1>1, <1>2 DEF Commas
<1>b. \A l \in 1..(L - 1) : l \in 1..L /\ p[l] = o[l] /\ d[l] = c[l]
  BY <1>1 DEF WithClosed
<1>c. d \in [1..(L - 1) -> 1..(n + 1)]
  BY <1>1, <1>3 DEF WithClosed
<1> HIDE DEF n, L, p, d
<1>6. ASSUME NEW l \in 1..(L - 1)
      PROVE  /\ d[l] \geq p[l]
             /\ d[l] # p[l] => r[d[l]] = "comma" /\ Depth(r, d[l]) = l
             /\ \A i \in (d[l] + 1)..(n + 1) : r[i] = "comma" => Depth(r, i) # l
  BY <1>4, <1>b
<1>7. Commas(r, u, p, d)
  BY <1>1, <1>6, <1>c DEF Commas
<1> QED
  BY <1>7 DEF r, u, p, d

-----------------------------------------------------------------------------
(***************************************************************************)
(* What the invariant says of the parser's place.                          *)
(***************************************************************************)
\* Where the value begins that comes next behind position p in a container.
ValueAt(kind, p) == IF kind = "lbracket" THEN p + 1 ELSE p + 3

\* How far each activation has come behind its last comma: the key and the
\* colon of a member are read, when a bracket is open in its value.
Progress(s, st, o, c) ==
  /\ st # <<>> => o[1] = 1
  /\ \A l \in 1..(Len(st) - 1) :
       /\ o[l + 1] = ValueAt(st[l], c[l])
       /\ st[l] = "lbrace" => s[c[l] + 1] \in Strings /\ s[c[l] + 2] = "colon"

\* The same for the innermost activation, by the place where it is.
AtPlace(s, st, o, c) ==
  LET n == Len(s)
      L == Len(st)
  IN  /\ pc = "value" =>
           IF st = <<>> THEN s = <<>>
           ELSE /\ n + 1 = ValueAt(st[L], c[L])
                /\ st[L] = "lbrace" => s[n] = "colon" /\ s[n - 1] \in Strings
                /\ n = o[L] => peek \notin {"rbracket", "ws", EOF}
                /\ st[L] = "lbracket" /\ n # o[L] => L \leq MaxDepth
      /\ pc = "open" => n = c[L] /\ n = o[L]
      /\ pc = "key" =>
           /\ st[L] = "lbrace" /\ n = c[L]
           /\ n = o[L] => peek \notin {"rbrace", "ws", EOF}
      /\ pc = "keyed" => st[L] = "lbrace" /\ n = c[L] + 1 /\ IsKey(s, n)
      /\ pc \in {"after", "end", "accepted"} => s # <<>> /\ ValueBefore(s, n + 1)
      /\ pc = "accepted" => peek = EOF

\* What is read so far can be continued, unless ParseValue is about to find
\* that it is too deep behind a colon.
Readable ==
  Viable(Sig) \/ (pc \in {"value", "rejected"} /\ TooDeep)

Tracked(o, c) ==
  /\ Brackets(Sig, stack, o) /\ Commas(Sig, stack, o, c)
  /\ Progress(Sig, stack, o, c) /\ AtPlace(Sig, stack, o, c)

\* The kinds of tokens are kept apart.
LEMMA KindsApart ==
  /\ \A t \in Punctuation \cup {"ws", "bad"} :
       t \notin Atoms /\ t \notin Strings /\ t # EOF
  /\ \A t \in Strings : t \in Atoms /\ t \in Tokens
  /\ \A t \in Atoms : t \in Tokens /\ t # EOF /\ t # "ws"
  /\ Openers \subseteq Punctuation /\ Closers \subseteq Punctuation
  /\ Punctuation \subseteq Tokens /\ "ws" \in Tokens
  /\ {"comma", "colon", "lbracket", "lbrace", "rbracket", "rbrace"} \subseteq Punctuation
  BY ParserAssumption DEF Tokens, Punctuation, Closers, Openers, Atoms

\* What advancing does to the significant text.
LEMMA SigAdvance ==
  ASSUME TypeOK, Advance, peek \in Tokens
  PROVE  /\ Sig \in Text
         /\ Sig' = IF peek = "ws" THEN Sig ELSE Append(Sig, peek)
<1>1. text \in Text /\ text' = Append(text, peek)
  BY DEF TypeOK, Advance, Text
<1>2. Significant[text'] = IF peek = "ws" THEN Significant[text] ELSE Append(Significant[text], peek)
  BY <1>1, SignificantOfAppend
<1>3. Significant[text] \in Text
  BY <1>1, SignificantType
<1> QED
  BY <1>2, <1>3 DEF Sig

LEMMA SigType == TypeOK => Sig \in Text
  BY SignificantType DEF TypeOK, Sig, Text

\* Whether the next token fits is told by what is around it, by the token
\* before it, and by what ends there.
LEMMA NextFits ==
  ASSUME NEW s \in Text, NEW t \in Tokens
  PROVE  LET r == Append(s, t)
             n == Len(s)
             A == Around(s, n + 1)
             b == Before(s, n + 1, 1)
             key == t \in Strings /\ A = "lbrace" /\ b \in {"lbrace", "comma"}
         IN  /\ IsKey(r, n + 1) <=> key
             /\ n >= 1 => b = s[n]
             /\ n = 0 => b = EOF
             /\ Fits(r, n + 1) <=>
                  \/ A = EOF /\ n = 0 /\ t \in ValueStart
                  \/ /\ A = "lbracket"
                     /\ \/ t \in ValueStart /\ b \in {"lbracket", "comma"}
                        \/ t = "comma" /\ ValueBefore(s, n + 1)
                        \/ t = "rbracket" /\ (b = "lbracket" \/ ValueBefore(s, n + 1))
                  \/ /\ A = "lbrace"
                     /\ \/ key
                        \/ t = "colon" /\ n >= 1 /\ IsKey(s, n)
                        \/ t \in ValueStart /\ b = "colon"
                        \/ t = "comma" /\ ValueBefore(s, n + 1)
                        \/ t = "rbrace" /\ (b = "lbrace" \/ ValueBefore(s, n + 1))
             /\ Shallow(r, n + 1) <=>
                  (t \in ValueStart \cup {"colon"} /\ ~key => Depth(s, n + 1) \leq MaxDepth)
<1> DEFINE r == Append(s, t)
           n == Len(s)
           A == Around(s, n + 1)
           b == Before(s, n + 1, 1)
           key == t \in Strings /\ A = "lbrace" /\ b \in {"lbrace", "comma"}
<1>1. n \in Nat /\ r[n + 1] = t /\ Depth(r, n + 1) = Depth(s, n + 1)
  BY OneMore
<1>2. n + 1 \in 1..(n + 1)
  BY <1>1
<1>3. Around(r, n + 1) = A /\ Before(r, n + 1, 1) = b
      /\ (ValueBefore(r, n + 1) <=> ValueBefore(s, n + 1))
  BY <1>2, AroundOfAppend, BeforeOfAppend, ValueBeforeOfAppend
<1>4. n >= 1 => (IsKey(r, n) <=> IsKey(s, n))
  <2> SUFFICES ASSUME n >= 1 PROVE IsKey(r, n) <=> IsKey(s, n)
    OBVIOUS
  <2>1. n \in 1..Len(s)
    BY <1>1
  <2> QED
    BY <2>1, IsKeyOfAppend
<1>5. (n >= 1 => b = s[n]) /\ (n = 0 => b = EOF) /\ (n + 1) - 1 = n
      /\ (n + 1 > 1 <=> n >= 1) /\ (n + 1 = 1 <=> n = 0)
  BY <1>1 DEF Before
<1> HIDE DEF r, n, A, b
<1>6. IsKey(r, n + 1) <=> key
  BY <1>1, <1>3 DEF IsKey
<1> HIDE DEF key
<1>7. Fits(r, n + 1) <=>
        \/ A = EOF /\ n = 0 /\ t \in ValueStart
        \/ /\ A = "lbracket"
           /\ \/ t \in ValueStart /\ b \in {"lbracket", "comma"}
              \/ t = "comma" /\ ValueBefore(s, n + 1)
              \/ t = "rbracket" /\ (b = "lbracket" \/ ValueBefore(s, n + 1))
        \/ /\ A = "lbrace"
           /\ \/ key
              \/ t = "colon" /\ n >= 1 /\ IsKey(s, n)
              \/ t \in ValueStart /\ b = "colon"
              \/ t = "comma" /\ ValueBefore(s, n + 1)
              \/ t = "rbrace" /\ (b = "lbrace" \/ ValueBefore(s, n + 1))
  BY <1>1, <1>3, <1>4, <1>5, <1>6 DEF Fits
<1>8. Shallow(r, n + 1) <=>
        (t \in ValueStart \cup {"colon"} /\ ~key => Depth(s, n + 1) \leq MaxDepth)
  BY <1>1, <1>6 DEF Shallow
<1> QED
  BY <1>5, <1>6, <1>7, <1>8 DEF r, n, A, b, key

\* A value ends before a position only behind a closing bracket or an atom.
LEMMA ValueBeforeToken ==
  ASSUME NEW s \in Text, NEW n, n = Len(s), n >= 1, ValueBefore(s, n + 1)
  PROVE  s[n] \in Closers \/ (s[n] \in Atoms /\ ~IsKey(s, n))
<1>1. n \in Nat
  BY TextLength
<1>2. Before(s, n + 1, 1) = s[n] /\ (n + 1) - 1 = n
  BY <1>1 DEF Before
<1> QED
  BY <1>2 DEF ValueBefore

\* What Brackets and Commas say of the innermost activation.
LEMMA Innermost ==
  ASSUME NEW s \in Text, NEW st \in Seq(Openers), NEW o, NEW c, st # <<>>,
         Brackets(s, st, o), Commas(s, st, o, c)
  PROVE  LET n == Len(s)
             L == Len(st)
         IN  /\ L \in Nat /\ L \geq 1 /\ n \in Nat /\ n \geq 1
             /\ Depth(s, n + 1) = L
             /\ Around(s, n + 1) = st[L] /\ st[L] \in Openers
             /\ o[L] \in 1..n /\ c[L] \in 1..n /\ c[L] \geq o[L]
             /\ s[o[L]] = st[L]
             /\ c[L] # o[L] => s[c[L]] = "comma"
<1>1. Len(st) \in Nat /\ Len(st) \geq 1 /\ st[Len(st)] \in Openers
  BY BelowElements
<1>2. Len(st) \in 1..Len(st) /\ Len(s) \in Nat
  BY <1>1, TextLength
<1>3. /\ Depth(s, Len(s) + 1) = Len(st)
      /\ o[Len(st)] \in 1..Len(s) /\ s[o[Len(st)]] = st[Len(st)]
  BY <1>2 DEF Brackets
<1>4. /\ c[Len(st)] \in 1..Len(s) /\ c[Len(st)] \geq o[Len(st)]
      /\ c[Len(st)] # o[Len(st)] => s[c[Len(st)]] = "comma"
  BY <1>2 DEF Commas
<1>5. Around(s, Len(s) + 1) = st[Len(st)]
  BY AroundIsTop
<1>6. Len(s) \geq 1
  BY <1>2, <1>3
<1> QED
  BY <1>1, <1>2, <1>3, <1>4, <1>5, <1>6

LEMMA NoneOpen ==
  ASSUME NEW s \in Text, NEW st, NEW o, st = <<>>, Brackets(s, st, o)
  PROVE  Depth(s, Len(s) + 1) = 0 /\ Around(s, Len(s) + 1) = EOF
<1>1. Depth(s, Len(s) + 1) = 0
  BY EmptySeq DEF Brackets
<1> QED
  BY <1>1, AroundNothing

-----------------------------------------------------------------------------
(***************************************************************************)
(* What the next token does to the progress of the activations.            *)
(***************************************************************************)
\* What stands before a bracket that is open now stays there; c may change at
\* the innermost activation.
LEMMA ProgressStays ==
  ASSUME NEW s \in Text, NEW t \in Tokens, NEW st \in Seq(Openers), NEW o, NEW c, NEW d,
         Brackets(s, st, o), Commas(s, st, o, c), Progress(s, st, o, c),
         \A l \in 1..(Len(st) - 1) : d[l] = c[l]
  PROVE  Progress(Append(s, t), st, o, d)
<1> DEFINE r == Append(s, t)
           n == Len(s)
           L == Len(st)
<1>1. n \in Nat /\ L \in Nat /\ \A i \in 1..n : r[i] = s[i]
  BY OneMore, LenProperties
<1>2. ASSUME NEW l \in 1..(L - 1)
      PROVE  /\ o[l + 1] = ValueAt(st[l], d[l])
             /\ st[l] = "lbrace" => r[d[l] + 1] \in Strings /\ r[d[l] + 2] = "colon"
  <2>1. /\ o[l + 1] = ValueAt(st[l], c[l])
        /\ st[l] = "lbrace" => s[c[l] + 1] \in Strings /\ s[c[l] + 2] = "colon"
    BY DEF Progress
  <2>2. l \in 1..L /\ l + 1 \in 1..L
    BY <1>1
  <2>3. o[l + 1] \in 1..n /\ c[l] \in 1..n
    BY <2>2 DEF Brackets, Commas
  <2>4. st[l] = "lbrace" => c[l] + 1 \in 1..n /\ c[l] + 2 \in 1..n
    BY <1>1, <2>1, <2>3 DEF ValueAt
  <2> HIDE DEF r, n, L
  <2>5. st[l] = "lbrace" => r[c[l] + 1] = s[c[l] + 1] /\ r[c[l] + 2] = s[c[l] + 2]
    BY <1>1, <2>4
  <2>6. d[l] = c[l]
    BY DEF L
  <2> QED
    BY <2>1, <2>5, <2>6
<1>3. st # <<>> => o[1] = 1
  BY DEF Progress
<1> HIDE DEF r
<1> QED
  BY <1>2, <1>3 DEF Progress, r

LEMMA ProgressOpens ==
  ASSUME NEW s \in Text, NEW t \in Openers, NEW st \in Seq(Openers), NEW o, NEW c,
         Brackets(s, st, o), Commas(s, st, o, c), Progress(s, st, o, c),
         IF st = <<>> THEN s = <<>>
         ELSE /\ Len(s) + 1 = ValueAt(st[Len(st)], c[Len(st)])
              /\ st[Len(st)] = "lbrace" => s[Len(s)] = "colon" /\ s[Len(s) - 1] \in Strings
  PROVE  Progress(Append(s, t), Append(st, t), WithOpened(o, st, Len(s) + 1),
                  WithOpened(c, st, Len(s) + 1))
<1> DEFINE r == Append(s, t)
           n == Len(s)
           L == Len(st)
           u == Append(st, t)
           p == WithOpened(o, st, n + 1)
           d == WithOpened(c, st, n + 1)
<1>0. t \in Tokens
  BY KindsApart
<1>1. n \in Nat /\ L \in Nat /\ \A i \in 1..n : r[i] = s[i]
  BY <1>0, OneMore, LenProperties
<1>2. Len(u) = L + 1 /\ \A l \in 1..L : u[l] = st[l]
  BY AppendProperties
<1>3. /\ p[L + 1] = n + 1 /\ d[L + 1] = n + 1
      /\ \A l \in 1..L : p[l] = o[l] /\ d[l] = c[l]
  BY <1>1 DEF WithOpened
<1>4. Progress(r, st, o, c)
  BY <1>0, ProgressStays
<1>5. (st = <<>> => L = 0 /\ n = 0) /\ (st # <<>> => L \geq 1)
  <2>1. st = <<>> => L = 0 /\ n = 0
    BY EmptySeq
  <2>2. st # <<>> => L \in Nat \ {0}
    BY EmptySeq
  <2> QED
    BY <2>1, <2>2
<1>6. p[1] = 1
  <2>1. CASE st = <<>>
    BY <1>1, <1>3, <1>5, <2>1
  <2>2. CASE st # <<>>
    <3>1. o[1] = 1
      BY <2>2 DEF Progress
    <3>2. 1 \in 1..L
      BY <1>1, <1>5, <2>2
    <3> HIDE DEF p, L
    <3> QED
      BY <1>3, <3>1, <3>2
  <2> QED
    BY <2>1, <2>2
<1>7. ASSUME NEW l \in 1..L
      PROVE  /\ p[l + 1] = ValueAt(u[l], d[l])
             /\ u[l] = "lbrace" => r[d[l] + 1] \in Strings /\ r[d[l] + 2] = "colon"
  <2>1. u[l] = st[l] /\ d[l] = c[l]
    BY <1>2, <1>3
  <2>2. CASE l # L
    <3>1. l \in 1..(L - 1) /\ l + 1 \in 1..L
      BY <1>1, <2>2
    <3>2. /\ o[l + 1] = ValueAt(st[l], c[l])
          /\ st[l] = "lbrace" => r[c[l] + 1] \in Strings /\ r[c[l] + 2] = "colon"
      <4> HIDE DEF r
      <4> QED
        BY <1>4, <3>1 DEF Progress
    <3>3. p[l + 1] = o[l + 1]
      BY <1>3, <3>1
    <3> HIDE DEF p, d, u, r, L
    <3> QED
      BY <2>1, <3>2, <3>3
  <2>3. CASE l = L
    <3>1. st # <<>>
      BY <1>1, <1>5, <2>3
    <3>2. n + 1 = ValueAt(st[L], c[L])
      BY <3>1
    <3>3. st[L] = "lbrace" => s[n] = "colon" /\ s[n - 1] \in Strings
      BY <3>1
    <3>4. c[L] \in 1..n
      BY <2>3 DEF Commas
    <3>5. st[L] = "lbrace" => c[L] + 2 = n /\ c[L] + 1 = n - 1 /\ n - 1 \in 1..n /\ n \in 1..n
      BY <1>1, <3>2, <3>4 DEF ValueAt
    <3>6. p[l + 1] = n + 1
      BY <1>3, <2>3
    <3> HIDE DEF p, d, u, r, L, n
    <3> QED
      BY <1>1, <2>1, <2>3, <3>2, <3>3, <3>5, <3>6
  <2> QED
    BY <2>2, <2>3
<1> HIDE DEF p, d, u, r, L, n
<1>8. Len(u) - 1 = L
  BY <1>1, <1>2
<1>9. Progress(r, u, p, d)
  BY <1>6, <1>7, <1>8 DEF Progress
<1> QED
  BY <1>9 DEF p, d, u, r, n

LEMMA ProgressCloses ==
  ASSUME NEW s \in Text, NEW t \in Closers, NEW st \in Seq(Openers), NEW o, NEW c,
         st # <<>>, Brackets(s, st, o), Commas(s, st, o, c), Progress(s, st, o, c)
  PROVE  Progress(Append(s, t), Below(st), WithClosed(o, st), WithClosed(c, st))
<1> DEFINE r == Append(s, t)
           L == Len(st)
           u == Below(st)
           p == WithClosed(o, st)
           d == WithClosed(c, st)
<1>0. t \in Tokens
  BY KindsApart
<1>1. /\ L \in Nat /\ L \geq 1 /\ Len(u) = L - 1 /\ u \in Seq(Openers)
      /\ \A l \in 1..(L - 1) : u[l] = st[l]
  BY BelowElements
<1>2. \A l \in 1..(L - 1) : p[l] = o[l] /\ d[l] = c[l]
  BY DEF WithClosed
<1>3. Progress(r, st, o, c)
  BY <1>0, ProgressStays
<1> HIDE DEF r, p, d
<1>4. u # <<>> => p[1] = 1
  <2> SUFFICES ASSUME u # <<>> PROVE p[1] = 1
    OBVIOUS
  <2>1. Len(u) \in Nat \ {0}
    <3> HIDE DEF u
    <3> QED
      BY <1>1, EmptySeq
  <2>2. 1 \in 1..(L - 1)
    BY <1>1, <2>1
  <2>3. o[1] = 1
    BY DEF Progress
  <2> QED
    BY <1>2, <2>2, <2>3
<1> HIDE DEF u, L
<1>5. ASSUME NEW l \in 1..(Len(u) - 1)
      PROVE  /\ p[l + 1] = ValueAt(u[l], d[l])
             /\ u[l] = "lbrace" => r[d[l] + 1] \in Strings /\ r[d[l] + 2] = "colon"
  <2>1. l \in 1..(L - 1) /\ l + 1 \in 1..(L - 1)
    BY <1>1
  <2>2. /\ o[l + 1] = ValueAt(st[l], c[l])
        /\ st[l] = "lbrace" => r[c[l] + 1] \in Strings /\ r[c[l] + 2] = "colon"
    BY <1>3, <2>1 DEF Progress, L
  <2> QED
    BY <1>1, <1>2, <2>1, <2>2
<1>6. Progress(r, u, p, d)
  BY <1>4, <1>5 DEF Progress
<1> QED
  BY <1>6 DEF p, d, u, r

-----------------------------------------------------------------------------
(***************************************************************************)
(* Each action keeps track of the text.                                    *)
(***************************************************************************)
\* What is known in every state.
LEMMA Known ==
  ASSUME IInv
  PROVE  /\ Sig \in Text /\ Len(Sig) \in Nat
         /\ stack \in Seq(Openers) /\ Len(stack) \in Nat
         /\ stack # <<>> => Len(stack) \geq 1
         /\ stack = <<>> => Len(stack) = 0
         /\ pc \in {"open", "key", "keyed", "after"} => stack # <<>>
         /\ pc \in {"end", "accepted"} => stack = <<>>
         /\ MaxDepth \in Nat
<1>1. TypeOK /\ PlaceMatchesStack
  BY DEF IInv
<1>2. stack \in Seq(Openers)
  BY <1>1 DEF TypeOK
<1>3. stack # <<>> => Len(stack) \in Nat \ {0}
  BY <1>2, EmptySeq
<1>4. stack = <<>> => Len(stack) = 0
  BY EmptySeq
<1> QED
  BY <1>1, <1>2, <1>3, <1>4, SigType, TextLength, LenProperties, ParserAssumption
  DEF PlaceMatchesStack

\* Behind a scalar or a closing bracket a value has ended.
LEMMA ValueEnds ==
  ASSUME NEW s \in Text, NEW t \in Tokens,
         \/ t \in Closers
         \/ t \in Atoms /\ (t \in Strings => Around(s, Len(s) + 1) # "lbrace"
                                             \/ Before(s, Len(s) + 1, 1) = "colon")
  PROVE  ValueBefore(Append(s, t), Len(Append(s, t)) + 1)
<1> DEFINE r == Append(s, t)
           n == Len(s)
<1>1. n \in Nat /\ Len(r) = n + 1 /\ r[n + 1] = t
  BY OneMore
<1>2. IsKey(r, n + 1) <=> (/\ t \in Strings /\ Around(s, n + 1) = "lbrace"
                           /\ Before(s, n + 1, 1) \in {"lbrace", "comma"})
  BY NextFits
<1> HIDE DEF r, n
<1>3. Before(r, (n + 1) + 1, 1) = t /\ ((n + 1) + 1) - 1 = n + 1
  BY <1>1 DEF Before
<1>4. t \in Closers \/ (t \in Atoms /\ ~IsKey(r, n + 1))
  BY <1>2 DEF n
<1>5. ValueBefore(r, (n + 1) + 1)
  BY <1>3, <1>4 DEF ValueBefore
<1> QED
  BY <1>1, <1>5 DEF r

LEMMA TrackWhitespace ==
  ASSUME NEW o, NEW c, IInv, Tracked(o, c), SkipWhitespace
  PROVE  Tracked(o, c)' /\ Sig' = Sig
<1>1. peek = "ws" /\ pc' = pc /\ stack' = stack
  BY DEF SkipWhitespace
<1>2. Sig' = Sig
  BY <1>1, SigAdvance, KindsApart DEF SkipWhitespace, IInv
<1>3. AtPlace(Sig, stack, o, c)'
  <2>1. pc # "accepted"
    BY DEF SkipWhitespace, Places
  <2> QED
    BY <1>1, <1>2, <2>1 DEF Tracked, AtPlace
<1> QED
  BY <1>1, <1>2, <1>3 DEF Tracked

\* At the place of a value.
LEMMA AtValue ==
  ASSUME NEW o, NEW c, IInv, Tracked(o, c), pc = "value"
  PROVE  LET n == Len(Sig)
             L == Len(stack)
             A == Around(Sig, n + 1)
             b == Before(Sig, n + 1, 1)
         IN  /\ stack = <<>> => A = EOF /\ n = 0 /\ Sig = <<>>
             /\ stack # <<>> /\ stack[L] = "lbracket" =>
                  A = "lbracket" /\ n \geq 1 /\ b = Sig[n] /\ b \in {"lbracket", "comma"}
                  /\ (b = "lbracket" <=> n = o[L])
             /\ stack # <<>> /\ stack[L] = "lbrace" =>
                  A = "lbrace" /\ n \geq 1 /\ b = Sig[n] /\ b = "colon" /\ n # o[L]
             /\ stack # <<>> => stack[L] \in {"lbracket", "lbrace"}
<1> DEFINE n == Len(Sig)
           L == Len(stack)
<1>1. CASE stack = <<>>
  <2>1. Sig = <<>>
    BY <1>1 DEF Tracked, AtPlace
  <2> QED
    BY <1>1, <2>1, Known, NoneOpen, EmptySeq DEF Tracked
<1>2. CASE stack # <<>>
  <2>1. /\ n \in Nat /\ n \geq 1 /\ Around(Sig, n + 1) = stack[L] /\ stack[L] \in Openers
        /\ o[L] \in 1..n /\ c[L] \in 1..n /\ c[L] \geq o[L]
        /\ Sig[o[L]] = stack[L]
        /\ c[L] # o[L] => Sig[c[L]] = "comma"
    BY <1>2, Known, Innermost DEF Tracked
  <2>2. /\ n + 1 = ValueAt(stack[L], c[L])
        /\ stack[L] = "lbrace" => Sig[n] = "colon"
    BY <1>2 DEF Tracked, AtPlace
  <2> HIDE DEF n, L
  <2>3. Before(Sig, n + 1, 1) = Sig[n]
    BY <2>1 DEF Before
  <2>4. stack[L] = "lbracket" => n = c[L]
    BY <2>1, <2>2 DEF ValueAt
  <2>5. stack[L] = "lbrace" => n = c[L] + 2
    BY <2>1, <2>2 DEF ValueAt
  <2>6. stack[L] = "lbrace" => n # o[L]
    BY <2>1, <2>5
  <2> QED
    BY <1>2, <2>1, <2>2, <2>3, <2>4, <2>6 DEF Openers, n, L
<1> QED
  BY <1>1, <1>2

LEMMA TrackScalar ==
  ASSUME NEW o, NEW c, IInv, Tracked(o, c), ParseScalar
  PROVE  Tracked(o, c)' /\ Sig' = Append(Sig, peek)
<1> DEFINE s == Sig
           n == Len(Sig)
           L == Len(stack)
<1>1. /\ pc = "value" /\ peek \in Atoms /\ Return(Scalar(peek), stack, built) /\ Advance
  BY DEF ParseScalar
<1>2. stack' = stack /\ pc' \in {"after", "end"}
  BY <1>1, ReturnPlace
<1>3. peek \in Tokens /\ peek # "ws" /\ peek \notin Openers /\ peek \notin Closers /\ peek # "comma"
  BY <1>1, KindsApart
<1>4. s \in Text /\ Sig' = Append(s, peek) /\ stack \in Seq(Openers)
  BY <1>1, <1>3, SigAdvance, Known DEF IInv
<1>5. Brackets(s, stack, o) /\ Commas(s, stack, o, c) /\ Progress(s, stack, o, c)
  BY DEF Tracked
<1>6. Around(s, n + 1) # "lbrace" \/ Before(s, n + 1, 1) = "colon"
  <2>1. EOF # "lbrace"
    BY KindsApart
  <2> QED
    BY <1>1, <2>1, AtValue
<1> HIDE DEF s, n
<1>7. ValueBefore(Append(s, peek), Len(Append(s, peek)) + 1)
  BY <1>1, <1>3, <1>4, <1>6, ValueEnds DEF n, s
<1>8. Append(s, peek) # <<>>
  BY <1>3, <1>4, OneMore
<1>9. AtPlace(Sig, stack, o, c)'
  BY <1>2, <1>4, <1>7, <1>8 DEF AtPlace
<1>10. Brackets(Append(s, peek), stack, o) /\ Commas(Append(s, peek), stack, o, c)
  BY <1>3, <1>4, <1>5, BracketsStay, CommasStay
<1>11. Progress(Append(s, peek), stack, o, c)
  BY <1>3, <1>4, <1>5, ProgressStays
<1>12. Tracked(o, c)'
  BY <1>2, <1>4, <1>9, <1>10, <1>11 DEF Tracked
<1> QED
  BY <1>4, <1>12 DEF s

LEMMA TrackOpen ==
  ASSUME NEW o, NEW c, NEW p, NEW d, IInv, Tracked(o, c), OpenContainer,
         p = WithOpened(o, stack, Len(Sig) + 1), d = WithOpened(c, stack, Len(Sig) + 1)
  PROVE  Tracked(p, d)' /\ Sig' = Append(Sig, peek)
<1> DEFINE s == Sig
           n == Len(Sig)
           L == Len(stack)
<1>1. /\ pc = "value" /\ peek \in Openers /\ Advance
      /\ stack' = Append(stack, peek) /\ pc' = "open"
  BY DEF OpenContainer
<1>3. peek \in Tokens /\ peek # "ws" /\ peek \notin Closers /\ peek # "comma"
  BY <1>1, KindsApart DEF Openers, Closers
<1>4. s \in Text /\ Sig' = Append(s, peek) /\ stack \in Seq(Openers)
  BY <1>1, <1>3, SigAdvance, Known DEF IInv
<1>5. Brackets(s, stack, o) /\ Commas(s, stack, o, c) /\ Progress(s, stack, o, c)
  BY DEF Tracked
<1>6. IF stack = <<>> THEN s = <<>>
      ELSE /\ n + 1 = ValueAt(stack[L], c[L])
           /\ stack[L] = "lbrace" => s[n] = "colon" /\ s[n - 1] \in Strings
  BY <1>1 DEF Tracked, AtPlace
<1>7. Len(Append(s, peek)) = n + 1 /\ Len(Append(stack, peek)) = L + 1 /\ n \in Nat /\ L \in Nat
  BY <1>1, <1>3, <1>4, OneMore, AppendProperties, LenProperties
<1>8. p[L + 1] = n + 1 /\ d[L + 1] = n + 1
  BY <1>7 DEF WithOpened
<1>9. AtPlace(Sig, stack, p, d)'
  BY <1>1, <1>4, <1>7, <1>8 DEF AtPlace
<1>10. /\ Brackets(Append(s, peek), Append(stack, peek), p)
       /\ Commas(Append(s, peek), Append(stack, peek), p, d)
  BY <1>1, <1>4, <1>5, BracketsOpen, CommasOpen
<1>11. Progress(Append(s, peek), Append(stack, peek), p, d)
  BY <1>1, <1>4, <1>5, <1>6, ProgressOpens
<1>12. Tracked(p, d)'
  <2> HIDE DEF s
  <2> QED
    BY <1>1, <1>4, <1>9, <1>10, <1>11 DEF Tracked
<1> QED
  BY <1>4, <1>12

\* The two ways of leaving a container.
LEMMA TrackClose ==
  ASSUME NEW o, NEW c, NEW p, NEW d, IInv, Tracked(o, c), CloseEmpty \/ CloseContainer,
         p = WithClosed(o, stack), d = WithClosed(c, stack)
  PROVE  Tracked(p, d)' /\ Sig' = Append(Sig, peek)
<1> DEFINE s == Sig
<1>1. /\ peek = Closer /\ Advance /\ stack # <<>>
      /\ Return(Container(Top(stack), Top(built)), Below(stack), Below(built))
  BY Known DEF CloseEmpty, CloseContainer
<1>2. stack' = Below(stack) /\ pc' \in {"after", "end"}
  BY <1>1, ReturnPlace
<1>3. peek \in Closers /\ peek \in Tokens /\ peek # "ws"
  BY <1>1, KindsApart DEF Closer, Closers
<1>4. s \in Text /\ Sig' = Append(s, peek) /\ stack \in Seq(Openers)
  BY <1>1, <1>3, SigAdvance, Known DEF IInv
<1>5. Brackets(s, stack, o) /\ Commas(s, stack, o, c) /\ Progress(s, stack, o, c)
  BY DEF Tracked
<1> HIDE DEF s
<1>7. ValueBefore(Append(s, peek), Len(Append(s, peek)) + 1)
  BY <1>3, <1>4, ValueEnds
<1>8. Append(s, peek) # <<>>
  BY <1>3, <1>4, OneMore
<1>9. AtPlace(Sig, stack, p, d)'
  BY <1>2, <1>4, <1>7, <1>8 DEF AtPlace
<1>10. /\ Brackets(Append(s, peek), Below(stack), p)
       /\ Commas(Append(s, peek), Below(stack), p, d)
  BY <1>1, <1>3, <1>4, <1>5, BracketsClose, CommasClose
<1>11. Progress(Append(s, peek), Below(stack), p, d)
  BY <1>1, <1>3, <1>4, <1>5, ProgressCloses
<1>12. Tracked(p, d)'
  BY <1>2, <1>4, <1>9, <1>10, <1>11 DEF Tracked
<1> QED
  BY <1>4, <1>12 DEF s

LEMMA TrackEnter ==
  ASSUME NEW o, NEW c, IInv, Tracked(o, c), EnterLoop
  PROVE  Tracked(o, c)' /\ Sig' = Sig
<1> DEFINE n == Len(Sig)
           L == Len(stack)
<1>1. /\ pc = "open" /\ peek \notin {Closer, "ws", EOF} /\ stack # <<>>
      /\ pc' = IF Top(stack) = "lbracket" THEN "value" ELSE "key"
      /\ text' = text /\ peek' = peek /\ stack' = stack
  BY Known DEF EnterLoop
<1>2. Sig' = Sig
  BY <1>1 DEF Sig
<1>3. n = c[L] /\ n = o[L]
  BY <1>1 DEF Tracked, AtPlace
<1>4. stack[L] \in {"lbracket", "lbrace"} /\ n \in Nat
  BY <1>1, Known, Innermost DEF Tracked, Openers
<1>5. Top(stack) = stack[L]
  BY DEF Top
<1>6. peek \notin {"ws", EOF} /\ peek # (IF stack[L] = "lbracket" THEN "rbracket" ELSE "rbrace")
  BY <1>1, <1>5 DEF Closer
<1>7. stack[L] = "lbracket" => n + 1 = ValueAt(stack[L], c[L])
  BY <1>3 DEF ValueAt
<1>8. AtPlace(Sig, stack, o, c)'
  <2> HIDE DEF n, L
  <2>1. Len(Sig') = n /\ Len(stack') = L
    BY <1>1, <1>2 DEF n, L
  <2>2. CASE stack[L] = "lbracket"
    BY <1>1, <1>2, <1>3, <1>4, <1>5, <1>6, <1>7, <2>1, <2>2 DEF AtPlace
  <2>3. CASE stack[L] = "lbrace"
    BY <1>1, <1>2, <1>3, <1>4, <1>5, <1>6, <2>1, <2>3 DEF AtPlace
  <2> QED
    BY <1>4, <2>2, <2>3
<1> QED
  BY <1>1, <1>2, <1>8 DEF Tracked

\* At the place of a key.
LEMMA AtKey ==
  ASSUME NEW o, NEW c, IInv, Tracked(o, c), pc = "key"
  PROVE  LET n == Len(Sig)
             L == Len(stack)
             b == Before(Sig, n + 1, 1)
         IN  /\ stack # <<>> /\ stack[L] = "lbrace" /\ n \geq 1
             /\ Around(Sig, n + 1) = "lbrace"
             /\ b = Sig[n] /\ b \in {"lbrace", "comma"}
             /\ (b = "lbrace" <=> n = o[L])
<1> DEFINE n == Len(Sig)
           L == Len(stack)
<1>1. stack # <<>>
  BY Known
<1>2. stack[L] = "lbrace" /\ n = c[L]
  BY DEF Tracked, AtPlace
<1>3. /\ n \in Nat /\ n \geq 1 /\ Around(Sig, n + 1) = stack[L]
      /\ Sig[o[L]] = stack[L]
      /\ c[L] # o[L] => Sig[c[L]] = "comma"
  BY <1>1, Known, Innermost DEF Tracked
<1> HIDE DEF n, L
<1>4. Before(Sig, n + 1, 1) = Sig[n]
  BY <1>3 DEF Before
<1> QED
  BY <1>1, <1>2, <1>3, <1>4 DEF n, L

LEMMA TrackKey ==
  ASSUME NEW o, NEW c, IInv, Tracked(o, c), ParseKey
  PROVE  Tracked(o, c)' /\ Sig' = Append(Sig, peek)
<1> DEFINE s == Sig
           n == Len(Sig)
           L == Len(stack)
<1>1. pc = "key" /\ peek \in Strings /\ Advance /\ pc' = "keyed" /\ stack' = stack
  BY DEF ParseKey
<1>3. peek \in Tokens /\ peek # "ws" /\ peek \notin Openers /\ peek \notin Closers /\ peek # "comma"
  BY <1>1, KindsApart
<1>4. s \in Text /\ Sig' = Append(s, peek) /\ stack \in Seq(Openers)
  BY <1>1, <1>3, SigAdvance, Known DEF IInv
<1>5. Brackets(s, stack, o) /\ Commas(s, stack, o, c) /\ Progress(s, stack, o, c)
  BY DEF Tracked
<1>6. /\ stack[L] = "lbrace"
      /\ Around(s, n + 1) = "lbrace" /\ Before(s, n + 1, 1) \in {"lbrace", "comma"}
  BY <1>1, AtKey
<1>7. n = c[L]
  BY <1>1 DEF Tracked, AtPlace
<1>8. Len(Append(s, peek)) = n + 1
  BY <1>3, <1>4, OneMore
<1>9. IsKey(Append(s, peek), n + 1)
  BY <1>1, <1>3, <1>4, <1>6, NextFits
<1> HIDE DEF s, n
<1>10. AtPlace(Sig, stack, o, c)'
  BY <1>1, <1>4, <1>6, <1>7, <1>8, <1>9 DEF AtPlace
<1>11. Brackets(Append(s, peek), stack, o) /\ Commas(Append(s, peek), stack, o, c)
  BY <1>3, <1>4, <1>5, BracketsStay, CommasStay
<1>12. Progress(Append(s, peek), stack, o, c)
  BY <1>3, <1>4, <1>5, ProgressStays
<1>13. Tracked(o, c)'
  BY <1>1, <1>4, <1>10, <1>11, <1>12 DEF Tracked
<1> QED
  BY <1>4, <1>13 DEF s

\* At the place of a colon.
LEMMA AtColon ==
  ASSUME NEW o, NEW c, IInv, Tracked(o, c), pc = "keyed"
  PROVE  LET n == Len(Sig)
             L == Len(stack)
         IN  /\ stack # <<>> /\ stack[L] = "lbrace" /\ n \geq 1
             /\ Around(Sig, n + 1) = "lbrace"
             /\ Before(Sig, n + 1, 1) = Sig[n] /\ Sig[n] \in Strings /\ IsKey(Sig, n)
             /\ n = c[L] + 1 /\ n # o[L]
<1> DEFINE n == Len(Sig)
           L == Len(stack)
<1>1. stack # <<>>
  BY Known
<1>2. stack[L] = "lbrace" /\ n = c[L] + 1 /\ IsKey(Sig, n)
  BY DEF Tracked, AtPlace
<1>3. /\ n \in Nat /\ n \geq 1 /\ Around(Sig, n + 1) = stack[L]
      /\ c[L] \in 1..n /\ o[L] \in 1..n /\ c[L] \geq o[L]
  BY <1>1, Known, Innermost DEF Tracked
<1> HIDE DEF n, L
<1>4. Before(Sig, n + 1, 1) = Sig[n]
  BY <1>3 DEF Before
<1>5. n # o[L]
  BY <1>2, <1>3
<1> QED
  BY <1>1, <1>2, <1>3, <1>4, <1>5 DEF n, L, IsKey

LEMMA TrackColon ==
  ASSUME NEW o, NEW c, IInv, Tracked(o, c), ParseColon
  PROVE  Tracked(o, c)' /\ Sig' = Append(Sig, peek)
<1> DEFINE s == Sig
           n == Len(Sig)
           L == Len(stack)
           r == Append(s, peek)
<1>1. pc = "keyed" /\ peek = "colon" /\ Advance /\ pc' = "value" /\ stack' = stack
  BY DEF ParseColon
<1>3. peek \in Tokens /\ peek # "ws" /\ peek \notin Openers /\ peek \notin Closers /\ peek # "comma"
  BY <1>1, KindsApart DEF Openers, Closers
<1>4. s \in Text /\ Sig' = r /\ stack \in Seq(Openers)
  BY <1>1, <1>3, SigAdvance, Known DEF IInv
<1>5. Brackets(s, stack, o) /\ Commas(s, stack, o, c) /\ Progress(s, stack, o, c)
  BY DEF Tracked
<1>6. /\ stack # <<>> /\ stack[L] = "lbrace" /\ n = c[L] + 1 /\ n >= 1 /\ n \in Nat
      /\ s[n] \in Strings
  BY <1>1, AtColon, Known
<1>7. c[L] \in Nat /\ o[L] \in 1..n
  BY <1>6, Known, Innermost DEF Tracked
<1>8. Len(r) = n + 1 /\ r[n + 1] = "colon" /\ r[n] = s[n]
  <2>1. n \in 1..Len(s)
    BY <1>6
  <2> QED
    BY <1>1, <1>3, <1>4, <2>1, OneMore
<1>a. (n + 1) + 1 = ValueAt("lbrace", c[L]) /\ (n + 1) - 1 = n /\ n + 1 # o[L]
  BY <1>6, <1>7 DEF ValueAt
<1>b. Brackets(r, stack, o) /\ Commas(r, stack, o, c)
  BY <1>3, <1>4, <1>5, BracketsStay, CommasStay
<1>c. Progress(r, stack, o, c)
  BY <1>3, <1>4, <1>5, ProgressStays
<1> HIDE DEF s, n, r, L
<1>d. AtPlace(Sig, stack, o, c)'
  <2>1. Len(stack') = L
    BY <1>1 DEF L
  <2> QED
    BY <1>1, <1>4, <1>6, <1>8, <1>a, <2>1 DEF AtPlace
<1>e. Tracked(o, c)'
  BY <1>1, <1>4, <1>b, <1>c, <1>d DEF Tracked
<1> QED
  BY <1>4, <1>e DEF r, s

LEMMA TrackComma ==
  ASSUME NEW o, NEW c, NEW d, IInv, Tracked(o, c), ParseComma,
         d = [c EXCEPT ![Len(stack)] = Len(Sig) + 1]
  PROVE  Tracked(o, d)' /\ Sig' = Append(Sig, peek)
<1> DEFINE s == Sig
           n == Len(Sig)
           L == Len(stack)
           r == Append(s, peek)
<1>1. /\ pc = "after" /\ peek = "comma" /\ Advance /\ stack' = stack /\ stack # <<>>
      /\ pc' = IF Top(stack) = "lbracket" THEN "value" ELSE "key"
  BY Known DEF ParseComma
<1>3. peek \in Tokens /\ peek # "ws" /\ peek \notin Openers /\ peek \notin Closers
  BY <1>1, KindsApart DEF Openers, Closers
<1>4. s \in Text /\ Sig' = r /\ stack \in Seq(Openers)
  BY <1>1, <1>3, SigAdvance, Known DEF IInv
<1>5. Brackets(s, stack, o) /\ Commas(s, stack, o, c) /\ Progress(s, stack, o, c)
  BY DEF Tracked
<1>6. /\ n \in Nat /\ o[L] \in 1..n /\ stack[L] \in {"lbracket", "lbrace"}
      /\ L \in Nat /\ L \geq 1
  BY <1>1, Known, Innermost DEF Tracked, Openers
<1>7. L \leq MaxDepth
  BY <1>1, <1>6, Known DEF IInv, RecursionBounded
<1>8. Len(r) = n + 1
  BY <1>3, <1>4, OneMore
<1>9. d[L] = n + 1 /\ \A l \in 1..(L - 1) : d[l] = c[l]
  <2>1. c \in [1..L -> 1..n]
    BY <1>5 DEF Commas
  <2> QED
    BY <1>6, <2>1
<1>b. Brackets(r, stack, o)
  BY <1>3, <1>4, <1>5, BracketsStay
<1>c. Commas(r, stack, o, d)
  BY <1>1, <1>4, <1>5, CommasComma
<1>d. Progress(r, stack, o, d)
  <2> HIDE DEF L
  <2>1. \A l \in 1..(Len(stack) - 1) : d[l] = c[l]
    BY <1>9 DEF L
  <2> QED
    BY <1>3, <1>4, <1>5, <2>1, ProgressStays
<1>e. (n + 1) + 1 = ValueAt("lbracket", d[L]) /\ n + 1 # o[L]
  BY <1>6, <1>9 DEF ValueAt
<1> HIDE DEF s, n, r, L
<1>f. AtPlace(Sig, stack, o, d)'
  <2>1. Len(stack') = L /\ Top(stack) = stack[L]
    BY <1>1 DEF L, Top
  <2>2. CASE stack[L] = "lbracket"
    BY <1>1, <1>4, <1>7, <1>8, <1>9, <1>e, <2>1, <2>2 DEF AtPlace
  <2>3. CASE stack[L] = "lbrace"
    BY <1>1, <1>4, <1>8, <1>9, <1>e, <2>1, <2>3 DEF AtPlace
  <2> QED
    BY <1>6, <2>2, <2>3
<1>g. Tracked(o, d)'
  BY <1>1, <1>4, <1>b, <1>c, <1>d, <1>f DEF Tracked
<1> QED
  BY <1>4, <1>g DEF r, s

LEMMA TrackAccept ==
  ASSUME NEW o, NEW c, IInv, Tracked(o, c), Accept
  PROVE  Tracked(o, c)' /\ Sig' = Sig
<1>1. /\ pc = "end" /\ peek = EOF /\ pc' = "accepted"
      /\ text' = text /\ peek' = peek /\ stack' = stack
  BY DEF Accept
<1>2. Sig' = Sig
  BY <1>1 DEF Sig
<1>3. AtPlace(Sig, stack, o, c)'
  BY <1>1, <1>2 DEF Tracked, AtPlace
<1> QED
  BY <1>1, <1>2, <1>3 DEF Tracked

-----------------------------------------------------------------------------
(***************************************************************************)
(* What has been read can be continued.                                    *)
(***************************************************************************)
\* Actions at a place that is not too deep start from a viable text.
LEMMA ViableNow ==
  ASSUME Readable, pc \notin {"value", "rejected"} \/ ~TooDeep
  PROVE  Viable(Sig)
  BY DEF Readable

\* A value fits where a value is expected.
LEMMA ValueFits ==
  ASSUME NEW o, NEW c, IInv, Tracked(o, c), pc = "value", ~TooDeep,
         peek \in ValueStart
  PROVE  /\ Fits(Append(Sig, peek), Len(Sig) + 1)
         /\ Shallow(Append(Sig, peek), Len(Sig) + 1)
<1> DEFINE n == Len(Sig)
           L == Len(stack)
           A == Around(Sig, n + 1)
           b == Before(Sig, n + 1, 1)
<1>1. peek \in Tokens
  BY KindsApart DEF ValueStart
<1>2. Depth(Sig, n + 1) = L /\ L \leq MaxDepth
  <2>1. ~ (L > MaxDepth)
    BY DEF TooDeep
  <2> QED
    BY <2>1, Known DEF Tracked, Brackets
<1>3. /\ stack = <<>> => A = EOF /\ n = 0
      /\ stack # <<>> /\ stack[L] = "lbracket" =>
           A = "lbracket" /\ b \in {"lbracket", "comma"}
      /\ stack # <<>> /\ stack[L] = "lbrace" => A = "lbrace" /\ b = "colon"
      /\ stack # <<>> => stack[L] \in {"lbracket", "lbrace"}
  BY AtValue
<1>4. Fits(Append(Sig, peek), n + 1)
  BY <1>1, <1>3, Known, NextFits
<1>5. Shallow(Append(Sig, peek), n + 1)
  <2> HIDE DEF L, A, b
  <2>1. Depth(Sig, n + 1) \leq MaxDepth
    BY <1>2
  <2> QED
    BY <1>1, <2>1, Known, NextFits
<1> QED
  BY <1>4, <1>5

\* Where a value has ended.
LEMMA AtAfter ==
  ASSUME NEW o, NEW c, IInv, Tracked(o, c), pc \in {"after", "end", "accepted"}
  PROVE  LET n == Len(Sig)
             b == Before(Sig, n + 1, 1)
         IN  /\ n \geq 1 /\ n \in Nat /\ ValueBefore(Sig, n + 1)
             /\ b = Sig[n] /\ (b \in Closers \/ (b \in Atoms /\ ~IsKey(Sig, n)))
<1>1. Sig # <<>> /\ ValueBefore(Sig, Len(Sig) + 1)
  BY DEF Tracked, AtPlace
<1>2. Sig \in Text /\ Len(Sig) \in Nat /\ Len(Sig) \geq 1
  BY <1>1, Known, TextLength
<1>3. Before(Sig, Len(Sig) + 1, 1) = Sig[Len(Sig)]
  BY <1>2, NextFits, KindsApart
<1> QED
  BY <1>1, <1>2, <1>3, ValueBeforeToken

\* A closing bracket or a comma is never too deep.
LEMMA MarkIsShallow ==
  ASSUME NEW s \in Text, NEW t, t \in Closers \/ t = "comma"
  PROVE  Shallow(Append(s, t), Len(s) + 1)
<1>1. t \in Tokens /\ t \notin Atoms /\ t \notin Openers /\ t # "colon"
  BY KindsApart DEF Openers, Closers
<1> QED
  BY <1>1, NextFits DEF ValueStart

LEMMA ReadableStays ==
  ASSUME NEW o, NEW c, IInv, Tracked(o, c), Readable, Next
  PROVE  Readable'
<1> DEFINE s == Sig
           n == Len(Sig)
           L == Len(stack)
           r == Append(Sig, peek)
<1>0. s \in Text
  BY Known
<1>1. CASE SkipWhitespace
  <2>1. Sig' = Sig /\ pc' = pc /\ stack' = stack
    BY <1>1, TrackWhitespace DEF SkipWhitespace
  <2> QED
    BY <2>1 DEF Readable, TooDeep
<1>2. CASE ParseScalar \/ OpenContainer
  <2>1. pc = "value" /\ ~TooDeep /\ peek \in ValueStart
    BY <1>2 DEF ParseScalar, OpenContainer, ValueStart
  <2>2. Sig' = r
    BY <1>2, TrackScalar, TrackOpen
  <2>3. Viable(s) /\ peek \in Tokens
    BY <2>1, ViableNow, KindsApart DEF ValueStart
  <2>4. Viable(r)
    BY <1>0, <2>1, <2>3, ValueFits, ViableOfAppend
  <2> QED
    BY <2>2, <2>4 DEF Readable
<1>3. CASE CloseEmpty \/ CloseContainer
  <2>1. pc \in {"open", "after"} /\ peek = Closer /\ stack # <<>>
    BY <1>3, Known DEF CloseEmpty, CloseContainer
  <2>2. Sig' = r
    BY <1>3, TrackClose
  <2>3. Viable(s) /\ peek \in Closers /\ peek \in Tokens
    BY <2>1, ViableNow, KindsApart DEF Closer, Closers
  <2>4. /\ n \in Nat /\ n \geq 1 /\ Around(Sig, n + 1) = stack[L]
        /\ stack[L] \in {"lbracket", "lbrace"}
        /\ Sig[o[L]] = stack[L]
    BY <2>1, Known, Innermost DEF Tracked, Openers
  <2>5. peek = IF stack[L] = "lbracket" THEN "rbracket" ELSE "rbrace"
    BY <2>1 DEF Closer, Top
  <2>6. Before(Sig, n + 1, 1) = Sig[n]
    BY <1>0, <2>3, <2>4, NextFits
  <2>7. pc = "open" => n = o[L]
    BY DEF Tracked, AtPlace
  <2>8. pc = "after" => ValueBefore(Sig, n + 1)
    BY AtAfter
  <2>9. Fits(r, n + 1)
    <3> HIDE DEF L
    <3> QED
      BY <1>0, <2>1, <2>3, <2>4, <2>5, <2>6, <2>7, <2>8, NextFits
  <2>10. Shallow(r, n + 1)
    BY <1>0, <2>3, MarkIsShallow
  <2> QED
    BY <1>0, <2>2, <2>3, <2>9, <2>10, ViableOfAppend DEF Readable
<1>4. CASE EnterLoop
  <2>1. Sig' = Sig /\ pc = "open"
    BY <1>4, TrackEnter DEF EnterLoop
  <2> QED
    BY <2>1, ViableNow DEF Readable
<1>5. CASE ParseKey
  <2>1. pc = "key" /\ peek \in Strings /\ peek \in Tokens
    BY <1>5, KindsApart DEF ParseKey
  <2>2. Sig' = r
    BY <1>5, TrackKey
  <2>3. Viable(s)
    BY <2>1, ViableNow
  <2>4. Around(Sig, n + 1) = "lbrace" /\ Before(Sig, n + 1, 1) \in {"lbrace", "comma"}
    BY <2>1, AtKey
  <2>5. Fits(r, n + 1) /\ Shallow(r, n + 1)
    BY <1>0, <2>1, <2>4, NextFits
  <2> QED
    BY <1>0, <2>1, <2>2, <2>3, <2>5, ViableOfAppend DEF Readable
<1>6. CASE ParseColon
  <2>1. pc = "keyed" /\ peek = "colon" /\ peek \in Tokens /\ pc' = "value" /\ stack' = stack
    BY <1>6, KindsApart DEF ParseColon
  <2>2. Sig' = r
    BY <1>6, TrackColon
  <2>3. Viable(s)
    BY <2>1, ViableNow
  <2>4. Around(Sig, n + 1) = "lbrace" /\ n \geq 1 /\ IsKey(Sig, n)
    BY <2>1, AtColon
  <2>5. Fits(r, n + 1)
    BY <1>0, <2>1, <2>4, NextFits
  <2>6. CASE TooDeep
    <3>1. TooDeep'
      BY <2>1, <2>6 DEF TooDeep
    <3> QED
      BY <2>1, <3>1 DEF Readable
  <2>7. CASE ~TooDeep
    <3>1. Depth(Sig, n + 1) = Len(stack)
      BY DEF Tracked, Brackets
    <3>2. Len(stack) \leq MaxDepth
      BY <2>7, Known DEF TooDeep
    <3>3. Shallow(r, n + 1)
      BY <1>0, <2>1, <3>1, <3>2, NextFits
    <3> QED
      BY <1>0, <2>1, <2>2, <2>3, <2>5, <3>3, ViableOfAppend DEF Readable
  <2> QED
    BY <2>6, <2>7
<1>7. CASE ParseComma
  <2>1. pc = "after" /\ peek = "comma" /\ peek \in Tokens /\ stack # <<>>
    BY <1>7, KindsApart, Known DEF ParseComma
  <2>2. Sig' = r
    BY <1>7, TrackComma
  <2>3. Viable(s)
    BY <2>1, ViableNow
  <2>4. /\ n \in Nat /\ n \geq 1 /\ Around(Sig, n + 1) = stack[L]
        /\ stack[L] \in {"lbracket", "lbrace"}
    BY <2>1, Known, Innermost DEF Tracked, Openers
  <2>5. ValueBefore(Sig, n + 1)
    BY <2>1, AtAfter
  <2>6. Fits(r, n + 1)
    BY <1>0, <2>1, <2>4, <2>5, NextFits
  <2>7. Shallow(r, n + 1)
    BY <1>0, <2>1, MarkIsShallow
  <2> QED
    BY <1>0, <2>1, <2>2, <2>3, <2>6, <2>7, ViableOfAppend DEF Readable
<1>8. CASE Accept
  <2>1. Sig' = Sig /\ pc = "end"
    BY <1>8, TrackAccept DEF Accept
  <2> QED
    BY <2>1, ViableNow DEF Readable
<1>9. CASE Reject \/ Returned
  <2>1. Sig' = Sig /\ stack' = stack /\ (pc' = "rejected" \/ pc' = pc)
    BY <1>9 DEF Reject, Returned, vars, Sig
  <2> QED
    BY <2>1 DEF Readable, TooDeep
<1> QED
  BY <1>1, <1>2, <1>3, <1>4, <1>5, <1>6, <1>7, <1>8, <1>9 DEF Next

-----------------------------------------------------------------------------
(***************************************************************************)
(* Accepted and rejected texts.                                            *)
(***************************************************************************)
LEMMA AcceptedWhenTracked ==
  ASSUME NEW o, NEW c, IInv, Tracked(o, c), Readable
  PROVE  AcceptedIsJson
<1> SUFFICES ASSUME pc = "accepted" PROVE peek = EOF /\ IsText(Sig)
  BY DEF AcceptedIsJson, Sig
<1>1. peek = EOF /\ Sig # <<>>
  BY DEF Tracked, AtPlace
<1>2. Viable(Sig)
  BY ViableNow
<1>3. Depth(Sig, Len(Sig) + 1) = 0
  BY Known, NoneOpen DEF Tracked
<1> QED
  BY <1>1, <1>2, <1>3 DEF IsText

\* At the end of the text.
LEMMA RejectsUnfinished ==
  ASSUME NEW o, NEW c, IInv, Tracked(o, c), Unexpected, peek = EOF
  PROVE  ~IsText(Sig)
<1>1. CASE stack = <<>>
  <2>1. pc = "value"
    BY <1>1, Known DEF Unexpected
  <2> QED
    BY <1>1, <2>1 DEF Tracked, AtPlace, IsText
<1>2. CASE stack # <<>>
  <2>1. Depth(Sig, Len(Sig) + 1) = Len(stack) /\ Len(stack) \geq 1
    BY <1>2, Known, Innermost DEF Tracked
  <2> QED
    BY <2>1, Known DEF IsText
<1> QED
  BY <1>1, <1>2

\* A value that is too deep.
LEMMA RejectsTooDeep ==
  ASSUME NEW o, NEW c, IInv, Tracked(o, c), pc = "value", TooDeep, peek \in Tokens
  PROVE  \/ ~Viable(Sig)
         \/ peek # "ws" /\ ~Viable(Append(Sig, peek))
<1> DEFINE n == Len(Sig)
           L == Len(stack)
<1>1. stack # <<>> /\ Sig \in Text
  BY Known DEF TooDeep
<1>2. /\ n \in Nat /\ n \geq 1 /\ L \in Nat /\ Depth(Sig, n + 1) = L
      /\ ~ (L \leq MaxDepth)
  BY <1>1, Known, Innermost DEF Tracked, TooDeep
<1>3. CASE stack[L] = "lbrace"
  <2>1. Sig[n] = "colon"
    BY <1>1, <1>3, AtValue
  <2>2. Weight("colon") = 0
    BY DEF Weight, Openers, Closers
  <2>3. Depth(Sig, n) = L
    <3>1. Depth(Sig, n) \in Int /\ Depth(Sig, n + 1) = Depth(Sig, n) + Weight(Sig[n])
      BY <1>2, DepthStep
    <3> QED
      BY <1>2, <2>1, <2>2, <3>1
  <2>4. ~IsKey(Sig, n)
    BY <2>1, KindsApart DEF IsKey
  <2>5. ~Shallow(Sig, n)
    BY <1>2, <2>1, <2>3, <2>4 DEF Shallow
  <2>6. n \in DOMAIN Sig
    <3>1. DOMAIN Sig = 1..Len(Sig)
      BY <1>1, LenProperties DEF Text
    <3> QED
      BY <1>2, <3>1
  <2> QED
    BY <2>5, <2>6 DEF Viable
<1>4. CASE stack[L] = "lbracket"
  <2>1. /\ Around(Sig, n + 1) = "lbracket"
        /\ Before(Sig, n + 1, 1) = Sig[n]
        /\ Sig[n] \in {"lbracket", "comma"}
        /\ Sig[n] = "lbracket" <=> n = o[L]
    BY <1>1, <1>4, AtValue
  <2>2. n = o[L]
    BY <1>1, <1>2, <1>4 DEF Tracked, AtPlace
  <2>3. peek \notin {"rbracket", "ws"}
    BY <1>1, <2>2 DEF Tracked, AtPlace
  <2>4. ~ValueBefore(Sig, n + 1)
    <3>1. Sig[n] = "lbracket"
      BY <2>1, <2>2
    <3>2. "lbracket" \notin Closers /\ "lbracket" \notin Atoms
      BY KindsApart DEF Closers
    <3> QED
      BY <1>1, <1>2, <3>1, <3>2, ValueBeforeToken
  <2>5. EOF # "lbracket"
    BY KindsApart
  <2> HIDE DEF L, n
  <2>6. ~ (Depth(Sig, n + 1) \leq MaxDepth)
    BY <1>2
  <2>7. ~ (Fits(Append(Sig, peek), n + 1) /\ Shallow(Append(Sig, peek), n + 1))
    BY <1>1, <2>1, <2>3, <2>4, <2>5, <2>6, NextFits DEF n
  <2> QED
    BY <1>1, <2>3, <2>7, ViableOfAppend DEF n
<1> QED
  BY <1>1, <1>3, <1>4, AtValue

\* A token that fits nowhere.
LEMMA RejectsToken ==
  ASSUME NEW o, NEW c, IInv, Tracked(o, c), Unexpected, peek \in Tokens,
         ~ (pc = "value" /\ TooDeep)
  PROVE  peek # "ws" /\ ~Fits(Append(Sig, peek), Len(Sig) + 1)
<1> DEFINE n == Len(Sig)
           L == Len(stack)
           A == Around(Sig, n + 1)
           b == Before(Sig, n + 1, 1)
<1>0. peek # EOF
  BY ParserAssumption
<1>1. peek # "ws"
  BY <1>0 DEF Unexpected
<1>2. Sig \in Text /\ n \in Nat
  BY Known
<1> USE KindsApart
<1>3. EOF # "lbracket" /\ EOF # "lbrace"
  OBVIOUS
<1>4. ASSUME n \geq 1, b = Sig[n], Sig[n] \notin Closers, Sig[n] \notin Atoms
      PROVE  ~ValueBefore(Sig, n + 1)
  BY <1>2, <1>4, ValueBeforeToken
<1>5. CASE pc = "value"
  <2>1. peek \notin ValueStart
    BY <1>1, <1>5 DEF Unexpected, ValueStart
  <2>2. CASE stack = <<>>
    <3>1. A = EOF
      BY <1>5, <2>2, AtValue
    <3> QED
      BY <1>1, <1>2, <1>3, <2>1, <3>1, NextFits
  <2>3. CASE stack # <<>> /\ stack[L] = "lbracket"
    <3>1. /\ A = "lbracket" /\ n \geq 1 /\ b = Sig[n] /\ b \in {"lbracket", "comma"}
          /\ b = "lbracket" <=> n = o[L]
      BY <1>5, <2>3, AtValue
    <3>2. ~ValueBefore(Sig, n + 1)
      BY <1>4, <3>1 DEF Closers
    <3>3. n = o[L] => peek # "rbracket"
      BY <1>5, <2>3 DEF Tracked, AtPlace
    <3> HIDE DEF A, b, L, n
    <3> QED
      BY <1>1, <1>2, <1>3, <2>1, <3>1, <3>2, <3>3, NextFits DEF A, b, n
  <2>4. CASE stack # <<>> /\ stack[L] = "lbrace"
    <3>1. A = "lbrace" /\ n \geq 1 /\ b = Sig[n] /\ b = "colon"
      BY <1>5, <2>4, AtValue
    <3>2. ~ValueBefore(Sig, n + 1)
      BY <1>4, <3>1 DEF Closers
    <3>3. ~IsKey(Sig, n)
      BY <3>1 DEF IsKey
    <3> QED
      BY <1>1, <1>2, <1>3, <2>1, <3>1, <3>2, <3>3, NextFits
  <2> QED
    BY <1>5, <2>2, <2>3, <2>4, AtValue
<1>6. CASE pc = "key"
  <2>1. /\ A = "lbrace" /\ n \geq 1 /\ b = Sig[n] /\ b \in {"lbrace", "comma"}
        /\ b = "lbrace" <=> n = o[L]
    BY <1>6, AtKey
  <2>2. ~ValueBefore(Sig, n + 1)
    BY <1>4, <2>1 DEF Closers
  <2>3. ~IsKey(Sig, n)
    BY <2>1 DEF IsKey
  <2>4. n = o[L] => peek # "rbrace"
    BY <1>6 DEF Tracked, AtPlace
  <2>5. peek \notin Strings
    BY <1>6 DEF Unexpected
  <2> HIDE DEF L
  <2> QED
    BY <1>1, <1>2, <1>3, <2>1, <2>2, <2>3, <2>4, <2>5, NextFits
<1>7. CASE pc = "keyed"
  <2>1. A = "lbrace" /\ n \geq 1 /\ b = Sig[n] /\ b \in Strings /\ IsKey(Sig, n)
    BY <1>7, AtColon
  <2>2. ~ValueBefore(Sig, n + 1)
    <3>1. Sig[n] \notin Closers
      BY <2>1
    <3> QED
      BY <1>2, <2>1, <3>1, ValueBeforeToken
  <2>3. peek # "colon"
    BY <1>7 DEF Unexpected
  <2> QED
    BY <1>1, <1>2, <1>3, <2>1, <2>2, <2>3, NextFits
<1>8. CASE pc = "after"
  <2>1. n \geq 1 /\ b = Sig[n] /\ (b \in Closers \/ (b \in Atoms /\ ~IsKey(Sig, n)))
    BY <1>8, AtAfter
  <2>2. stack # <<>> /\ A = stack[L] /\ stack[L] \in {"lbracket", "lbrace"}
    BY <1>8, Known, Innermost DEF Tracked, Openers
  <2>3. peek \notin {"comma", Closer}
    BY <1>8 DEF Unexpected
  <2>4. peek # IF stack[L] = "lbracket" THEN "rbracket" ELSE "rbrace"
    BY <2>3 DEF Closer, Top
  <2>5. b \notin {"lbracket", "comma", "lbrace", "colon"}
    BY <2>1 DEF Closers
  <2>6. ~IsKey(Sig, n)
    BY <2>1 DEF IsKey
  <2> HIDE DEF L
  <2> QED
    BY <1>1, <1>2, <1>3, <2>1, <2>2, <2>3, <2>4, <2>5, <2>6, NextFits
<1>9. CASE pc = "end"
  <2>1. A = EOF
    BY <1>9, Known, NoneOpen DEF Tracked
  <2>2. n \geq 1
    BY <1>9, AtAfter
  <2> QED
    BY <1>1, <1>2, <1>3, <2>1, <2>2, NextFits
<1>10. pc # "open"
  BY <1>0 DEF Unexpected
<1> QED
  BY <1>1, <1>5, <1>6, <1>7, <1>8, <1>9, <1>10 DEF Unexpected

LEMMA RejectedWhenTracked ==
  ASSUME NEW o, NEW c, IInv, Tracked(o, c), Reject
  PROVE  RejectedIsNotJson'
<1>1. Unexpected /\ text' = text /\ peek' = peek
  BY DEF Reject
<1>2. CASE peek = EOF
  BY <1>1, <1>2, RejectsUnfinished DEF RejectedIsNotJson, Sig
<1>3. CASE peek # EOF
  <2>1. peek \in Tokens /\ text \in Text
    BY <1>3 DEF IInv, TypeOK, Text
  <2>2. Significant[Append(text, peek)] = IF peek = "ws" THEN Sig ELSE Append(Sig, peek)
    BY <2>1, SignificantOfAppend DEF Sig
  <2>3. Sig \in Text
    BY Known
  <2>4. ~Viable(Significant[Append(text, peek)])
    <3>1. CASE pc = "value" /\ TooDeep
      BY <2>1, <2>2, <2>3, <3>1, RejectsTooDeep, ViableOfAppend
    <3>2. CASE ~ (pc = "value" /\ TooDeep)
      BY <1>1, <2>1, <2>2, <2>3, <3>2, RejectsToken, ViableOfAppend
    <3> QED
      BY <3>1, <3>2
  <2> QED
    BY <1>1, <1>3, <2>4 DEF RejectedIsNotJson
<1> QED
  BY <1>2, <1>3

-----------------------------------------------------------------------------
(***************************************************************************)
(* Parts: what stands between the outermost commas.                        *)
(***************************************************************************)
LEMMA CutType ==
  ASSUME NEW s \in Text
  PROVE  Cut(s) \in 0..Len(s)
<1> DEFINE S == {0} \cup {i \in DOMAIN s : s[i] = "comma" /\ Depth(s, i) = 0}
<1>1. DOMAIN s = 1..Len(s) /\ Len(s) \in Nat
  BY LenProperties DEF Text
<1>2. S \in SUBSET (0..Len(s)) /\ S # {}
  BY <1>1
<1>3. Cut(s) = Max(S)
  BY DEF Cut
<1> HIDE DEF S
<1>4. Max(S) \in S
  BY <1>1, <1>2, MaxExists
<1> QED
  BY <1>2, <1>3, <1>4

\* The two pieces on either side of the last outermost comma.
LEMMA CutPieces ==
  ASSUME NEW s \in Text, s # <<>>
  PROVE  /\ SubSeq(s, 1, Cut(s) - 1) \in Text
         /\ Len(SubSeq(s, 1, Cut(s) - 1)) < Len(s)
         /\ SubSeq(s, Cut(s) + 1, Len(s)) \in Text
         /\ Len(SubSeq(s, Cut(s) + 1, Len(s))) \leq Len(s)
         /\ Len(s) \in Nat /\ Len(s) \geq 1
<1> DEFINE k == Cut(s)
           p == SubSeq(s, 1, k - 1)
           q == SubSeq(s, k + 1, Len(s))
<1>1. k \in 0..Len(s) /\ Len(s) \in Nat /\ Len(s) \geq 1
  BY CutType, TextLength
<1> HIDE DEF k
<1>2. k - 1 \in Int /\ k - 1 \leq Len(s) /\ k + 1 \in Nat /\ k + 1 \geq 1 /\ Len(s) \in Int
  BY <1>1
<1>3. p \in Text /\ Len(p) = IF 1 \leq k - 1 THEN (k - 1) - 1 + 1 ELSE 0
  BY <1>2, Piece
<1>4. q \in Text /\ Len(q) = IF k + 1 \leq Len(s) THEN Len(s) - (k + 1) + 1 ELSE 0
  BY <1>2, Piece
<1> HIDE DEF p, q
<1>5. Len(p) < Len(s) /\ Len(q) \leq Len(s)
  BY <1>1, <1>3, <1>4
<1> QED
  BY <1>1, <1>3, <1>4, <1>5 DEF p, q, k

\* Parts is defined by its equation.
LEMMA PartsEquation ==
  \A s \in Text :
    Parts[s] = IF s = <<>> THEN <<>>
               ELSE Append(Parts[SubSeq(s, 1, Cut(s) - 1)], SubSeq(s, Cut(s) + 1, Len(s)))
<1> DEFINE before(s) == SubSeq(s, 1, Cut(s) - 1)
           last(s) == SubSeq(s, Cut(s) + 1, Len(s))
           V == Seq(Text)
           step(g, s) == IF s = <<>> THEN <<>> ELSE Append(g[before(s)], last(s))
           F == [p \in [Text -> V] \X Text |-> step(p[1], p[2])]
           Eq(f) == f = [s \in Text |-> step(f, s)]
<1>1. ASSUME NEW s \in Text, s # <<>>
      PROVE  before(s) \in Text /\ Len(before(s)) < Len(s) /\ last(s) \in Text
  BY <1>1, CutPieces
<1> HIDE DEF before, last
<1>0. <<>> \in V
  BY EmptySeq
<1>2. ASSUME NEW g \in [Text -> V], NEW s \in Text PROVE step(g, s) \in V
  <2>1. CASE s = <<>>
    BY <1>0, <2>1
  <2>2. CASE s # <<>>
    <3>1. g[before(s)] \in Seq(Text) /\ last(s) \in Text
      BY <1>1, <2>2
    <3>2. Append(g[before(s)], last(s)) \in V
      BY <3>1, AppendProperties
    <3> QED
      BY <2>2, <3>2
  <2> QED
    BY <2>1, <2>2
<1>3. ASSUME NEW g, NEW h, NEW s \in Text,
             \A u \in Text : Len(u) < Len(s) => g[u] = h[u]
      PROVE  step(g, s) = step(h, s)
  <2>1. CASE s = <<>>
    BY <2>1
  <2>2. CASE s # <<>>
    <3>1. g[before(s)] = h[before(s)]
      BY <1>1, <1>3, <2>2
    <3> QED
      BY <3>1
  <2> QED
    BY <2>1, <2>2
<1> HIDE DEF step, V
<1>4. F \in [[Text -> V] \X Text -> V]
  <2>1. ASSUME NEW p \in [Text -> V] \X Text PROVE step(p[1], p[2]) \in V
    BY <1>2
  <2> QED
    BY <2>1
<1>5. StepsFromSmaller(F, V, Text, Length)
  <2>1. \A g, h \in [Text -> V], s \in Text :
          (\A u \in Text : Length[u] < Length[s] => g[u] = h[u])
            => F[<<g, s>>] = F[<<h, s>>]
    BY <1>3, LengthSize
  <2> HIDE DEF F
  <2> QED
    BY <1>4, <2>1, LengthSize DEF StepsFromSmaller
<1>7. PICK g : StepsBy(g, F, V, Text)
  <2> HIDE DEF F
  <2> QED
    BY <1>0, <1>5, SizeRecursion
<1>8. Eq(g)
  BY <1>7 DEF StepsBy
<1>9. Eq(Parts)
  <2>1. Eq(CHOOSE f : Eq(f))
    <3> HIDE DEF Eq
    <3> QED
      BY <1>8
  <2>2. Parts = CHOOSE f : Eq(f)
    BY DEF Parts, Eq, step, before, last, Text
  <2> QED
    BY <2>1, <2>2
<1> QED
  BY <1>9 DEF step, before, last

\* The parts are texts, no longer than the text they are parts of.
LEMMA PartsType ==
  /\ Parts[<<>>] = <<>>
  /\ \A s \in Text : /\ Parts[s] \in Seq(Text)
                     /\ \A i \in 1..Len(Parts[s]) : Len(Parts[s][i]) \leq Len(s)
<1>0. <<>> \in Text /\ <<>> \in Seq(Text) /\ Len(<<>>) = 0
  BY EmptySeq DEF Text
<1>1. Parts[<<>>] = <<>>
  BY <1>0, PartsEquation
<1> DEFINE Good(s) == /\ Parts[s] \in Seq(Text)
                      /\ \A i \in 1..Len(Parts[s]) : Len(Parts[s][i]) \leq Len(s)
           S == {n \in Nat : \A s \in Text : Len(s) < n => Good(s)}
<1>2. 0 \in S
  BY TextLength
<1>3. \A n \in Nat : n \in S => n + 1 \in S
  <2> HIDE DEF Good
  <2> SUFFICES ASSUME NEW n \in Nat, n \in S, NEW s \in Text, Len(s) < n + 1
               PROVE  Good(s)
    OBVIOUS
  <2> USE DEF Good
  <2>1. CASE s = <<>>
    <3>1. \A i \in 1..Len(<<>>) : FALSE
      BY <1>0
    <3> QED
      BY <1>0, <1>1, <2>1, <3>1
  <2>2. CASE s # <<>>
    <3> DEFINE b == SubSeq(s, 1, Cut(s) - 1)
               q == SubSeq(s, Cut(s) + 1, Len(s))
    <3>1. b \in Text /\ Len(b) < Len(s) /\ q \in Text /\ Len(q) \leq Len(s) /\ Len(s) \in Nat
      BY <2>2, CutPieces
    <3>2. Parts[s] = Append(Parts[b], q)
      BY <2>2, PartsEquation
    <3> HIDE DEF b, q
    <3>3. Len(b) < n
      <4>1. Len(b) \in Nat
        BY <3>1, TextLength
      <4> QED
        BY <3>1, <4>1
    <3>4. Good(b)
      BY <3>1, <3>3
    <3>5. /\ Parts[s] \in Seq(Text) /\ Len(Parts[s]) = Len(Parts[b]) + 1
          /\ \A i \in 1..Len(Parts[b]) : Parts[s][i] = Parts[b][i]
          /\ Parts[s][Len(Parts[b]) + 1] = q
          /\ Len(Parts[b]) \in Nat
      BY <3>1, <3>2, <3>4, AppendProperties, LenProperties
    <3>6. ASSUME NEW i \in 1..Len(Parts[s]) PROVE Len(Parts[s][i]) \leq Len(s)
      <4>1. CASE i \in 1..Len(Parts[b])
        <5>1. Parts[b][i] \in Text
          BY <3>4, <4>1, ElementOfSeq
        <5>2. Len(Parts[b][i]) \in Nat /\ Len(b) \in Nat
          BY <3>1, <5>1, TextLength
        <5>3. Len(Parts[b][i]) \leq Len(b)
          BY <3>4, <4>1
        <5> QED
          BY <3>1, <3>5, <4>1, <5>2, <5>3
      <4>2. CASE i \notin 1..Len(Parts[b])
        <5>1. i = Len(Parts[b]) + 1
          BY <3>5, <4>2
        <5> QED
          BY <3>1, <3>5, <5>1
      <4> QED
        BY <4>1, <4>2
    <3> QED
      BY <3>5, <3>6
  <2> QED
    BY <2>1, <2>2
<1>4. Nat \subseteq S
  <2> HIDE DEF S
  <2> QED
    BY <1>2, <1>3, NatSetInduction
<1>5. ASSUME NEW s \in Text PROVE Good(s)
  <2> HIDE DEF Good
  <2>1. Len(s) + 1 \in S /\ Len(s) < Len(s) + 1
    BY <1>4, TextLength
  <2> QED
    BY <2>1
<1> QED
  BY <1>1, <1>5

-----------------------------------------------------------------------------
(***************************************************************************)
(* Denotes.                                                                *)
(***************************************************************************)
AfterColon(member) == SubSeq(member, 3, Len(member))

Inner(s) == SubSeq(s, 2, Len(s) - 1)

\* The keys of members, and the last member with one.
KeysOf(parts) == {parts[n][1] : n \in DOMAIN parts}

LEMMA LastMemberOf ==
  ASSUME NEW parts \in Seq(Text), NEW k \in KeysOf(parts)
  PROVE  \E n \in 1..Len(parts) : LastMember(parts, k) = parts[n]
<1> DEFINE S == {n \in DOMAIN parts : parts[n][1] = k}
<1>1. DOMAIN parts = 1..Len(parts) /\ Len(parts) \in Nat
  BY LenProperties
<1>2. S \in SUBSET (0..Len(parts)) /\ S # {}
  BY <1>1 DEF KeysOf
<1>3. LastMember(parts, k) = parts[Max(S)]
  BY DEF LastMember
<1> HIDE DEF S
<1>4. Max(S) \in S
  BY <1>1, <1>2, MaxExists
<1>5. Max(S) \in 1..Len(parts)
  BY <1>1, <1>4 DEF S
<1> QED
  BY <1>3, <1>5

\* What a text denotes, if the shorter ones denote what g says.
DenotedBy(g, s) ==
  LET parts == Parts[Inner(s)]
  IN  IF Len(s) = 1 THEN <<"scalar", s[1]>>
      ELSE IF s[1] = "lbracket"
      THEN <<"array", [n \in DOMAIN parts |-> g[parts[n]]]>>
      ELSE <<"object", [k \in KeysOf(parts) |-> g[AfterColon(LastMember(parts, k))]]>>

LEMMA InnerParts ==
  ASSUME NEW s \in Text
  PROVE  /\ Inner(s) \in Text
         /\ Parts[Inner(s)] \in Seq(Text)
         /\ DOMAIN Parts[Inner(s)] = 1..Len(Parts[Inner(s)])
         /\ \A n \in 1..Len(Parts[Inner(s)]) :
              LET part == Parts[Inner(s)][n]
              IN  /\ part \in Text /\ Len(part) < Len(s)
                  /\ AfterColon(part) \in Text /\ Len(AfterColon(part)) < Len(s)
<1> DEFINE t == Inner(s)
           parts == Parts[t]
<1>1. Len(s) \in Nat /\ 2 \in Nat /\ Len(s) - 1 \in Int /\ Len(s) - 1 \leq Len(s)
  BY TextLength
<1>2. t \in Text /\ Len(t) = IF 2 \leq Len(s) - 1 THEN (Len(s) - 1) - 2 + 1 ELSE 0
  BY <1>1, Piece DEF Inner
<1> HIDE DEF t
<1>3. parts \in Seq(Text) /\ \A i \in 1..Len(parts) : Len(parts[i]) \leq Len(t)
  BY <1>2, PartsType
<1>4. DOMAIN parts = 1..Len(parts)
  BY <1>3, LenProperties
<1>5. ASSUME Len(t) \geq Len(s) PROVE parts = <<>>
  <2>1. Len(t) = 0
    BY <1>1, <1>2, <1>5
  <2>2. t = <<>>
    BY <1>2, <2>1, TextLength
  <2> QED
    BY <2>2, PartsType
<1>6. ASSUME NEW n \in 1..Len(parts)
      PROVE  /\ parts[n] \in Text /\ Len(parts[n]) < Len(s)
             /\ AfterColon(parts[n]) \in Text /\ Len(AfterColon(parts[n])) < Len(s)
  <2>1. parts[n] \in Text
    BY <1>3, ElementOfSeq
  <2>2. Len(parts[n]) \leq Len(t) /\ Len(parts[n]) \in Nat
    BY <1>3, <2>1, TextLength
  <2>3. Len(t) < Len(s)
    <3>1. parts # <<>>
      BY EmptySeq
    <3> QED
      BY <1>1, <1>2, <1>5, <3>1
  <2>4. Len(parts[n]) < Len(s)
    BY <1>1, <1>2, <2>2, <2>3
  <2> DEFINE m == parts[n]
  <2> HIDE DEF m
  <2>5. 3 \in Nat /\ Len(m) \in Int /\ m \in Text /\ Len(m) \leq Len(m)
    BY <2>1, <2>2 DEF m
  <2>6. AfterColon(m) \in Text
        /\ Len(AfterColon(m)) = IF 3 \leq Len(m) THEN Len(m) - 3 + 1 ELSE 0
    BY <2>5, Piece DEF AfterColon
  <2>7. Len(AfterColon(m)) \leq Len(m)
    BY <2>2, <2>6 DEF m
  <2>8. Len(AfterColon(m)) < Len(s)
    <3>1. Len(AfterColon(m)) \in Nat
      BY <2>6, TextLength
    <3> QED
      BY <1>1, <2>2, <2>4, <2>7, <3>1 DEF m
  <2> QED
    BY <2>1, <2>4, <2>6, <2>8 DEF m
<1> QED
  BY <1>2, <1>3, <1>4, <1>6 DEF t

LEMMA DenotedFromShorter ==
  ASSUME NEW g, NEW h, NEW s \in Text,
         \A u \in Text : Len(u) < Len(s) => g[u] = h[u]
  PROVE  DenotedBy(g, s) = DenotedBy(h, s)
<1> DEFINE parts == Parts[Inner(s)]
<1>1. /\ parts \in Seq(Text) /\ DOMAIN parts = 1..Len(parts)
      /\ \A n \in 1..Len(parts) :
           /\ parts[n] \in Text /\ Len(parts[n]) < Len(s)
           /\ AfterColon(parts[n]) \in Text /\ Len(AfterColon(parts[n])) < Len(s)
  BY InnerParts
<1> HIDE DEF parts
<1>2. \A n \in DOMAIN parts : g[parts[n]] = h[parts[n]]
  BY <1>1
<1>3. \A k \in KeysOf(parts) : g[AfterColon(LastMember(parts, k))] = h[AfterColon(LastMember(parts, k))]
  <2> TAKE k \in KeysOf(parts)
  <2>1. PICK n \in 1..Len(parts) : LastMember(parts, k) = parts[n]
    BY <1>1, LastMemberOf
  <2> QED
    BY <1>1, <2>1
<1>4. [n \in DOMAIN parts |-> g[parts[n]]] = [n \in DOMAIN parts |-> h[parts[n]]]
  BY <1>2
<1>5. [k \in KeysOf(parts) |-> g[AfterColon(LastMember(parts, k))]]
        = [k \in KeysOf(parts) |-> h[AfterColon(LastMember(parts, k))]]
  BY <1>3
<1> QED
  BY <1>4, <1>5 DEF DenotedBy, parts

(***************************************************************************)
(* Denotes is defined by its equation.  JSON values nest without a bound,  *)
(* so there is no set of them for SizeRecursion; the argument is the same. *)
(***************************************************************************)
LEMMA DenotesEquation == \A s \in Text : Denotes[s] = DenotedBy(Denotes, s)
<1> DEFINE Solves(g, n) == \A s \in Text : Len(s) < n => g[s] = DenotedBy(g, s)
           S == {n \in Nat : \E g : Solves(g, n)}
           Apply(g) == [s \in Text |-> DenotedBy(g, s)]
           Eq(f) == f = [s \in Text |-> DenotedBy(f, s)]
<1>1. \A s \in Text : Len(s) \in Nat
  BY TextLength
<1>2. 0 \in S
  <2>1. Solves({}, 0)
    BY <1>1
  <2> HIDE DEF Solves
  <2> QED
    BY <2>1
<1>3. \A n \in Nat : n \in S => n + 1 \in S
  <2> SUFFICES ASSUME NEW n \in Nat, n \in S PROVE n + 1 \in S
    OBVIOUS
  <2>1. PICK g : Solves(g, n)
    <3> HIDE DEF Solves
    <3> QED
      OBVIOUS
  <2>2. ASSUME NEW s \in Text, Len(s) < n + 1
        PROVE  Apply(g)[s] = DenotedBy(Apply(g), s)
    <3>1. ASSUME NEW u \in Text, Len(u) < Len(s) PROVE Apply(g)[u] = g[u]
      <4>1. Len(u) < n
        BY <1>1, <2>2, <3>1
      <4> QED
        BY <2>1, <4>1
    <3>2. Apply(g)[s] = DenotedBy(g, s)
      OBVIOUS
    <3> HIDE DEF Apply
    <3>3. DenotedBy(Apply(g), s) = DenotedBy(g, s)
      BY <3>1, DenotedFromShorter
    <3> QED
      BY <3>2, <3>3
  <2>3. Solves(Apply(g), n + 1)
    <3> HIDE DEF Apply
    <3> QED
      BY <2>2
  <2> HIDE DEF Apply, Solves
  <2> QED
    BY <2>3
<1>4. ASSUME NEW n \in Nat PROVE \E g : Solves(g, n)
  <2>1. Nat \subseteq S
    <3> HIDE DEF S
    <3> QED
      BY <1>2, <1>3, NatSetInduction
  <2> HIDE DEF Solves
  <2> QED
    BY <2>1
<1>5. ASSUME NEW g, NEW h, NEW m \in Nat, NEW n \in Nat, Solves(g, m), Solves(h, n)
      PROVE  \A s \in Text : Len(s) < m /\ Len(s) < n => g[s] = h[s]
  <2> DEFINE I == {k \in Nat : \A s \in Text : Len(s) < k /\ Len(s) < m /\ Len(s) < n
                                 => g[s] = h[s]}
  <2>1. 0 \in I
    BY <1>1
  <2>2. \A k \in Nat : k \in I => k + 1 \in I
    <3> SUFFICES ASSUME NEW k \in Nat, k \in I, NEW s \in Text,
                        Len(s) < k + 1, Len(s) < m, Len(s) < n
                 PROVE  g[s] = h[s]
      OBVIOUS
    <3>1. ASSUME NEW u \in Text, Len(u) < Len(s) PROVE g[u] = h[u]
      <4>1. Len(u) < k /\ Len(u) < m /\ Len(u) < n
        BY <1>1, <3>1
      <4> QED
        BY <4>1
    <3>2. DenotedBy(g, s) = DenotedBy(h, s)
      BY <3>1, DenotedFromShorter
    <3> QED
      BY <1>5, <3>2
  <2>3. Nat \subseteq I
    <3> HIDE DEF I
    <3> QED
      BY <2>1, <2>2, NatSetInduction
  <2> TAKE s \in Text
  <2>4. Len(s) + 1 \in I /\ Len(s) < Len(s) + 1
    BY <1>1, <2>3
  <2> QED
    BY <2>4
<1> DEFINE sol(n) == CHOOSE g : Solves(g, n)
           G == [s \in Text |-> sol(Len(s) + 1)[s]]
<1>6. ASSUME NEW n \in Nat PROVE Solves(sol(n), n)
  <2>1. \E g : Solves(g, n)
    BY <1>4
  <2> HIDE DEF Solves
  <2> QED
    BY <2>1
<1> HIDE DEF sol
<1>7. ASSUME NEW s \in Text PROVE G[s] = DenotedBy(G, s)
  <2> DEFINE g == sol(Len(s) + 1)
  <2>1. Len(s) \in Nat /\ Len(s) + 1 \in Nat /\ Len(s) < Len(s) + 1
    BY <1>1
  <2>2. Solves(g, Len(s) + 1)
    <3> HIDE DEF Solves
    <3> QED
      BY <1>6, <2>1
  <2>3. ASSUME NEW u \in Text, Len(u) < Len(s) PROVE G[u] = g[u]
    <3> DEFINE h == sol(Len(u) + 1)
    <3>1. Len(u) \in Nat /\ Len(u) + 1 \in Nat /\ Len(u) < Len(u) + 1 /\ Len(u) < Len(s) + 1
      BY <1>1, <2>1, <2>3
    <3>2. Solves(h, Len(u) + 1)
      <4> HIDE DEF Solves
      <4> QED
        BY <1>6, <3>1
    <3>3. G[u] = h[u]
      OBVIOUS
    <3> HIDE DEF g, h, G, Solves
    <3>4. h[u] = g[u]
      BY <1>5, <2>1, <2>2, <3>1, <3>2
    <3> QED
      BY <3>3, <3>4
  <2>4. G[s] = g[s]
    OBVIOUS
  <2>5. g[s] = DenotedBy(g, s)
    <3> HIDE DEF g
    <3> QED
      BY <2>1, <2>2
  <2> HIDE DEF g, G, Solves
  <2>6. DenotedBy(G, s) = DenotedBy(g, s)
    BY <2>3, DenotedFromShorter
  <2> QED
    BY <2>4, <2>5, <2>6
<1>8. Eq(G)
  <2>1. [s \in Text |-> DenotedBy(G, s)] = [s \in Text |-> G[s]]
    <3> HIDE DEF G
    <3> QED
      BY <1>7
  <2>2. G = [s \in Text |-> G[s]]
    OBVIOUS
  <2> QED
    BY <2>1, <2>2
<1>9. Eq(Denotes)
  <2>1. Eq(CHOOSE f : Eq(f))
    <3> HIDE DEF Eq, G
    <3> QED
      BY <1>8
  <2>2. Denotes = CHOOSE f : Eq(f)
    BY DEF Denotes, Eq, DenotedBy, Inner, AfterColon, KeysOf, Text
  <2> QED
    BY <2>1, <2>2
<1> QED
  BY <1>9

-----------------------------------------------------------------------------
(***************************************************************************)
(* What the parser has built.                                              *)
(***************************************************************************)
ItemsOf(parts) == [n \in DOMAIN parts |-> Denotes[parts[n]]]

EntriesOf(parts) ==
  [k \in KeysOf(parts) |-> Denotes[AfterColon(LastMember(parts, k))]]

\* A piece of a piece.
LEMMA PieceOfPiece ==
  ASSUME NEW s \in Text, NEW x \in Nat, NEW y \in Int, x \geq 1, y \leq Len(s), x - 1 \leq y,
         NEW a \in Nat, NEW b \in Int, a \geq 1, b \leq y - x + 1
  PROVE  SubSeq(SubSeq(s, x, y), a, b) = SubSeq(s, x + a - 1, x + b - 1)
<1> DEFINE t == SubSeq(s, x, y)
           p == SubSeq(t, a, b)
           u == x + a - 1
           v == x + b - 1
           q == SubSeq(s, u, v)
<1>1. t \in Text /\ Len(t) = y - x + 1
      /\ \A i \in 1..(y - x + 1) : t[i] = s[x + i - 1]
  <2>1. /\ t \in Text /\ Len(t) = IF x \leq y THEN y - x + 1 ELSE 0
        /\ \A i \in 1..(y - x + 1) : t[i] = s[x + i - 1]
    BY Piece
  <2> HIDE DEF t
  <2> QED
    BY <2>1
<1>2. Len(s) \in Nat
  BY TextLength
<1> HIDE DEF t
<1>3. /\ p \in Text /\ Len(p) = IF a \leq b THEN b - a + 1 ELSE 0
      /\ \A i \in 1..(b - a + 1) : p[i] = t[a + i - 1]
  <2>1. b \leq Len(t)
    BY <1>1
  <2> QED
    BY <1>1, <2>1, Piece
<1>4. u \in Nat /\ v \in Int /\ u \geq 1 /\ v \leq Len(s) /\ v - u = b - a
  BY <1>2
<1> HIDE DEF u, v
<1>5. /\ q \in Text /\ Len(q) = IF u \leq v THEN v - u + 1 ELSE 0
      /\ \A i \in 1..(v - u + 1) : q[i] = s[u + i - 1]
  BY <1>4, Piece
<1> HIDE DEF p, q
<1>6. Len(p) = Len(q)
  BY <1>3, <1>4, <1>5
<1>7. \A i \in 1..Len(p) : p[i] = q[i]
  <2> TAKE i \in 1..Len(p)
  <2>1. i \in 1..(b - a + 1) /\ i \in 1..(v - u + 1)
    BY <1>3, <1>4
  <2>2. a + i - 1 \in 1..(y - x + 1) /\ x + (a + i - 1) - 1 = u + i - 1
    BY <2>1 DEF u
  <2>3. p[i] = s[x + (a + i - 1) - 1]
    BY <1>1, <1>3, <2>1, <2>2
  <2>4. q[i] = s[u + i - 1]
    BY <1>5, <2>1
  <2> QED
    BY <2>2, <2>3, <2>4
<1>8. p = q
  BY <1>3, <1>5, <1>6, <1>7, SeqEqual DEF Text
<1> QED
  BY <1>8 DEF p, q, t, u, v

\* Nothing stands between a position and the one before it.
LEMMA EmptyPiece ==
  ASSUME NEW s, NEW a \in Int, NEW b \in Int, b < a
  PROVE  SubSeq(s, a, b) = <<>> /\ Parts[SubSeq(s, a, b)] = <<>>
  BY SubSeqEmpty, PartsType

\* An item more.
LEMMA ItemsOfAppend ==
  ASSUME NEW parts \in Seq(Text), NEW q \in Text
  PROVE  ItemsOf(Append(parts, q)) = Append(ItemsOf(parts), Denotes[q])
<1> DEFINE V == {Denotes[u] : u \in Text}
           N == Len(parts)
           more == Append(parts, q)
           x == ItemsOf(more)
           y == Append(ItemsOf(parts), Denotes[q])
<1>1. N \in Nat /\ DOMAIN parts = 1..N /\ \A n \in 1..N : parts[n] \in Text
  BY LenProperties, ElementOfSeq
<1>2. /\ more \in Seq(Text) /\ Len(more) = N + 1 /\ more[N + 1] = q
      /\ \A n \in 1..N : more[n] = parts[n]
  BY AppendProperties
<1> HIDE DEF more, N
<1>3. DOMAIN more = 1..(N + 1) /\ \A n \in 1..(N + 1) : more[n] \in Text
  BY <1>2, LenProperties, ElementOfSeq
<1>4. ItemsOf(parts) \in [1..N -> V]
  BY <1>1 DEF ItemsOf
<1>5. ItemsOf(parts) \in Seq(V) /\ Len(ItemsOf(parts)) = N
  <2> HIDE DEF V
  <2> QED
    BY <1>1, <1>4
<1>6. x \in [1..(N + 1) -> V]
  BY <1>3 DEF ItemsOf
<1>7. x \in Seq(V) /\ Len(x) = N + 1
  <2> HIDE DEF V, x
  <2>1. N + 1 \in Nat
    BY <1>1
  <2> QED
    BY <1>6, <2>1
<1>8. Denotes[q] \in V
  OBVIOUS
<1>9. /\ y \in Seq(V) /\ Len(y) = N + 1 /\ y[N + 1] = Denotes[q]
      /\ \A n \in 1..N : y[n] = ItemsOf(parts)[n]
  <2> HIDE DEF V
  <2> QED
    BY <1>5, <1>8, AppendProperties
<1>10. \A n \in 1..N : ItemsOf(parts)[n] = Denotes[parts[n]]
  BY <1>1 DEF ItemsOf
<1>11. \A n \in 1..(N + 1) : x[n] = Denotes[more[n]]
  BY <1>3 DEF ItemsOf
<1> HIDE DEF x, y, V
<1>12. \A n \in 1..Len(x) : x[n] = y[n]
  <2> TAKE n \in 1..Len(x)
  <2>1. n \in 1..N \/ n = N + 1
    BY <1>1, <1>7
  <2>2. n \in 1..(N + 1)
    BY <1>7
  <2> QED
    BY <1>2, <1>9, <1>10, <1>11, <2>1, <2>2
<1>13. x = y
  BY <1>7, <1>9, <1>12, SeqEqual
<1> QED
  BY <1>13 DEF x, y, more

\* A member more: the last one with a key wins.
LEMMA EntriesOfAppend ==
  ASSUME NEW parts \in Seq(Text), NEW q \in Text
  PROVE  EntriesOf(Append(parts, q)) = Assign(EntriesOf(parts), q[1], Denotes[AfterColon(q)])
<1> DEFINE N == Len(parts)
           more == Append(parts, q)
           key == q[1]
           with(k) == {n \in DOMAIN more : more[n][1] = k}
           had(k) == {n \in DOMAIN parts : parts[n][1] = k}
<1>1. N \in Nat /\ DOMAIN parts = 1..N
  BY LenProperties
<1>2. /\ more \in Seq(Text) /\ Len(more) = N + 1 /\ more[N + 1] = q
      /\ \A n \in 1..N : more[n] = parts[n]
  BY AppendProperties
<1> HIDE DEF more, N
<1>3. DOMAIN more = 1..(N + 1)
  BY <1>2, LenProperties
<1>0. 1..(N + 1) = (1..N) \cup {N + 1}
  BY <1>1
<1>4. KeysOf(more) = KeysOf(parts) \cup {key}
  <2>1. KeysOf(more) = {more[n][1] : n \in 1..N} \cup {key}
    BY <1>0, <1>2, <1>3 DEF KeysOf
  <2>2. {more[n][1] : n \in 1..N} = KeysOf(parts)
    BY <1>1, <1>2 DEF KeysOf
  <2> QED
    BY <2>1, <2>2
<1>5. LastMember(more, key) = q
  <2>1. N + 1 \in with(key) /\ with(key) \subseteq Int /\ \A n \in with(key) : N + 1 \geq n
    BY <1>1, <1>2, <1>3
  <2> HIDE DEF with
  <2>2. Max(with(key)) = N + 1
    BY <2>1, MaxIs
  <2> QED
    BY <1>2, <2>2 DEF LastMember, with
<1>6. ASSUME NEW k \in KeysOf(parts), k # key
      PROVE  LastMember(more, k) = LastMember(parts, k)
  <2>1. with(k) = had(k)
    BY <1>0, <1>1, <1>2, <1>3, <1>6
  <2>2. had(k) \in SUBSET (0..N) /\ had(k) # {} /\ had(k) \subseteq 1..N
    BY <1>1 DEF KeysOf
  <2>3. LastMember(more, k) = more[Max(with(k))] /\ LastMember(parts, k) = parts[Max(had(k))]
    BY DEF LastMember
  <2> HIDE DEF with, had
  <2>4. Max(had(k)) \in had(k)
    BY <1>1, <2>2, MaxExists
  <2> QED
    BY <1>2, <2>1, <2>2, <2>3, <2>4
<1> DEFINE x == EntriesOf(more)
           e == EntriesOf(parts)
           y == Assign(e, key, Denotes[AfterColon(q)])
<1>7. DOMAIN e = KeysOf(parts) /\ \A k \in KeysOf(parts) : e[k] = Denotes[AfterColon(LastMember(parts, k))]
  BY DEF EntriesOf
<1>8. x = [k \in KeysOf(more) |-> Denotes[AfterColon(LastMember(more, k))]]
  BY DEF EntriesOf
<1> HIDE DEF e
<1>9. y = [k \in KeysOf(more) |-> IF k = key THEN Denotes[AfterColon(q)] ELSE e[k]]
  BY <1>4, <1>7 DEF Assign
<1> HIDE DEF x, y, with, had, key
<1>10. \A k \in KeysOf(more) :
         Denotes[AfterColon(LastMember(more, k))] = IF k = key THEN Denotes[AfterColon(q)] ELSE e[k]
  BY <1>4, <1>5, <1>6, <1>7
<1>11. x = y
  BY <1>8, <1>9, <1>10
<1> QED
  BY <1>11 DEF x, y, e, more, key

\* The part behind the last comma, or behind the bracket, is the last one.
LEMMA PartsGrow ==
  ASSUME NEW s \in Text, NEW a \in Nat, NEW d \in Nat, NEW depth \in Int,
         a \geq 1, d \geq a, d < Len(s), Depth(s, a + 1) = depth,
         d # a => s[d] = "comma" /\ Depth(s, d) = depth,
         \A i \in (d + 1)..Len(s) : s[i] = "comma" => Depth(s, i) # depth
  PROVE  /\ SubSeq(s, d + 1, Len(s)) \in Text
         /\ Parts[SubSeq(s, a + 1, d - 1)] \in Seq(Text)
         /\ Parts[SubSeq(s, a + 1, Len(s))] =
              Append(Parts[SubSeq(s, a + 1, d - 1)], SubSeq(s, d + 1, Len(s)))
<1> DEFINE n == Len(s)
           t == SubSeq(s, a + 1, n)
           S == {0} \cup {i \in DOMAIN t : t[i] = "comma" /\ Depth(t, i) = 0}
<1>1. /\ n \in Nat /\ a + 1 \in Nat /\ a + 1 \geq 1 /\ n \in Int /\ n \leq Len(s)
      /\ (a + 1) - 1 \leq n /\ a + 1 \leq n
  BY TextLength
<1>2. /\ t \in Text /\ Len(t) = n - a
      /\ \A i \in 1..(n - a) : t[i] = s[a + i]
  <2>1. /\ t \in Text /\ Len(t) = IF a + 1 \leq n THEN n - (a + 1) + 1 ELSE 0
        /\ \A i \in 1..(n - (a + 1) + 1) : t[i] = s[(a + 1) + i - 1]
    BY <1>1, Piece
  <2> HIDE DEF t, n
  <2>2. n - (a + 1) + 1 = n - a /\ \A i \in Nat : (a + 1) + i - 1 = a + i
    BY <1>1
  <2> QED
    BY <1>1, <2>1, <2>2
<1>3. \A i \in 1..(n - a) : Depth(t, i) = Depth(s, a + i) - depth
  <2>1. \A i \in 1..(n - (a + 1) + 2) : Depth(t, i) = Depth(s, (a + 1) + i - 1) - Depth(s, a + 1)
    BY <1>1, DepthOfPiece
  <2> HIDE DEF t, n
  <2>2. \A i \in 1..(n - a) : i \in 1..(n - (a + 1) + 2) /\ (a + 1) + i - 1 = a + i
    BY <1>1
  <2> QED
    BY <2>1, <2>2
<1>4. DOMAIN t = 1..(n - a)
  <2> HIDE DEF t
  <2> QED
    BY <1>2, LenProperties DEF Text
<1>5. \A i \in 1..n : Depth(s, i) \in Int
  BY <1>1, DepthStep
<1> HIDE DEF t
<1>6. d - a \in S
  <2>1. CASE d = a
    BY <1>1, <2>1
  <2>2. CASE d # a
    <3>1. d - a \in 1..(n - a) /\ a + (d - a) = d
      BY <1>1, <2>2
    <3>2. t[d - a] = "comma" /\ Depth(t, d - a) = 0
      BY <1>2, <1>3, <2>2, <3>1
    <3> QED
      BY <1>4, <3>1, <3>2
  <2> QED
    BY <2>1, <2>2
<1>7. \A i \in S : d - a \geq i
  <2> SUFFICES ASSUME NEW i \in S, i > d - a PROVE FALSE
    BY <1>4
  <2>1. i \in 1..(n - a) /\ t[i] = "comma" /\ Depth(t, i) = 0
    BY <1>1, <1>4
  <2>2. a + i \in (d + 1)..n /\ a + i \in 1..n
    BY <1>1, <2>1
  <2>3. s[a + i] = "comma" /\ Depth(s, a + i) - depth = 0
    BY <1>2, <1>3, <2>1
  <2>4. Depth(s, a + i) = depth
    BY <1>5, <2>2, <2>3
  <2> QED
    BY <2>2, <2>3, <2>4
<1>8. S \subseteq Int
  BY <1>4
<1>9. Cut(t) = d - a
  <2>1. Cut(t) = Max(S)
    BY DEF Cut
  <2> HIDE DEF S
  <2> QED
    BY <1>6, <1>7, <1>8, <2>1, MaxIs
<1>10. t # <<>>
  BY <1>1, <1>2, TextLength
<1>11. SubSeq(t, 1, Cut(t) - 1) = SubSeq(s, a + 1, d - 1)
  <2>1. /\ 1 \in Nat /\ 1 \geq 1 /\ (d - a) - 1 \in Int /\ (d - a) - 1 \leq n - (a + 1) + 1
        /\ (a + 1) + 1 - 1 = a + 1 /\ (a + 1) + ((d - a) - 1) - 1 = d - 1
    BY <1>1
  <2> HIDE DEF n
  <2>2. SubSeq(SubSeq(s, a + 1, n), 1, (d - a) - 1) = SubSeq(s, (a + 1) + 1 - 1, (a + 1) + ((d - a) - 1) - 1)
    BY <1>1, <2>1, PieceOfPiece
  <2> QED
    BY <1>9, <2>1, <2>2 DEF t
<1>12. SubSeq(t, Cut(t) + 1, Len(t)) = SubSeq(s, d + 1, n)
  <2>1. /\ (d - a) + 1 \in Nat /\ (d - a) + 1 \geq 1 /\ n - a \in Int /\ n - a \leq n - (a + 1) + 1
        /\ (a + 1) + ((d - a) + 1) - 1 = d + 1 /\ (a + 1) + (n - a) - 1 = n
    BY <1>1
  <2> HIDE DEF n
  <2>2. SubSeq(SubSeq(s, a + 1, n), (d - a) + 1, n - a) = SubSeq(s, (a + 1) + ((d - a) + 1) - 1, (a + 1) + (n - a) - 1)
    BY <1>1, <2>1, PieceOfPiece
  <2> QED
    BY <1>2, <1>9, <2>1, <2>2 DEF t
<1>13. Parts[t] = Append(Parts[SubSeq(t, 1, Cut(t) - 1)], SubSeq(t, Cut(t) + 1, Len(t)))
  BY <1>2, <1>10, PartsEquation
<1>14. SubSeq(s, d + 1, n) \in Text /\ SubSeq(s, a + 1, d - 1) \in Text
  <2>1. d + 1 \in Nat /\ d + 1 \geq 1 /\ d - 1 \in Int /\ d - 1 \leq Len(s)
    BY <1>1
  <2> QED
    BY <1>1, <2>1, Piece
<1> QED
  BY <1>11, <1>12, <1>13, <1>14, PartsType DEF t

-----------------------------------------------------------------------------
(***************************************************************************)
(* Each activation has built what stands before its last comma, and all of *)
(* it when it has just completed an item; it has the key of the member     *)
(* whose value it waits for.                                               *)
(***************************************************************************)
Lists(kind, b, inner) ==
  IF kind = "lbracket" THEN b.items = ItemsOf(Parts[inner])
                       ELSE b.entries = EntriesOf(Parts[inner])

Holds(s, kind, b, a, d) ==
  /\ b = [items |-> b.items, entries |-> b.entries, key |-> b.key]
  /\ Lists(kind, b, SubSeq(s, a + 1, d))

Waits(s, kind, b, a, d) ==
  /\ Holds(s, kind, b, a, d - 1)
  /\ kind = "lbrace" => b.key = s[d + 1]

Building(at, s, st, bs, o, c) ==
  LET L == Len(st)
  IN  /\ \E V : bs \in Seq(V)
      /\ Len(bs) = L
      /\ \A l \in 1..(L - 1) : Waits(s, st[l], bs[l], o[l], c[l])
      /\ st # <<>> =>
           /\ at \in {"value", "keyed"} => Waits(s, st[L], bs[L], o[L], c[L])
           /\ at \in {"open", "key"} => Holds(s, st[L], bs[L], o[L], c[L] - 1)
           /\ at = "after" => Holds(s, st[L], bs[L], o[L], Len(s))

\* What is built stays right when a token is read.
LEMMA HoldsStays ==
  ASSUME NEW s \in Text, NEW t \in Tokens, NEW kind, NEW b, NEW a \in Nat, NEW d \in Int,
         d \leq Len(s), Holds(s, kind, b, a, d)
  PROVE  Holds(Append(s, t), kind, b, a, d)
<1>1. SubSeq(Append(s, t), a + 1, d) = SubSeq(s, a + 1, d)
  <2>1. a + 1 \in Nat /\ a + 1 \geq 1
    OBVIOUS
  <2> QED
    BY <2>1, PieceOfAppend
<1> QED
  BY <1>1 DEF Holds

LEMMA WaitsStays ==
  ASSUME NEW s \in Text, NEW t \in Tokens, NEW kind, NEW b, NEW a \in Nat, NEW d \in 1..Len(s),
         kind = "lbrace" => d + 1 \leq Len(s), Waits(s, kind, b, a, d)
  PROVE  Waits(Append(s, t), kind, b, a, d)
<1>1. Len(s) \in Nat /\ d - 1 \in Int /\ d - 1 \leq Len(s)
  BY TextLength
<1>2. Holds(Append(s, t), kind, b, a, d - 1)
  BY <1>1, HoldsStays DEF Waits
<1>3. kind = "lbrace" => Append(s, t)[d + 1] = s[d + 1]
  <2> SUFFICES ASSUME kind = "lbrace" PROVE Append(s, t)[d + 1] = s[d + 1]
    OBVIOUS
  <2>1. d + 1 \in 1..Len(s)
    BY <1>1
  <2> QED
    BY <2>1, OneMore
<1> QED
  BY <1>2, <1>3 DEF Waits

\* The activations around the innermost one have read key and colon.
LEMMA OuterStays ==
  ASSUME NEW s \in Text, NEW t \in Tokens, NEW st \in Seq(Openers), NEW bs, NEW o, NEW c,
         Brackets(s, st, o), Commas(s, st, o, c), Progress(s, st, o, c),
         \A l \in 1..(Len(st) - 1) : Waits(s, st[l], bs[l], o[l], c[l])
  PROVE  \A l \in 1..(Len(st) - 1) : Waits(Append(s, t), st[l], bs[l], o[l], c[l])
<1> TAKE l \in 1..(Len(st) - 1)
<1>1. Len(st) \in Nat /\ Len(s) \in Nat
  BY LenProperties, TextLength
<1>2. l \in 1..Len(st) /\ l + 1 \in 1..Len(st)
  BY <1>1
<1>3. o[l] \in 1..Len(s) /\ c[l] \in 1..Len(s) /\ o[l + 1] \in 1..Len(s)
  BY <1>2 DEF Brackets, Commas
<1>4. o[l + 1] = ValueAt(st[l], c[l])
  BY DEF Progress
<1>5. st[l] = "lbrace" => c[l] + 1 \leq Len(s)
  BY <1>1, <1>3, <1>4 DEF ValueAt
<1>6. o[l] \in Nat
  BY <1>3
<1> QED
  BY <1>3, <1>5, <1>6, WaitsStays

-----------------------------------------------------------------------------
(***************************************************************************)
(* What returns is what the text of the value denotes, and storing it      *)
(* keeps the container right.                                              *)
(***************************************************************************)
\* A closed container is what its text denotes.
LEMMA ContainerDenoted ==
  ASSUME NEW s \in Text, NEW kind \in Openers, NEW b, NEW a \in 1..Len(s), a < Len(s),
         s[a] = kind, Holds(s, kind, b, a, Len(s) - 1)
  PROVE  Denotes[SubSeq(s, a, Len(s))] = Container(kind, b)
<1> DEFINE n == Len(s)
           t == SubSeq(s, a, n)
<1>1. n \in Nat /\ a \in Nat /\ a \geq 1 /\ a - 1 \leq n /\ n \leq Len(s) /\ n \in Int
  BY TextLength
<1>2. t \in Text /\ Len(t) = n - a + 1 /\ t[1] = s[a]
  <2>1. /\ t \in Text /\ Len(t) = IF a \leq n THEN n - a + 1 ELSE 0
        /\ \A i \in 1..(n - a + 1) : t[i] = s[a + i - 1]
    BY <1>1, Piece
  <2> HIDE DEF t
  <2>2. 1 \in 1..(n - a + 1) /\ a + 1 - 1 = a
    BY <1>1
  <2>3. t[1] = s[a + 1 - 1]
    BY <2>1, <2>2
  <2> QED
    BY <1>1, <2>1, <2>2, <2>3
<1>3. Inner(t) = SubSeq(s, a + 1, n - 1)
  <2>1. /\ 2 \in Nat /\ n - a \in Int /\ 2 \geq 1 /\ n - a \leq n - a + 1
        /\ a + 2 - 1 = a + 1 /\ a + (n - a) - 1 = n - 1
    BY <1>1
  <2> HIDE DEF n
  <2>2. SubSeq(SubSeq(s, a, n), 2, n - a) = SubSeq(s, a + 2 - 1, a + (n - a) - 1)
    BY <1>1, <2>1, PieceOfPiece
  <2>3. Len(t) - 1 = n - a
    <3> HIDE DEF t
    <3> QED
      BY <1>1, <1>2
  <2> QED
    BY <2>1, <2>2, <2>3 DEF Inner
<1> HIDE DEF t, n
<1>4. Denotes[t] = DenotedBy(Denotes, t)
  BY <1>2, DenotesEquation
<1>5. Len(t) # 1 /\ t[1] = kind
  BY <1>1, <1>2 DEF n
<1>6. Lists(kind, b, Inner(t))
  BY <1>3 DEF Holds, n
<1>7. CASE kind = "lbracket"
  BY <1>4, <1>5, <1>6, <1>7 DEF DenotedBy, Lists, ItemsOf, Container, ArrayOf, t, n
<1>8. CASE kind = "lbrace"
  BY <1>4, <1>5, <1>6, <1>8 DEF DenotedBy, Lists, EntriesOf, Container, ObjectOf, t, n
<1> QED
  BY <1>7, <1>8 DEF Openers

\* A container with the value stored that its text goes on with.
LEMMA ValueStored ==
  ASSUME NEW s \in Text, NEW kind \in Openers, NEW b, NEW v, NEW a \in 1..Len(s), NEW d \in 1..Len(s),
         NEW depth \in Int,
         d \geq a, Depth(s, a + 1) = depth,
         d # a => s[d] = "comma" /\ Depth(s, d) = depth,
         \A i \in (d + 1)..Len(s) : s[i] = "comma" => Depth(s, i) # depth,
         ValueAt(kind, d) \leq Len(s),
         v = Denotes[SubSeq(s, ValueAt(kind, d), Len(s))],
         Waits(s, kind, b, a, d)
  PROVE  Holds(s, kind, Store(kind, b, v), a, Len(s))
<1> DEFINE n == Len(s)
           q == SubSeq(s, d + 1, n)
           parts == Parts[SubSeq(s, a + 1, d - 1)]
<1>1. n \in Nat /\ a \in Nat /\ d \in Nat /\ a \geq 1 /\ d < n
  BY TextLength DEF ValueAt
<1>2. q \in Text /\ parts \in Seq(Text) /\ Parts[SubSeq(s, a + 1, n)] = Append(parts, q)
  BY <1>1, PartsGrow
<1>3. b = [items |-> b.items, entries |-> b.entries, key |-> b.key]
  BY DEF Waits, Holds
<1>4. CASE kind = "lbracket"
  <2>1. b.items = ItemsOf(parts)
    BY <1>4 DEF Waits, Holds, Lists
  <2>2. v = Denotes[q]
    BY <1>4 DEF ValueAt
  <2> HIDE DEF q, parts, n
  <2>3. ItemsOf(Append(parts, q)) = Append(b.items, v)
    BY <1>2, <2>1, <2>2, ItemsOfAppend
  <2> DEFINE e == Store(kind, b, v)
  <2>4. e = [items |-> Append(b.items, v), entries |-> b.entries, key |-> b.key]
    BY <1>3, <1>4 DEF Store
  <2> HIDE DEF e
  <2>5. e = [items |-> e.items, entries |-> e.entries, key |-> e.key] /\ e.items = Append(b.items, v)
    BY <2>4
  <2>6. Lists(kind, e, SubSeq(s, a + 1, n))
    BY <1>2, <1>4, <2>3, <2>5 DEF Lists
  <2> QED
    BY <2>5, <2>6 DEF Holds, e, n
<1>5. CASE kind = "lbrace"
  <2>1. b.entries = EntriesOf(parts) /\ b.key = s[d + 1]
    BY <1>5 DEF Waits, Holds, Lists
  <2>2. d + 3 \leq n /\ v = Denotes[SubSeq(s, d + 3, n)]
    BY <1>5 DEF ValueAt
  <2>3. Len(q) = n - d /\ q[1] = s[d + 1]
    <3>1. d + 1 \in Nat /\ d + 1 \geq 1 /\ n \in Int /\ n \leq Len(s)
      BY <1>1
    <3>2. /\ Len(q) = IF d + 1 \leq n THEN n - (d + 1) + 1 ELSE 0
          /\ \A i \in 1..(n - (d + 1) + 1) : q[i] = s[(d + 1) + i - 1]
      BY <3>1, Piece
    <3> HIDE DEF q, n
    <3>3. 1 \in 1..(n - (d + 1) + 1) /\ (d + 1) + 1 - 1 = d + 1
      BY <1>1
    <3>4. q[1] = s[(d + 1) + 1 - 1]
      BY <3>2, <3>3
    <3> QED
      BY <1>1, <3>2, <3>3, <3>4
  <2>4. AfterColon(q) = SubSeq(s, d + 3, n)
    <3>1. /\ d + 1 \in Nat /\ d + 1 \geq 1 /\ n \in Int /\ n \leq Len(s) /\ (d + 1) - 1 \leq n
          /\ 3 \in Nat /\ 3 \geq 1 /\ n - d \in Int /\ n - d \leq n - (d + 1) + 1
          /\ (d + 1) + 3 - 1 = d + 3 /\ (d + 1) + (n - d) - 1 = n
      BY <1>1
    <3> HIDE DEF n
    <3>2. SubSeq(SubSeq(s, d + 1, n), 3, n - d) = SubSeq(s, (d + 1) + 3 - 1, (d + 1) + (n - d) - 1)
      BY <3>1, PieceOfPiece
    <3> QED
      BY <2>3, <3>1, <3>2 DEF AfterColon
  <2> HIDE DEF q, parts, n
  <2>5. EntriesOf(Append(parts, q)) = Assign(b.entries, b.key, v)
    BY <1>2, <2>1, <2>2, <2>3, <2>4, EntriesOfAppend
  <2> DEFINE e == Store(kind, b, v)
             m == Assign(b.entries, b.key, v)
  <2>6. e = [items |-> b.items, entries |-> m, key |-> b.key]
    <3> HIDE DEF m
    <3>1. e = [b EXCEPT !.entries = m]
      BY <1>5 DEF Store, m
    <3> QED
      BY <1>3, <3>1
  <2> HIDE DEF e, m
  <2>7. e = [items |-> e.items, entries |-> e.entries, key |-> e.key] /\ e.entries = m
    BY <2>6
  <2>8. Lists(kind, e, SubSeq(s, a + 1, n))
    BY <1>2, <1>5, <2>5, <2>7 DEF Lists, m
  <2> QED
    BY <2>7, <2>8 DEF Holds, e, n
<1> QED
  BY <1>4, <1>5 DEF Openers
-----------------------------------------------------------------------------
(***************************************************************************)
(* The sequence of the containers, whose elements have no set to be in.    *)
(***************************************************************************)
LEMMA WiderSeq ==
  ASSUME NEW V, NEW W, NEW s \in Seq(V), V \subseteq W
  PROVE  s \in Seq(W)
<1>1. Len(s) \in Nat /\ s \in [1..Len(s) -> V]
  BY LenProperties
<1>2. s \in [1..Len(s) -> W]
  BY <1>1
<1> QED
  BY <1>1, <1>2

LEMMA AppendAnything ==
  ASSUME NEW s, NEW e, \E V : s \in Seq(V)
  PROVE  /\ \E V : Append(s, e) \in Seq(V)
         /\ Len(Append(s, e)) = Len(s) + 1
         /\ \A l \in 1..Len(s) : Append(s, e)[l] = s[l]
         /\ Append(s, e)[Len(s) + 1] = e
<1>1. PICK V : s \in Seq(V)
  OBVIOUS
<1> DEFINE W == V \cup {e}
<1>2. s \in Seq(W) /\ e \in W
  BY <1>1, WiderSeq
<1> HIDE DEF W
<1> QED
  BY <1>2, AppendProperties

Changed(s, i, e) == [s EXCEPT ![i] = e]

LEMMA ChangeAnything ==
  ASSUME NEW s, NEW e, NEW i \in 1..Len(s), \E V : s \in Seq(V)
  PROVE  /\ \E V : Changed(s, i, e) \in Seq(V)
         /\ Len(Changed(s, i, e)) = Len(s)
         /\ \A l \in 1..Len(s) : Changed(s, i, e)[l] = IF l = i THEN e ELSE s[l]
<1>1. PICK V : s \in Seq(V)
  OBVIOUS
<1> DEFINE W == V \cup {e}
<1>2. s \in Seq(W) /\ e \in W
  BY <1>1, WiderSeq
<1> HIDE DEF W
<1>3. /\ [s EXCEPT ![i] = e] \in Seq(W)
      /\ Len([s EXCEPT ![i] = e]) = Len(s)
      /\ \A j \in 1..Len(s) : [s EXCEPT ![i] = e][j] = IF j = i THEN e ELSE s[j]
  BY <1>2, ExceptSeq
<1> QED
  BY <1>3 DEF Changed

-----------------------------------------------------------------------------
(***************************************************************************)
(* ParseValue returns with the activations st around it.                   *)
(***************************************************************************)
LEMMA ReturnBuilds ==
  ASSUME NEW s \in Text, NEW st \in Seq(Openers), NEW bs, NEW o, NEW c, NEW v, NEW p,
         Brackets(s, st, o), Commas(s, st, o, c),
         \E V : bs \in Seq(V), Len(bs) = Len(st),
         \A l \in 1..Len(st) : Waits(s, st[l], bs[l], o[l], c[l]),
         IF st = <<>> THEN p = 1
         ELSE p = ValueAt(st[Len(st)], c[Len(st)]) /\ p \leq Len(s),
         v = Denotes[SubSeq(s, p, Len(s))],
         Return(v, st, bs)
  PROVE  /\ Building(pc', s, stack', built', o, c)
         /\ st = <<>> => pc' = "end" /\ value' = Denotes[s]
         /\ st # <<>> => pc' = "after" /\ value' = value
<1> DEFINE L == Len(st)
<1>1. stack' = st /\ L \in Nat
  BY LenProperties DEF Return
<1>2. CASE st = <<>>
  <2>1. pc' = "end" /\ value' = v /\ built' = bs
    BY <1>2 DEF Return
  <2>2. v = Denotes[s]
    BY <1>2, SubSeqFull DEF Text
  <2>3. \A l \in 1..(L - 1) : Waits(s, st[l], bs[l], o[l], c[l])
    BY <1>1
  <2> QED
    BY <1>1, <1>2, <2>1, <2>2, <2>3 DEF Building
<1>3. CASE st # <<>>
  <2>1. L \geq 1 /\ L \in 1..L /\ st[L] \in Openers
    BY <1>3, BelowElements
  <2> DEFINE e == Store(st[L], bs[L], v)
             new == Changed(bs, L, e)
  <2>2. pc' = "after" /\ value' = value /\ built' = new
    BY <1>3 DEF Return, Changed
  <2>3. /\ o[L] \in 1..Len(s) /\ c[L] \in 1..Len(s) /\ c[L] \geq o[L]
        /\ c[L] # o[L] => s[c[L]] = "comma" /\ Depth(s, c[L]) = L
        /\ \A i \in (c[L] + 1)..Len(s) : s[i] = "comma" => Depth(s, i) # L
        /\ s[o[L]] = st[L] /\ Depth(s, o[L]) = L - 1
    BY <2>1 DEF Brackets, Commas
  <2>4. Depth(s, o[L] + 1) = L
    <3>0. o[L] \in Nat /\ o[L] \geq 1
      BY <2>3
    <3>1. Depth(s, o[L] + 1) = Depth(s, o[L]) + Weight(s[o[L]])
      BY <3>0, DepthStep
    <3>2. Weight(st[L]) = 1
      BY <2>1 DEF Weight, Openers, Closers
    <3> QED
      BY <1>1, <2>3, <3>1, <3>2
  <2>5. Waits(s, st[L], bs[L], o[L], c[L]) /\ ValueAt(st[L], c[L]) \leq Len(s)
        /\ v = Denotes[SubSeq(s, ValueAt(st[L], c[L]), Len(s))]
    BY <1>3, <2>1
  <2> HIDE DEF L
  <2>6. Holds(s, st[L], e, o[L], Len(s))
    <3>1. L \in Int
      BY <1>1
    <3> QED
      BY <2>1, <2>3, <2>4, <2>5, <3>1, ValueStored
  <2>7. /\ \E V : new \in Seq(V)
        /\ Len(new) = L
        /\ \A l \in 1..L : new[l] = IF l = L THEN e ELSE bs[l]
    <3>1. L \in 1..Len(bs) /\ Len(bs) = L
      BY <2>1 DEF L
    <3> HIDE DEF e
    <3> QED
      BY <3>1, ChangeAnything
  <2> HIDE DEF new, e
  <2>8. ASSUME NEW l \in 1..(L - 1) PROVE Waits(s, st[l], new[l], o[l], c[l])
    <3>1. l \in 1..L /\ l # L
      BY <1>1
    <3> QED
      BY <2>7, <3>1 DEF L
  <2>9. Holds(s, st[L], new[L], o[L], Len(s))
    BY <2>1, <2>6, <2>7
  <2>10. Building("after", s, st, new, o, c)
    BY <2>7, <2>8, <2>9 DEF Building, L
  <2> QED
    BY <1>1, <1>3, <2>2, <2>10
<1> QED
  BY <1>2, <1>3

-----------------------------------------------------------------------------
(***************************************************************************)
(* Each action keeps what is built right.                                  *)
(***************************************************************************)
Built(o, c) == Building(pc, Sig, stack, built, o, c)

LEMMA BuiltBelow ==
  ASSUME NEW o, NEW c, IInv, Tracked(o, c), Built(o, c), peek \in Tokens
  PROVE  /\ \E V : built \in Seq(V)
         /\ Len(built) = Len(stack)
         /\ \A l \in 1..(Len(stack) - 1) :
              Waits(Append(Sig, peek), stack[l], built[l], o[l], c[l])
<1>1. /\ \E V : built \in Seq(V)
      /\ Len(built) = Len(stack)
      /\ \A l \in 1..(Len(stack) - 1) : Waits(Sig, stack[l], built[l], o[l], c[l])
  BY DEF Built, Building
<1> QED
  BY <1>1, Known, OuterStays DEF Tracked

LEMMA BuiltWhitespace ==
  ASSUME NEW o, NEW c, IInv, Tracked(o, c), Built(o, c), SkipWhitespace
  PROVE  Built(o, c)' /\ value' = value
<1>1. Sig' = Sig /\ pc' = pc /\ stack' = stack /\ built' = built /\ value' = value
  BY TrackWhitespace DEF SkipWhitespace
<1> QED
  BY <1>1 DEF Built

\* The activation that waits for a value goes on waiting.
LEMMA WaitingGoesOn ==
  ASSUME NEW o, NEW c, IInv, Tracked(o, c), Built(o, c), stack # <<>>,
         pc \in {"value", "keyed"}, peek \in Tokens
  PROVE  \A l \in 1..Len(stack) : Waits(Append(Sig, peek), stack[l], built[l], o[l], c[l])
<1> DEFINE n == Len(Sig)
           L == Len(stack)
<1>1. /\ Sig \in Text /\ n \in Nat /\ L \in Nat /\ L \geq 1
      /\ o[L] \in 1..n /\ c[L] \in 1..n
  BY Known, Innermost DEF Tracked
<1>2. Waits(Sig, stack[L], built[L], o[L], c[L])
  BY DEF Built, Building
<1>3. stack[L] = "lbrace" => c[L] + 1 \leq n
  <2>1. CASE pc = "value"
    BY <1>1, <2>1 DEF Tracked, AtPlace, ValueAt
  <2>2. CASE pc = "keyed"
    BY <1>1, <2>2 DEF Tracked, AtPlace
  <2> QED
    BY <2>1, <2>2
<1>4. Waits(Append(Sig, peek), stack[L], built[L], o[L], c[L])
  BY <1>1, <1>2, <1>3, WaitsStays
<1>5. \A l \in 1..(L - 1) : Waits(Append(Sig, peek), stack[l], built[l], o[l], c[l])
  BY BuiltBelow
<1> HIDE DEF L
<1> QED
  <2> TAKE l \in 1..Len(stack)
  <2>1. l \in 1..(L - 1) \/ l = L
    BY <1>1 DEF L
  <2> QED
    BY <1>4, <1>5, <2>1

LEMMA BuiltScalar ==
  ASSUME NEW o, NEW c, IInv, Tracked(o, c), Built(o, c), ParseScalar
  PROVE  /\ Built(o, c)'
         /\ pc' = "end" => value' = Denotes[Sig']
         /\ pc' \in {"after", "end"}
<1> DEFINE r == Append(Sig, peek)
           n == Len(Sig)
           L == Len(stack)
           p == IF stack = <<>> THEN 1 ELSE n + 1
<1>1. pc = "value" /\ peek \in Atoms /\ Return(Scalar(peek), stack, built)
  BY DEF ParseScalar
<1>2. peek \in Tokens
  BY <1>1, KindsApart
<1>3. Sig' = r /\ Brackets(r, stack, o) /\ Commas(r, stack, o, c)
  BY <1>1, TrackScalar, ReturnPlace DEF Tracked
<1>4. /\ Sig \in Text /\ n \in Nat /\ stack \in Seq(Openers) /\ L \in Nat
  BY Known
<1>5. r \in Text /\ Len(r) = n + 1 /\ r[n + 1] = peek
  BY <1>2, <1>4, OneMore
<1>6. \A l \in 1..L : Waits(r, stack[l], built[l], o[l], c[l])
  <2>1. stack = <<>> => L = 0
    BY Known
  <2> QED
    BY <1>1, <1>2, <2>1, WaitingGoesOn
<1>7. (\E V : built \in Seq(V)) /\ Len(built) = L
  BY <1>2, BuiltBelow
<1>8. IF stack = <<>> THEN p = 1 /\ n = 0
      ELSE p = ValueAt(stack[L], c[L]) /\ p \leq Len(r)
  <2>1. stack = <<>> => n = 0
    BY <1>1, AtValue
  <2>2. stack # <<>> => n + 1 = ValueAt(stack[L], c[L])
    BY <1>1 DEF Tracked, AtPlace
  <2> HIDE DEF r, n, L
  <2> QED
    BY <1>4, <1>5, <2>1, <2>2
<1>9. p = n + 1
  BY <1>8
<1> HIDE DEF r, n, p
<1>10. Scalar(peek) = Denotes[SubSeq(r, p, Len(r))]
  <2> DEFINE q == SubSeq(r, p, Len(r))
  <2>1. /\ p \in Nat /\ p \geq 1 /\ Len(r) \in Int /\ Len(r) \leq Len(r)
        /\ Len(r) - p + 1 = 1 /\ 1 \in 1..1 /\ p + 1 - 1 = n + 1 /\ p \leq Len(r)
    BY <1>4, <1>5, <1>9
  <2>2. /\ q \in Text /\ Len(q) = IF p \leq Len(r) THEN Len(r) - p + 1 ELSE 0
        /\ \A i \in 1..(Len(r) - p + 1) : q[i] = r[p + i - 1]
    BY <1>5, <2>1, Piece
  <2> HIDE DEF q
  <2>3. Len(q) = 1 /\ q[1] = peek
    <3>1. q[1] = r[p + 1 - 1]
      BY <2>1, <2>2
    <3> QED
      BY <1>5, <2>1, <2>2, <3>1
  <2>4. Denotes[q] = <<"scalar", q[1]>>
    BY <2>2, <2>3, DenotesEquation DEF DenotedBy
  <2> QED
    BY <2>3, <2>4 DEF Scalar, q
<1> HIDE DEF L
<1>11. /\ Building(pc', r, stack', built', o, c)
       /\ stack = <<>> => pc' = "end" /\ value' = Denotes[r]
       /\ stack # <<>> => pc' = "after" /\ value' = value
  BY <1>1, <1>3, <1>4, <1>5, <1>6, <1>7, <1>8, <1>10, ReturnBuilds DEF L
<1> QED
  BY <1>3, <1>11 DEF Built

LEMMA BuiltOpen ==
  ASSUME NEW o, NEW c, NEW p, NEW d, IInv, Tracked(o, c), Built(o, c), OpenContainer,
         p = WithOpened(o, stack, Len(Sig) + 1), d = WithOpened(c, stack, Len(Sig) + 1)
  PROVE  Built(p, d)' /\ value' = value
<1> DEFINE r == Append(Sig, peek)
           n == Len(Sig)
           L == Len(stack)
           u == Append(stack, peek)
           new == Append(built, EmptyContainer)
<1>1. /\ pc = "value" /\ peek \in Openers /\ value' = value
      /\ stack' = u /\ built' = new /\ pc' = "open"
  BY DEF OpenContainer
<1>2. peek \in Tokens
  BY <1>1, KindsApart
<1>3. Sig' = r
  BY TrackOpen
<1>4. /\ Sig \in Text /\ n \in Nat /\ stack \in Seq(Openers) /\ L \in Nat
      /\ stack = <<>> => L = 0
  BY Known
<1>5. /\ Len(u) = L + 1 /\ \A l \in 1..L : u[l] = stack[l]
      /\ u[L + 1] = peek
  BY <1>1, <1>4, AppendProperties
<1>6. (\E V : built \in Seq(V)) /\ Len(built) = L
  BY <1>2, BuiltBelow
<1>7. /\ \E V : new \in Seq(V)
      /\ Len(new) = L + 1 /\ \A l \in 1..L : new[l] = built[l]
      /\ new[L + 1] = EmptyContainer
  <2>1. /\ \E V : Append(built, EmptyContainer) \in Seq(V)
        /\ Len(Append(built, EmptyContainer)) = Len(built) + 1
        /\ \A l \in 1..Len(built) : Append(built, EmptyContainer)[l] = built[l]
        /\ Append(built, EmptyContainer)[Len(built) + 1] = EmptyContainer
    BY <1>6, AppendAnything
  <2> QED
    BY <1>6, <2>1
<1>8. /\ p[L + 1] = n + 1 /\ d[L + 1] = n + 1
      /\ \A l \in 1..L : p[l] = o[l] /\ d[l] = c[l]
  BY <1>4 DEF WithOpened
<1>9. \A l \in 1..L : Waits(r, stack[l], built[l], o[l], c[l])
  BY <1>1, <1>2, <1>4, WaitingGoesOn
<1> HIDE DEF r, n, L, u, new
<1>10. \A l \in 1..L : Waits(r, u[l], new[l], p[l], d[l])
  BY <1>5, <1>7, <1>8, <1>9
<1>11. Holds(r, peek, EmptyContainer, n + 1, (n + 1) - 1)
  <2>1. Parts[SubSeq(r, (n + 1) + 1, (n + 1) - 1)] = <<>>
    <3>1. (n + 1) + 1 \in Int /\ (n + 1) - 1 \in Int /\ (n + 1) - 1 < (n + 1) + 1
      BY <1>4
    <3> QED
      BY <3>1, EmptyPiece
  <2>2. ItemsOf(<<>>) = <<>> /\ EntriesOf(<<>>) = <<>>
    BY DEF ItemsOf, EntriesOf, KeysOf
  <2>3. EmptyContainer = [items |-> EmptyContainer.items, entries |-> EmptyContainer.entries,
                          key |-> EmptyContainer.key]
        /\ EmptyContainer.items = <<>> /\ EmptyContainer.entries = <<>>
    BY DEF EmptyContainer
  <2> QED
    BY <2>1, <2>2, <2>3 DEF Holds, Lists
<1>12. Holds(r, u[L + 1], new[L + 1], p[L + 1], d[L + 1] - 1)
  BY <1>5, <1>7, <1>8, <1>11
<1>13. Len(u) - 1 = L /\ Len(u) = Len(new)
  BY <1>4, <1>5, <1>7
<1>14. Building("open", r, u, new, p, d)
  BY <1>5, <1>7, <1>10, <1>12, <1>13 DEF Building
<1> QED
  BY <1>1, <1>3, <1>14 DEF Built

\* The two ways of leaving a container.
LEMMA BuiltClose ==
  ASSUME NEW o, NEW c, NEW p, NEW d, IInv, Tracked(o, c), Built(o, c),
         CloseEmpty \/ CloseContainer,
         p = WithClosed(o, stack), d = WithClosed(c, stack)
  PROVE  /\ Built(p, d)'
         /\ pc' = "end" => value' = Denotes[Sig']
         /\ pc' \in {"after", "end"}
<1> DEFINE r == Append(Sig, peek)
           n == Len(Sig)
           L == Len(stack)
           u == Below(stack)
           bs == Below(built)
           v == Container(stack[L], built[L])
<1>1. /\ pc \in {"open", "after"} /\ (pc = "after" \/ pc = "open") /\ peek = Closer /\ stack # <<>>
      /\ Return(Container(Top(stack), Top(built)), u, bs)
  BY Known DEF CloseEmpty, CloseContainer
<1>2. peek \in Tokens
  BY <1>1, KindsApart DEF Closer, Closers
<1>3. Sig' = r /\ Brackets(r, u, p) /\ Commas(r, u, p, d)
  BY <1>1, TrackClose, ReturnPlace DEF Tracked
<1>4. /\ Sig \in Text /\ n \in Nat /\ n \geq 1 /\ stack \in Seq(Openers) /\ L \in Nat /\ L \geq 1
      /\ o[L] \in 1..n /\ c[L] \in 1..n /\ Sig[o[L]] = stack[L] /\ stack[L] \in Openers
  BY <1>1, Known, Innermost DEF Tracked
<1>5. r \in Text /\ Len(r) = n + 1 /\ \A i \in 1..n : r[i] = Sig[i]
  BY <1>2, <1>4, OneMore
<1>6. /\ (\E V : built \in Seq(V)) /\ Len(built) = L
      /\ \A l \in 1..(L - 1) : Waits(r, stack[l], built[l], o[l], c[l])
  BY <1>2, BuiltBelow
<1>7. /\ u \in Seq(Openers) /\ Len(u) = L - 1
      /\ \A l \in 1..(L - 1) : u[l] = stack[l]
  BY <1>1, <1>4, BelowElements
<1>8. /\ (\E V : bs \in Seq(V)) /\ Len(bs) = L - 1
      /\ \A l \in 1..(L - 1) : bs[l] = built[l]
  <2>1. PICK V : built \in Seq(V)
    BY <1>6
  <2>2. built # <<>>
    BY <1>4, <1>6, EmptySeq
  <2>3. /\ Below(built) \in Seq(V) /\ Len(Below(built)) = Len(built) - 1
        /\ \A l \in 1..(Len(built) - 1) : Below(built)[l] = built[l]
    BY <2>1, <2>2, BelowElements
  <2> QED
    BY <1>6, <2>3
<1>9. Top(stack) = stack[L] /\ Top(built) = built[L]
  BY <1>6 DEF Top
<1>10. \A l \in 1..(L - 1) : p[l] = o[l] /\ d[l] = c[l]
  BY DEF WithClosed
<1>11. Holds(Sig, stack[L], built[L], o[L], n)
  <2>1. CASE pc = "after"
    BY <1>1, <2>1 DEF Built, Building
  <2>2. CASE pc = "open"
    <3>1. Holds(Sig, stack[L], built[L], o[L], c[L] - 1)
      BY <1>1, <2>2 DEF Built, Building
    <3>2. n = c[L] /\ n = o[L]
      BY <2>2 DEF Tracked, AtPlace
    <3> HIDE DEF n, L
    <3>3. n + 1 \in Int /\ n \in Int /\ n - 1 \in Int /\ n < n + 1 /\ n - 1 < n + 1
      BY <1>4
    <3>4. SubSeq(Sig, n + 1, n) = <<>> /\ SubSeq(Sig, n + 1, n - 1) = <<>>
      BY <3>3, EmptyPiece
    <3> QED
      BY <3>1, <3>2, <3>4 DEF Holds
  <2> QED
    BY <1>1, <2>1, <2>2
<1>12. Holds(r, stack[L], built[L], o[L], n)
  <2>1. o[L] \in Nat /\ n \in Int /\ n \leq Len(Sig)
    BY <1>4
  <2> QED
    BY <1>2, <1>4, <1>11, <2>1, HoldsStays
<1> HIDE DEF r, n, u, bs
<1>13. v = Denotes[SubSeq(r, o[L], Len(r))]
  <2>1. /\ o[L] \in 1..Len(r) /\ o[L] < Len(r) /\ r[o[L]] = stack[L]
        /\ Len(r) - 1 = n
    BY <1>4, <1>5
  <2> HIDE DEF L
  <2> QED
    BY <1>4, <1>5, <1>12, <2>1, ContainerDenoted
<1>14. \A l \in 1..(L - 1) : Waits(r, u[l], bs[l], p[l], d[l])
  BY <1>6, <1>7, <1>8, <1>10
<1>15. IF u = <<>> THEN o[L] = 1
       ELSE o[L] = ValueAt(u[Len(u)], d[Len(u)]) /\ o[L] \leq Len(r)
  <2>1. CASE u = <<>>
    <3>1. L = 1
      BY <1>4, <1>7, <2>1, EmptySeq
    <3> QED
      BY <1>1, <2>1, <3>1 DEF Tracked, Progress
  <2>2. CASE u # <<>>
    <3>1. Len(u) \in Nat \ {0}
      BY <1>7, <2>2, EmptySeq
    <3>2. L - 1 \in 1..(L - 1) /\ (L - 1) + 1 = L
      BY <1>4, <1>7, <3>1
    <3>3. o[(L - 1) + 1] = ValueAt(stack[L - 1], c[L - 1])
      BY <3>2 DEF Tracked, Progress
    <3>4. u[L - 1] = stack[L - 1] /\ d[L - 1] = c[L - 1]
      BY <1>7, <1>10, <3>2
    <3>5. o[L] \leq Len(r)
      BY <1>4, <1>5
    <3> HIDE DEF L
    <3> QED
      BY <1>7, <2>2, <3>2, <3>3, <3>4, <3>5
  <2> QED
    BY <2>1, <2>2
<1> HIDE DEF L, v
<1>16. /\ Building(pc', r, stack', built', p, d)
       /\ u = <<>> => pc' = "end" /\ value' = Denotes[r]
       /\ u # <<>> => pc' = "after" /\ value' = value
  <2>1. Return(v, u, bs)
    BY <1>1, <1>9 DEF v
  <2>2. \A l \in 1..Len(u) : Waits(r, u[l], bs[l], p[l], d[l])
    BY <1>7, <1>14
  <2>3. (\E V : bs \in Seq(V)) /\ Len(bs) = Len(u)
    BY <1>7, <1>8
  <2> QED
    BY <1>3, <1>5, <1>7, <1>13, <1>15, <2>1, <2>2, <2>3, ReturnBuilds
<1> QED
  BY <1>3, <1>16 DEF Built

LEMMA BuiltEnter ==
  ASSUME NEW o, NEW c, IInv, Tracked(o, c), Built(o, c), EnterLoop
  PROVE  Built(o, c)' /\ value' = value
<1> DEFINE L == Len(stack)
<1>1. /\ pc = "open" /\ stack # <<>> /\ value' = value
      /\ pc' = IF Top(stack) = "lbracket" THEN "value" ELSE "key"
      /\ stack' = stack /\ built' = built
  BY Known DEF EnterLoop
<1>2. Sig' = Sig
  BY TrackEnter
<1>3. Holds(Sig, stack[L], built[L], o[L], c[L] - 1)
  BY <1>1 DEF Built, Building
<1>4. stack[L] = "lbracket" => Waits(Sig, stack[L], built[L], o[L], c[L])
  BY <1>3 DEF Waits
<1>5. /\ \E V : built \in Seq(V)
      /\ Len(built) = L
      /\ \A l \in 1..(L - 1) : Waits(Sig, stack[l], built[l], o[l], c[l])
  BY DEF Built, Building
<1>6. Top(stack) = stack[L]
  BY DEF Top
<1> HIDE DEF L
<1>7. Building(pc', Sig, stack, built, o, c)
  BY <1>1, <1>3, <1>4, <1>5, <1>6 DEF Building, L
<1> QED
  BY <1>1, <1>2, <1>7 DEF Built

LEMMA BuiltKey ==
  ASSUME NEW o, NEW c, IInv, Tracked(o, c), Built(o, c), ParseKey
  PROVE  Built(o, c)' /\ value' = value
<1> DEFINE r == Append(Sig, peek)
           n == Len(Sig)
           L == Len(stack)
           b == built[L]
           e == [b EXCEPT !.key = peek]
           new == Changed(built, L, e)
<1>1. /\ pc = "key" /\ peek \in Strings /\ pc' = "keyed" /\ stack # <<>>
      /\ built' = [built EXCEPT ![Len(built)].key = peek]
      /\ stack' = stack /\ value' = value
  BY Known DEF ParseKey
<1>2. peek \in Tokens
  BY <1>1, KindsApart
<1>3. Sig' = r
  BY TrackKey
<1>4. /\ Sig \in Text /\ n \in Nat /\ n \geq 1 /\ L \in Nat /\ L \geq 1
      /\ o[L] \in 1..n /\ c[L] \in 1..n
  BY <1>1, Known, Innermost DEF Tracked
<1>5. stack[L] = "lbrace" /\ n = c[L]
  BY <1>1 DEF Tracked, AtPlace
<1>6. r[n + 1] = peek
  BY <1>2, <1>4, OneMore
<1>7. /\ (\E V : built \in Seq(V)) /\ Len(built) = L
      /\ \A l \in 1..(L - 1) : Waits(r, stack[l], built[l], o[l], c[l])
  BY <1>2, BuiltBelow
<1>8. Holds(Sig, stack[L], b, o[L], c[L] - 1)
  BY <1>1 DEF Built, Building
<1>9. Holds(r, stack[L], b, o[L], c[L] - 1)
  <2>1. o[L] \in Nat /\ c[L] - 1 \in Int /\ c[L] - 1 \leq Len(Sig)
    BY <1>4
  <2> HIDE DEF b
  <2> QED
    BY <1>2, <1>4, <1>8, <2>1, HoldsStays
<1>10. built' = new
  BY <1>1, <1>7 DEF Changed
<1>11. /\ \E V : new \in Seq(V)
       /\ Len(new) = L
       /\ \A l \in 1..L : new[l] = IF l = L THEN e ELSE built[l]
  <2>1. L \in 1..Len(built)
    BY <1>4, <1>7
  <2> HIDE DEF e
  <2> QED
    BY <1>7, <2>1, ChangeAnything
<1> HIDE DEF r, n, L, new
<1>12. Waits(r, stack[L], e, o[L], c[L])
  <2>1. b = [items |-> b.items, entries |-> b.entries, key |-> b.key]
    BY <1>9 DEF Holds
  <2> HIDE DEF b
  <2>2. e = [items |-> b.items, entries |-> b.entries, key |-> peek]
    BY <2>1
  <2> HIDE DEF e
  <2>3. /\ e = [items |-> e.items, entries |-> e.entries, key |-> e.key]
        /\ e.items = b.items /\ e.entries = b.entries /\ e.key = peek
    BY <2>2
  <2>4. Lists(stack[L], e, SubSeq(r, o[L] + 1, c[L] - 1))
    BY <1>9, <2>3 DEF Holds, Lists
  <2> QED
    BY <1>5, <1>6, <2>3, <2>4 DEF Waits, Holds
<1> HIDE DEF e
<1>13. \A l \in 1..(L - 1) : Waits(r, stack[l], new[l], o[l], c[l])
  <2> TAKE l \in 1..(L - 1)
  <2>1. l \in 1..L /\ l # L
    BY <1>4
  <2> QED
    BY <1>7, <1>11, <2>1
<1>14. new[L] = e
  BY <1>4, <1>11
<1>15. Building("keyed", r, stack, new, o, c)
  BY <1>11, <1>12, <1>13, <1>14 DEF Building, L
<1> QED
  BY <1>1, <1>3, <1>10, <1>15 DEF Built

LEMMA BuiltColon ==
  ASSUME NEW o, NEW c, IInv, Tracked(o, c), Built(o, c), ParseColon
  PROVE  Built(o, c)' /\ value' = value
<1> DEFINE r == Append(Sig, peek)
           L == Len(stack)
<1>1. /\ pc = "keyed" /\ peek = "colon" /\ pc' = "value" /\ stack # <<>>
      /\ stack' = stack /\ built' = built /\ value' = value
  BY Known DEF ParseColon
<1>2. peek \in Tokens
  BY <1>1, KindsApart
<1>3. Sig' = r
  BY TrackColon
<1>4. (\E V : built \in Seq(V)) /\ Len(built) = L
  BY <1>2, BuiltBelow
<1>5. \A l \in 1..L : Waits(r, stack[l], built[l], o[l], c[l])
  BY <1>1, <1>2, WaitingGoesOn
<1>6. L \in Nat /\ L \geq 1
  BY <1>1, Known
<1> HIDE DEF L, r
<1>7. L \in 1..L /\ \A l \in 1..(L - 1) : l \in 1..L
  BY <1>6
<1>8. Building("value", r, stack, built, o, c)
  BY <1>4, <1>5, <1>7 DEF Building, L
<1> QED
  BY <1>1, <1>3, <1>8 DEF Built

LEMMA BuiltComma ==
  ASSUME NEW o, NEW c, NEW d, IInv, Tracked(o, c), Built(o, c), ParseComma,
         d = [c EXCEPT ![Len(stack)] = Len(Sig) + 1]
  PROVE  Built(o, d)' /\ value' = value
<1> DEFINE r == Append(Sig, peek)
           n == Len(Sig)
           L == Len(stack)
<1>1. /\ pc = "after" /\ peek = "comma" /\ stack # <<>>
      /\ pc' = IF Top(stack) = "lbracket" THEN "value" ELSE "key"
      /\ stack' = stack /\ built' = built /\ value' = value
  BY Known DEF ParseComma
<1>2. peek \in Tokens
  BY <1>1, KindsApart
<1>3. Sig' = r
  BY TrackComma
<1>4. /\ Sig \in Text /\ n \in Nat /\ L \in Nat /\ L \geq 1 /\ o[L] \in 1..n
      /\ c \in [1..L -> 1..n]
  <2>1. /\ Sig \in Text /\ n \in Nat /\ L \in Nat /\ L \geq 1 /\ o[L] \in 1..n
    BY <1>1, Known, Innermost DEF Tracked
  <2>2. c \in [1..L -> 1..n]
    BY DEF Tracked, Commas
  <2> QED
    BY <2>1, <2>2
<1>5. /\ (\E V : built \in Seq(V)) /\ Len(built) = L
      /\ \A l \in 1..(L - 1) : Waits(r, stack[l], built[l], o[l], c[l])
  BY <1>2, BuiltBelow
<1>6. d[L] = n + 1 /\ \A l \in 1..(L - 1) : d[l] = c[l]
  BY <1>4
<1>7. Holds(Sig, stack[L], built[L], o[L], n)
  BY <1>1 DEF Built, Building
<1>8. Holds(r, stack[L], built[L], o[L], n)
  <2>1. o[L] \in Nat /\ n \in Int /\ n \leq Len(Sig)
    BY <1>4
  <2> QED
    BY <1>2, <1>4, <1>7, <2>1, HoldsStays
<1>9. d[L] - 1 = n /\ Top(stack) = stack[L]
  BY <1>4, <1>6 DEF Top
<1> HIDE DEF r, n, L
<1>10. Holds(r, stack[L], built[L], o[L], d[L] - 1)
  BY <1>8, <1>9
<1>11. stack[L] = "lbracket" => Waits(r, stack[L], built[L], o[L], d[L])
  BY <1>10 DEF Waits
<1>12. \A l \in 1..(L - 1) : Waits(r, stack[l], built[l], o[l], d[l])
  BY <1>5, <1>6
<1>13. Building(pc', r, stack, built, o, d)
  BY <1>1, <1>5, <1>9, <1>10, <1>11, <1>12 DEF Building, L
<1> QED
  BY <1>1, <1>3, <1>13 DEF Built

LEMMA BuiltAccept ==
  ASSUME NEW o, NEW c, IInv, Built(o, c), Accept
  PROVE  Built(o, c)' /\ value' = value
<1>1. /\ pc = "end" /\ pc' = "accepted" /\ text' = text
      /\ stack' = stack /\ built' = built /\ value' = value
  BY DEF Accept
<1>2. stack = <<>> /\ Sig' = Sig
  BY <1>1, Known DEF Sig
<1> QED
  BY <1>1, <1>2 DEF Built, Building

-----------------------------------------------------------------------------
(***************************************************************************)
(* The whole parser.                                                       *)
(***************************************************************************)
\* Until ParseJson fails, what it has read is tracked and can go on to a JSON
\* text, what it has built is what that text says, and the value is there
\* once the text is read.
ParsingInv ==
  /\ IInv
  /\ pc # "rejected" => \E o, c : Tracked(o, c) /\ Built(o, c) /\ Readable
  /\ pc \in {"end", "accepted"} => value = Denotes[Sig]
  /\ RejectedIsNotJson

LEMMA ParsingStarts == Init => ParsingInv
<1> SUFFICES ASSUME Init PROVE ParsingInv
  OBVIOUS
<1>1. /\ text = <<>> /\ pc = "value" /\ stack = <<>> /\ built = <<>>
  BY DEF Init
<1>2. Sig = <<>> /\ Sig \in Text /\ Len(Sig) = 0
  <2>1. Significant[<<>>] = <<>> /\ <<>> \in Text
    BY SignificantEquation, EmptySeq DEF Text
  <2> QED
    BY <1>1, <2>1, EmptySeq DEF Sig
<1>3. Len(stack) = 0 /\ Len(built) = 0
  BY <1>1, EmptySeq
<1> DEFINE o == [l \in 1..0 |-> 0]
<1>4. o \in [1..Len(stack) -> 1..Len(Sig)]
  BY <1>2, <1>3
<1> HIDE DEF o
<1>5. Depth(Sig, Len(Sig) + 1) = 0
  BY <1>2, DepthStep
<1>6. \A l : l \notin 1..0 /\ l \notin 1..(0 - 1)
  OBVIOUS
<1>7. Brackets(Sig, stack, o) /\ Commas(Sig, stack, o, o)
  BY <1>2, <1>3, <1>4, <1>5, <1>6 DEF Brackets, Commas
<1>8. Progress(Sig, stack, o, o) /\ AtPlace(Sig, stack, o, o)
  BY <1>1, <1>2, <1>3, <1>6 DEF Progress, AtPlace
<1>9. Built(o, o)
  <2>1. built \in Seq({})
    BY <1>1, EmptySeq
  <2> QED
    BY <1>1, <1>3, <1>6, <2>1 DEF Built, Building
<1>10. Readable
  <2>1. DOMAIN Sig = {}
    BY <1>2
  <2> QED
    BY <2>1 DEF Readable, Viable
<1> QED
  BY <1>1, <1>7, <1>8, <1>9, <1>10, InitEstablishes DEF ParsingInv, Tracked, RejectedIsNotJson

\* Nothing happens once ParseJson has failed.
LEMMA RejectedStays ==
  ASSUME pc = "rejected", Next
  PROVE  UNCHANGED vars
  BY DEF Next, SkipWhitespace, ParseScalar, OpenContainer, CloseEmpty, EnterLoop, ParseKey,
         ParseColon, ParseComma, CloseContainer, Accept, Reject, Unexpected, Returned, Places

\* A step that does not fail keeps track of the text and of what is built.
LEMMA ParsingGoesOn ==
  ASSUME NEW o, NEW c, IInv, Tracked(o, c), Built(o, c), pc # "rejected", Next, ~Reject,
         ~Returned, pc \in {"end", "accepted"} => value = Denotes[Sig]
  PROVE  /\ \E p, d : Tracked(p, d)' /\ Built(p, d)'
         /\ pc' \in {"end", "accepted"} => value' = Denotes[Sig']
         /\ pc' # "rejected"
<1>1. CASE SkipWhitespace
  <2>1. pc' = pc /\ Sig' = Sig /\ value' = value
    BY <1>1, TrackWhitespace DEF SkipWhitespace
  <2>2. Tracked(o, c)' /\ Built(o, c)'
    BY <1>1, TrackWhitespace, BuiltWhitespace
  <2> QED
    BY <2>1, <2>2
<1>2. CASE ParseScalar
  <2>1. pc' \in {"after", "end"} /\ (pc' = "end" => value' = Denotes[Sig'])
    BY <1>2, BuiltScalar
  <2>2. Tracked(o, c)' /\ Built(o, c)'
    BY <1>2, TrackScalar, BuiltScalar
  <2> QED
    BY <2>1, <2>2
<1>3. CASE OpenContainer
  <2>1. pc' = "open"
    BY <1>3 DEF OpenContainer
  <2>2. \E p, d : Tracked(p, d)' /\ Built(p, d)'
    BY <1>3, TrackOpen, BuiltOpen
  <2> QED
    BY <2>1, <2>2
<1>4. CASE CloseEmpty \/ CloseContainer
  <2>1. pc' \in {"after", "end"} /\ (pc' = "end" => value' = Denotes[Sig'])
    BY <1>4, BuiltClose
  <2>2. \E p, d : Tracked(p, d)' /\ Built(p, d)'
    BY <1>4, TrackClose, BuiltClose
  <2> QED
    BY <2>1, <2>2
<1>5. CASE EnterLoop
  <2>1. pc' \in {"value", "key"}
    BY <1>5 DEF EnterLoop
  <2>2. Tracked(o, c)' /\ Built(o, c)'
    BY <1>5, TrackEnter, BuiltEnter
  <2> QED
    BY <2>1, <2>2
<1>6. CASE ParseKey
  <2>1. pc' = "keyed"
    BY <1>6 DEF ParseKey
  <2>2. Tracked(o, c)' /\ Built(o, c)'
    BY <1>6, TrackKey, BuiltKey
  <2> QED
    BY <2>1, <2>2
<1>7. CASE ParseColon
  <2>1. pc' = "value"
    BY <1>7 DEF ParseColon
  <2>2. Tracked(o, c)' /\ Built(o, c)'
    BY <1>7, TrackColon, BuiltColon
  <2> QED
    BY <2>1, <2>2
<1>8. CASE ParseComma
  <2>1. pc' \in {"value", "key"}
    BY <1>8 DEF ParseComma
  <2>2. \E d : Tracked(o, d)' /\ Built(o, d)'
    BY <1>8, TrackComma, BuiltComma
  <2> QED
    BY <2>1, <2>2
<1>9. CASE Accept
  <2>1. pc = "end" /\ pc' = "accepted" /\ value' = value /\ Sig' = Sig
    BY <1>9, TrackAccept DEF Accept
  <2>2. Tracked(o, c)' /\ Built(o, c)'
    BY <1>9, TrackAccept, BuiltAccept
  <2> QED
    BY <2>1, <2>2
<1> QED
  BY <1>1, <1>2, <1>3, <1>4, <1>5, <1>6, <1>7, <1>8, <1>9 DEF Next

LEMMA ParsingStep == ParsingInv /\ [Next]_vars => ParsingInv'
<1> SUFFICES ASSUME ParsingInv, [Next]_vars PROVE ParsingInv'
  OBVIOUS
<1>0. IInv /\ IInv'
  BY StepPreserves DEF ParsingInv
<1>1. CASE UNCHANGED vars
  <2>1. /\ text' = text /\ peek' = peek /\ pc' = pc
        /\ stack' = stack /\ built' = built /\ value' = value
    BY <1>1 DEF vars
  <2>2. Sig' = Sig
    BY <2>1 DEF Sig
  <2>3. \A o, c : Tracked(o, c) => Tracked(o, c)'
    BY <2>1, <2>2 DEF Tracked, AtPlace
  <2>4. \A o, c : Built(o, c) => Built(o, c)'
    BY <2>1, <2>2 DEF Built
  <2>5. Readable' = Readable
    BY <2>1, <2>2 DEF Readable, TooDeep
  <2>6. RejectedIsNotJson'
    BY <2>1 DEF ParsingInv, RejectedIsNotJson
  <2> QED
    BY <1>0, <2>1, <2>2, <2>3, <2>4, <2>5, <2>6 DEF ParsingInv
<1>2. CASE Next /\ ~ UNCHANGED vars
  <2>1. pc # "rejected" /\ ~Returned
    BY <1>2, RejectedStays DEF Returned
  <2>2. PICK o, c : Tracked(o, c) /\ Built(o, c) /\ Readable
    BY <2>1 DEF ParsingInv
  <2>3. CASE Reject
    <3>1. pc' = "rejected"
      BY <2>3 DEF Reject
    <3>2. RejectedIsNotJson'
      BY <1>0, <2>2, <2>3, RejectedWhenTracked
    <3> QED
      BY <1>0, <3>1, <3>2 DEF ParsingInv
  <2>4. CASE ~Reject
    <3>1. pc \in {"end", "accepted"} => value = Denotes[Sig]
      BY DEF ParsingInv
    <3>2. /\ \E p, d : Tracked(p, d)' /\ Built(p, d)'
          /\ pc' \in {"end", "accepted"} => value' = Denotes[Sig']
          /\ pc' # "rejected"
      BY <1>0, <1>2, <2>1, <2>2, <2>4, <3>1, ParsingGoesOn
    <3>3. Readable'
      BY <1>0, <1>2, <2>2, ReadableStays
    <3>4. RejectedIsNotJson'
      BY <3>2 DEF RejectedIsNotJson
    <3> QED
      BY <1>0, <3>2, <3>3, <3>4 DEF ParsingInv
  <2> QED
    BY <2>3, <2>4
<1> QED
  BY <1>1, <1>2

LEMMA ParsingIsExact == ParsingInv => ParsesExactlyJson
<1> SUFFICES ASSUME ParsingInv PROVE ParsesExactlyJson
  OBVIOUS
<1>1. AcceptedIsJson
  <2>1. CASE pc = "rejected"
    BY <2>1 DEF AcceptedIsJson
  <2>2. CASE pc # "rejected"
    <3>1. PICK o, c : Tracked(o, c) /\ Built(o, c) /\ Readable
      BY <2>2 DEF ParsingInv
    <3> QED
      BY <3>1, AcceptedWhenTracked DEF ParsingInv
  <2> QED
    BY <2>1, <2>2
<1>2. ValueIsDenoted
  BY DEF ParsingInv, ValueIsDenoted, Sig
<1>3. RejectedIsNotJson
  BY DEF ParsingInv
<1> QED
  BY <1>1, <1>2, <1>3 DEF ParsesExactlyJson

\* ParseJson accepts exactly the JSON texts that nest no deeper than
\* kMaximumJsonDepth, fails at the first wrong character of any other, and
\* returns the value that the text denotes, for texts of every length, every
\* depth limit and every set of strings and scalars.
THEOREM ParserExact == Spec => []ParsesExactlyJson
<1>1. Spec => []ParsingInv
  BY ParsingStarts, ParsingStep, PTL DEF Spec
<1> QED
  BY <1>1, ParsingIsExact, PTL
=============================================================================
