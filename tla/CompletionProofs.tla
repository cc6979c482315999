-------------------------- MODULE CompletionProofs --------------------------
(***************************************************************************)
(* Proofs for Completion, for every set of scenarios that satisfies        *)
(* ScenariosAssumption: contents of any length, in any number of pieces, and*)
(* responses that are cut anywhere.                                        *)
(*                                                                         *)
(* The steps of the specification need little: CompletionInv says where the*)
(* parts of a response come from.  What they are made of takes the rest: how*)
(* the loops read a string, how the searches find a key in a reply that may*)
(* end anywhere, and what is left of a response when the connection is cut.*)
(* The loops are recursive functions, so each is first given its equation at*)
(* one position; the facts about whole texts follow by induction from these.*)
(***************************************************************************)
EXTENDS FaithfulCompletion, RecursionLemmas, SequenceTheorems

-----------------------------------------------------------------------------
(***************************************************************************)
(* Recursion over a text.                                                  *)
(* The loops of JsonString and DeepSeekRuntime go forward over a text, so  *)
(* what they return at a position depends on the positions behind it.      *)
(***************************************************************************)
\* Positions of a text.
Positions == Nat \ {0}

(***************************************************************************)
(* The same for functions of the positions of a text that are defined from *)
(* the end: the value at a position depends on those behind it up to N.    *)
(***************************************************************************)
LookAhead(g, F) == \A i \in Positions : g[i] = F[<<g, i>>]

\* There is a function that each of its values defines from those behind it.
LEMMA BackwardRecursion ==
  ASSUME NEW V, NEW d \in V, NEW N \in Nat,
         NEW F \in [[Positions -> V] \X Positions -> V],
         \A g, h \in [Positions -> V], i \in Positions :
           (\A j \in (i+1)..N : g[j] = h[j]) => F[<<g, i>>] = F[<<h, i>>]
  PROVE  \E g \in [Positions -> V] : LookAhead(g, F)
<1> DEFINE Solves(g, n) == \A i \in Positions : i > N - n => g[i] = F[<<g, i>>]
           S == {n \in Nat : \E g \in [Positions -> V] : Solves(g, n)}
           Apply(g) == [i \in Positions |-> F[<<g, i>>]]
<1>1. ASSUME NEW g \in [Positions -> V] PROVE Apply(g) \in [Positions -> V]
  OBVIOUS
<1>2. ASSUME NEW g \in [Positions -> V], NEW i \in Positions,
             \A j \in (i+1)..N : Apply(g)[j] = g[j]
      PROVE  Apply(g)[i] = F[<<Apply(g), i>>]
  <2>1. Apply(g)[i] = F[<<g, i>>]
    OBVIOUS
  <2>2. Apply(g) \in [Positions -> V]
    BY <1>1
  <2>3. F[<<g, i>>] = F[<<Apply(g), i>>]
    <3> HIDE DEF Apply
    <3> QED
      BY <1>2, <2>2
  <2> QED
    BY <2>1, <2>3
<1>3. 0 \in S
  <2> DEFINE g0 == [i \in Positions |-> d]
  <2>1. g0 \in [Positions -> V]
    OBVIOUS
  <2> HIDE DEF g0
  <2>2. Solves(Apply(g0), 0)
    <3> SUFFICES ASSUME NEW i \in Positions, i > N - 0
                 PROVE  Apply(g0)[i] = F[<<Apply(g0), i>>]
      OBVIOUS
    <3>1. (i+1)..N = {}
      BY DEF Positions
    <3> QED
      BY <1>2, <2>1, <3>1
  <2>3. Apply(g0) \in [Positions -> V]
    BY <1>1, <2>1
  <2> HIDE DEF Apply, Solves
  <2> QED
    BY <2>2, <2>3
<1>4. \A n \in Nat : n \in S => n + 1 \in S
  <2> SUFFICES ASSUME NEW n \in Nat, n \in S PROVE n + 1 \in S
    OBVIOUS
  <2>1. PICK g \in [Positions -> V] : Solves(g, n)
    OBVIOUS
  <2>2. Solves(Apply(g), n + 1)
    <3> SUFFICES ASSUME NEW i \in Positions, i > N - (n + 1)
                 PROVE  Apply(g)[i] = F[<<Apply(g), i>>]
      OBVIOUS
    <3>1. ASSUME NEW j \in (i+1)..N PROVE Apply(g)[j] = g[j]
      <4>1. j \in Positions /\ j > N - n
        BY DEF Positions
      <4> QED
        BY <2>1, <4>1
    <3> HIDE DEF Apply
    <3> QED
      BY <1>2, <2>1, <3>1
  <2>3. Apply(g) \in [Positions -> V]
    BY <1>1, <2>1
  <2> HIDE DEF Apply, Solves
  <2> QED
    BY <2>2, <2>3
<1>5. N \in S
  <2> HIDE DEF S
  <2> QED
    BY <1>3, <1>4, NatSetInduction
<1>6. PICK g \in [Positions -> V] : Solves(g, N)
  BY <1>5
<1>7. \A i \in Positions : i > N - N
  BY DEF Positions
<1> QED
  BY <1>6, <1>7 DEF LookAhead

(***************************************************************************)
(* Two functions are equal when each value depends on those behind it.     *)
(***************************************************************************)
EqualIfBehind(g, h, N) ==
  \A i \in Positions : (\A j \in (i+1)..N : g[j] = h[j]) => g[i] = h[i]

\* Two such functions that are defined alike are equal.
LEMMA BackwardEqual ==
  ASSUME NEW N \in Nat, NEW g, NEW h, EqualIfBehind(g, h, N)
  PROVE  \A i \in Positions : g[i] = h[i]
<1> DEFINE S == {n \in Nat : \A i \in Positions : i > N - n => g[i] = h[i]}
<1>1. 0 \in S
  <2> SUFFICES ASSUME NEW i \in Positions, i > N PROVE g[i] = h[i]
    OBVIOUS
  <2>1. (i+1)..N = {}
    BY DEF Positions
  <2> QED
    BY <2>1 DEF EqualIfBehind
<1>2. \A n \in Nat : n \in S => n + 1 \in S
  <2> SUFFICES ASSUME NEW n \in Nat, n \in S PROVE n + 1 \in S
    OBVIOUS
  <2> SUFFICES ASSUME NEW i \in Positions, i > N - (n + 1) PROVE g[i] = h[i]
    OBVIOUS
  <2>1. ASSUME NEW j \in (i+1)..N PROVE g[j] = h[j]
    <3>1. j \in Positions /\ j > N - n
      BY DEF Positions
    <3> QED
      BY <3>1
  <2> QED
    BY <2>1 DEF EqualIfBehind
<1>3. N \in S
  <2> HIDE DEF S
  <2> QED
    BY <1>1, <1>2, NatSetInduction
<1>4. \A i \in Positions : i > N - N
  BY DEF Positions
<1> QED
  BY <1>3, <1>4

-----------------------------------------------------------------------------
\* What a loop over a text returns: NoText, or the value and where it ends.
Parsed == {r \in [ok : BOOLEAN, value : Seq(Nat), next : Nat] : r.ok \/ r = Fail}

\* Texts one after the other.
LEMMA NatSequences ==
  ASSUME NEW a \in Seq(Nat), NEW b \in Seq(Nat), NEW c \in Seq(Nat)
  PROVE  /\ a \o b \in Seq(Nat) /\ Len(a \o b) = Len(a) + Len(b)
         /\ \A i \in 1..Len(a) : (a \o b)[i] = a[i]
         /\ \A i \in 1..Len(b) : (a \o b)[Len(a) + i] = b[i]
         /\ (a \o b) \o c = a \o (b \o c)
         /\ <<>> \in Seq(Nat) /\ a \o <<>> = a /\ <<>> \o a = a
<1>1. (a \o b) \o c = a \o (b \o c)
  BY ConcatAssociative
<1>3. <<>> \in Seq(Nat)
  BY EmptySeq
<1>4. a \o <<>> = a /\ <<>> \o a = a
  BY ConcatEmptySeq
<1>2. a \o b \in Seq(Nat) /\ Len(a \o b) = Len(a) + Len(b)
      /\ \A i \in 1..(Len(a) + Len(b)) : (a \o b)[i] = IF i <= Len(a) THEN a[i] ELSE b[i - Len(a)]
  BY ConcatProperties
<1> QED
  BY <1>1, <1>2, <1>3, <1>4

\* Then puts bytes before what the rest of a loop returns, and keeps its failure.
LEMMA ThenLemma ==
  ASSUME NEW a \in Seq(Nat), NEW b \in Seq(Nat), NEW r \in Parsed
  PROVE  /\ Then(a, r) \in Parsed
         /\ Then(a, Then(b, r)) = Then(a \o b, r)
         /\ Then(<<>>, r) = r
         /\ Then(a, r).ok = r.ok
         /\ r.ok => Then(a, r).value = a \o r.value /\ Then(a, r).next = r.next
<1> DEFINE ok(v) == [ok |-> TRUE, value |-> v, next |-> r.next]
<1>1. Fail \in Parsed /\ ~Fail.ok
  BY DEF Fail, Parsed
<1>2. CASE ~r.ok
  BY <1>1, <1>2 DEF Then, Parsed
<1>3. CASE r.ok
  <2>1. r = ok(r.value) /\ r.value \in Seq(Nat) /\ r.next \in Nat
    BY <1>3 DEF Parsed
  <2>2. \A x, v \in Seq(Nat) : Then(x, ok(v)) = ok(x \o v)
    BY DEF Then
  <2>3. \A v \in Seq(Nat) : ok(v) \in Parsed /\ ok(v).ok /\ ok(v).value = v /\ ok(v).next = r.next
    BY <2>1 DEF Parsed
  <2>4. /\ a \o r.value \in Seq(Nat) /\ b \o r.value \in Seq(Nat) /\ a \o b \in Seq(Nat)
        /\ a \o (b \o r.value) = (a \o b) \o r.value /\ <<>> \o r.value = r.value
        /\ <<>> \in Seq(Nat)
    <3>1. /\ a \o b \in Seq(Nat) /\ (a \o b) \o r.value = a \o (b \o r.value)
          /\ <<>> \in Seq(Nat)
      BY ONLY <2>1, NatSequences, a \in Seq(Nat), b \in Seq(Nat), SMTT(30)
    <3>2. a \o r.value \in Seq(Nat) /\ b \o r.value \in Seq(Nat) /\ <<>> \o r.value = r.value
      BY ONLY <2>1, NatSequences, a \in Seq(Nat), b \in Seq(Nat)
    <3> QED
      BY <3>1, <3>2
  <2> HIDE DEF ok
  <2>5. Then(a, r) = ok(a \o r.value) /\ Then(b, r) = ok(b \o r.value) /\ Then(<<>>, r) = r
        /\ Then(a \o b, r) = ok((a \o b) \o r.value)
    BY <2>1, <2>2, <2>4
  <2>6. Then(a, Then(b, r)) = ok(a \o (b \o r.value))
    BY <2>2, <2>4, <2>5
  <2> QED
    BY <1>3, <2>3, <2>4, <2>5, <2>6
<1>4. r.ok \in BOOLEAN
  BY DEF Parsed
<1> QED
  BY <1>2, <1>3, <1>4

\* What Then returns is what a loop may return.
LEMMA ThenType ==
  ASSUME NEW a \in Seq(Nat), NEW r \in Parsed
  PROVE  Then(a, r) \in Parsed
BY ThenLemma

-----------------------------------------------------------------------------
(***************************************************************************)
(* ParseString, step by step.                                              *)
(***************************************************************************)
\* Two surrogates combine to a code point beyond the basic plane.
LEMMA CombineType ==
  ASSUME NEW high \in Nat, NEW low \in Nat, HighSurrogate(high), LowSurrogate(low)
  PROVE  Combine(high, low) \in Nat /\ Combine(high, low) \geq 65536
BY DEF Combine, HighSurrogate, LowSurrogate

\* A unicode escape that can be read is a code point, and ends behind its quad.
LEMMA EscapeType ==
  ASSUME NEW s \in Seq(Nat), NEW j \in Positions, UnicodeEscape(s, j).ok
  PROVE  /\ UnicodeEscape(s, j).code \in Nat
         /\ UnicodeEscape(s, j).next \in (j+1)..(Len(s)+1)
<1> DEFINE first == QuadValue(s, j)
           second == QuadValue(s, j + 3)
<1>1. QuadAt(s, j) /\ ~LowSurrogate(first)
  BY DEF UnicodeEscape, NoCode
<1>2. j \leq Len(s) /\ s[j] \in Nat /\ first \in Nat
  BY <1>1 DEF QuadAt, QuadValue, IsQuad, Positions, FirstQuad
<1>3. CASE ~HighSurrogate(first)
  <2>1. UnicodeEscape(s, j) = Code(first, j + 1)
    BY <1>1, <1>3 DEF UnicodeEscape
  <2> HIDE DEF first
  <2> QED
    BY <1>2, <2>1 DEF Code, Positions
<1>4. CASE HighSurrogate(first)
  <2>1. /\ QuadAt(s, j + 3) /\ LowSurrogate(second)
        /\ UnicodeEscape(s, j) = Code(Combine(first, second), j + 4)
    BY <1>1, <1>4 DEF UnicodeEscape, NoCode
  <2>2. j + 3 \leq Len(s)
    BY <2>1 DEF QuadAt
  <2>3. second \in Nat
    BY <2>1, <2>2 DEF QuadAt, QuadValue, IsQuad, Positions, FirstQuad
  <2> HIDE DEF first, second
  <2>4. Combine(first, second) \in Nat
    BY <1>2, <1>4, <2>1, <2>3, CombineType
  <2> QED
    BY <2>1, <2>2, <2>4 DEF Code, Positions
<1> QED
  BY <1>3, <1>4

\* AppendCodePoint appends bytes.
LEMMA CodePointType ==
  ASSUME NEW c \in Nat
  PROVE  AppendCodePoint(c) \in Seq(Nat)
<1> DEFINE k == c \div 64
           m == c \div 4096
           n == c \div 262144
<1>1. k \in Nat /\ m \in Nat /\ n \in Nat
  OBVIOUS
<1>2. \A x \in Nat : Continuation(x) \in Nat
  BY DEF Continuation
<1>3. AppendCodePoint(c) =
        IF c \leq 127 THEN <<c>>
        ELSE IF c \leq 2047 THEN <<192 + k, Continuation(c)>>
        ELSE IF c \leq 65535 THEN <<224 + m, Continuation(k), Continuation(c)>>
        ELSE <<240 + n, Continuation(m), Continuation(k), Continuation(c)>>
  BY DEF AppendCodePoint
<1> DEFINE p == Continuation(c)
           q == Continuation(k)
           r == Continuation(m)
<1>4. p \in Nat /\ q \in Nat /\ r \in Nat /\ 192 + k \in Nat /\ 224 + m \in Nat /\ 240 + n \in Nat
  BY <1>1, <1>2
<1> HIDE DEF k, m, n, p, q, r
<1>5. /\ <<c>> \in Seq(Nat) /\ <<192 + k, p>> \in Seq(Nat) /\ <<224 + m, q, p>> \in Seq(Nat)
      /\ <<240 + n, r, q, p>> \in Seq(Nat)
  BY <1>4
<1> QED
  BY <1>3, <1>5 DEF p, q, r

\* The loop of ParseString, one step of it: what it returns at a position, by what
\* stands there.  Each of its five failures and three ways to go on has a case.
LEMMA StringLoopEquation ==
  ASSUME NEW s \in Seq(Nat), NEW strict \in BOOLEAN, NEW i \in Positions
  PROVE  /\ StringLoop(s, i, strict) \in Parsed
         /\ StringLoop(s, i, strict) =
              IF i > Len(s) THEN Fail
              ELSE IF Is(s, i, Quote) THEN [ok |-> TRUE, value |-> <<>>, next |-> i + 1]
              ELSE IF strict /\ s[i] < 32 THEN Fail
              ELSE IF s[i] # Backslash
                   THEN Then(<<s[i]>>, StringLoop(s, i + 1, strict))
              ELSE IF i + 1 > Len(s) THEN Fail
              ELSE IF s[i + 1] \in DOMAIN ShortEscapes
                   THEN Then(<<ShortEscapes[s[i + 1]]>>, StringLoop(s, i + 2, strict))
              ELSE IF s[i + 1] = LetterU /\ UnicodeEscape(s, i + 2).ok
                   THEN Then(AppendCodePoint(UnicodeEscape(s, i + 2).code),
                             StringLoop(s, UnicodeEscape(s, i + 2).next, strict))
              ELSE Fail
<1> DEFINE N == Len(s) + 1
           Step(at, j) ==
              IF j > Len(s) THEN Fail
              ELSE IF Is(s, j, Quote) THEN [ok |-> TRUE, value |-> <<>>, next |-> j + 1]
              ELSE IF strict /\ s[j] < 32 THEN Fail
              ELSE IF s[j] # Backslash
                   THEN Then(<<s[j]>>, at[j + 1])
              ELSE IF j + 1 > Len(s) THEN Fail
              ELSE IF s[j + 1] \in DOMAIN ShortEscapes
                   THEN Then(<<ShortEscapes[s[j + 1]]>>, at[j + 2])
              ELSE IF s[j + 1] = LetterU /\ UnicodeEscape(s, j + 2).ok
                   THEN Then(AppendCodePoint(UnicodeEscape(s, j + 2).code),
                             at[UnicodeEscape(s, j + 2).next])
              ELSE Fail
           F == [p \in [Positions -> Parsed] \X Positions |-> Step(p[1], p[2])]
           Eq(at) == at = [j \in Positions |-> Step(at, j)]
           u == CHOOSE at : Eq(at)
<1>1. N \in Nat
  OBVIOUS
<1>2. Fail \in Parsed
  BY DEF Fail, Parsed
<1>3. \A c \in DOMAIN ShortEscapes : <<ShortEscapes[c]>> \in Seq(Nat)
  BY DEF ShortEscapes
<1>4. ASSUME NEW at \in [Positions -> Parsed], NEW j \in Positions
      PROVE  Step(at, j) \in Parsed
  <2>1. CASE j > Len(s)
    BY <1>2, <2>1
  <2>2. CASE j \leq Len(s)
    <3>1. s[j] \in Nat /\ <<s[j]>> \in Seq(Nat) /\ at[j + 1] \in Parsed /\ at[j + 2] \in Parsed
      BY <2>2 DEF Positions
    <3>2. [ok |-> TRUE, value |-> <<>>, next |-> j + 1] \in Parsed
      BY DEF Parsed, Positions
    <3>3. Then(<<s[j]>>, at[j + 1]) \in Parsed
      BY <3>1, ThenLemma
    <3>4. s[j + 1] \in DOMAIN ShortEscapes =>
            Then(<<ShortEscapes[s[j + 1]]>>, at[j + 2]) \in Parsed
      BY <3>1, <1>3, ThenLemma
    <3>5. ASSUME UnicodeEscape(s, j + 2).ok
          PROVE Then(AppendCodePoint(UnicodeEscape(s, j + 2).code),
                             at[UnicodeEscape(s, j + 2).next]) \in Parsed
      <4>1. UnicodeEscape(s, j + 2).code \in Nat /\ UnicodeEscape(s, j + 2).next \in Positions
        <5>1. j + 2 \in Positions
          BY DEF Positions
        <5> QED
          BY <3>5, <5>1, EscapeType DEF Positions
      <4> QED
        BY <4>1, CodePointType, ThenLemma
    <3> QED
      BY <1>2, <2>2, <3>2, <3>3, <3>4, <3>5
  <2> QED
    BY <2>1, <2>2 DEF Positions
<1>5. F \in [[Positions -> Parsed] \X Positions -> Parsed]
  <2> HIDE DEF Step
  <2> QED
    BY <1>4
<1>6. ASSUME NEW g, NEW h, NEW j \in Positions, \A k \in (j+1)..N : g[k] = h[k]
      PROVE  Step(g, j) = Step(h, j)
  <2>1. CASE j > Len(s)
    BY <2>1
  <2>2. CASE j \leq Len(s)
    <3>1. g[j + 1] = h[j + 1] /\ (j + 1 \leq Len(s) => g[j + 2] = h[j + 2])
      BY <1>6, <2>2, SMTT(30) DEF Positions
    <3>2. UnicodeEscape(s, j + 2).ok =>
            g[UnicodeEscape(s, j + 2).next] = h[UnicodeEscape(s, j + 2).next]
      <4>1. j + 2 \in Positions
        BY DEF Positions
      <4>2. UnicodeEscape(s, j + 2).ok => UnicodeEscape(s, j + 2).next \in (j+1)..N
        BY <4>1, EscapeType DEF Positions
      <4> QED
        BY <4>2, <1>6
    <3>3. CASE j + 1 > Len(s)
      BY <3>1, <3>3
    <3>4. CASE j + 1 \leq Len(s)
      BY <3>1, <3>2, <3>4
    <3> QED
      BY <3>3, <3>4 DEF Positions
  <2> QED
    BY <2>1, <2>2 DEF Positions
<1>7. \E g \in [Positions -> Parsed] : LookAhead(g, F)
  <2>1. ASSUME NEW g \in [Positions -> Parsed], NEW j \in Positions
        PROVE  F[<<g, j>>] = Step(g, j)
    <3> HIDE DEF Step
    <3> QED
      OBVIOUS
  <2>2. \A g, h \in [Positions -> Parsed], j \in Positions :
          (\A k \in (j+1)..N : g[k] = h[k]) => F[<<g, j>>] = F[<<h, j>>]
    <3> HIDE DEF F, Step, N
    <3> QED
      BY <1>6, <2>1
  <2> HIDE DEF F, N
  <2> QED
    BY <1>1, <1>2, <1>5, <2>2, BackwardRecursion
<1>8. PICK g \in [Positions -> Parsed] : \A j \in Positions : g[j] = Step(g, j)
  <2>1. PICK g \in [Positions -> Parsed] : LookAhead(g, F)
    BY <1>7
  <2>2. \A j \in Positions : F[<<g, j>>] = Step(g, j)
    <3> HIDE DEF Step
    <3> QED
      OBVIOUS
  <2> HIDE DEF F, Step
  <2> QED
    BY <2>1, <2>2 DEF LookAhead
<1>9. Eq(g)
  <2> HIDE DEF Step
  <2> QED
    BY <1>8
<1>10. \A j \in Positions : u[j] = Step(u, j)
  <2>1. Eq(u)
    <3> HIDE DEF Step
    <3> QED
      BY <1>9
  <2> HIDE DEF Step, u
  <2> QED
    BY <2>1
<1>11. \A j \in Positions : u[j] = g[j]
  <2>1. EqualIfBehind(u, g, N)
    <3> HIDE DEF Step, u, N
    <3> QED
      BY <1>6, <1>8, <1>10 DEF EqualIfBehind
  <2> HIDE DEF u, N
  <2> QED
    BY ONLY <1>1, <2>1, BackwardEqual
<1>12. StringLoop(s, i, strict) = u[i]
  BY DEF StringLoop, Positions
<1>13. u[i] \in Parsed
  BY <1>11
<1>14. u[i] = Step(u, i)
  <2> HIDE DEF Step, u
  <2> QED
    BY <1>10
<1>15. StringLoop(s, i, strict) \in Parsed
  BY <1>12, <1>13
<1>16. /\ StringLoop(s, i + 1, strict) = u[i + 1] /\ StringLoop(s, i + 2, strict) = u[i + 2]
       /\ \A j : StringLoop(s, j, strict) = u[j]
  BY DEF StringLoop, Positions
<1> HIDE DEF u
<1> QED
  BY <1>12, <1>14, <1>15, <1>16

-----------------------------------------------------------------------------
(***************************************************************************)
(* JsonStringValue, step by step, and First.                               *)
(***************************************************************************)
\* The loop of JsonStringValue in the same way, without its escapes.
LEMMA PlainStringEquation ==
  ASSUME NEW s \in Seq(Nat), NEW i \in Positions
  PROVE  /\ PlainString(s, i) \in Parsed
         /\ i > Len(s) => PlainString(s, i) = Fail
         /\ Is(s, i, Quote) =>
              PlainString(s, i) = [ok |-> TRUE, value |-> <<>>, next |-> i + 1]
         /\ i \leq Len(s) /\ s[i] \notin {Quote, Backslash} =>
              PlainString(s, i) = Then(<<s[i]>>, PlainString(s, i + 1))
<1> DEFINE N == Len(s) + 1
           named == [c \in {110, 114, 116} |->
                  CASE c = 110 -> 10 [] c = 114 -> 13 [] c = 116 -> 9]
           Step(at, j) ==
             CASE j > Len(s) -> Fail
               [] Is(s, j, Quote) -> [ok |-> TRUE, value |-> <<>>, next |-> j + 1]
               [] Is(s, j, Backslash) /\ j < Len(s) ->
                    Then(<<IF s[j + 1] \in DOMAIN named THEN named[s[j + 1]]
                                                   ELSE s[j + 1]>>, at[j + 2])
               [] Is(s, j, Backslash) /\ j = Len(s) -> Fail
               [] OTHER -> Then(<<s[j]>>, at[j + 1])
           F == [p \in [Positions -> Parsed] \X Positions |-> Step(p[1], p[2])]
           Eq(at) == at = [j \in Positions |-> Step(at, j)]
           u == CHOOSE at : Eq(at)
           letter(c) == IF c \in DOMAIN named THEN named[c] ELSE c
<1>1. N \in Nat
  OBVIOUS
<1>2. Fail \in Parsed
  BY DEF Fail, Parsed
<1>3. \A c \in Nat : <<letter(c)>> \in Seq(Nat)
  OBVIOUS
<1>4. ASSUME NEW at, NEW j \in Positions
      PROVE  /\ j > Len(s) => Step(at, j) = Fail
             /\ Is(s, j, Quote) => Step(at, j) = [ok |-> TRUE, value |-> <<>>, next |-> j + 1]
             /\ j < Len(s) /\ s[j] = Backslash =>
                  Step(at, j) = Then(<<letter(s[j + 1])>>, at[j + 2])
             /\ j = Len(s) /\ s[j] = Backslash => Step(at, j) = Fail
             /\ j \leq Len(s) /\ s[j] \notin {Quote, Backslash} =>
                  Step(at, j) = Then(<<s[j]>>, at[j + 1])
  <2> HIDE DEF named
  <2> QED
    BY DEF Positions, Is, Quote, Backslash
<1> HIDE DEF Step, named
<1>5. ASSUME NEW at \in [Positions -> Parsed], NEW j \in Positions
      PROVE  Step(at, j) \in Parsed
  <2>1. CASE j > Len(s) \/ (j = Len(s) /\ s[j] = Backslash)
    BY <1>2, <1>4, <2>1
  <2>2. CASE j < Len(s) /\ s[j] = Backslash
    <3>1. s[j + 1] \in Nat /\ at[j + 2] \in Parsed
      BY <2>2 DEF Positions
    <3> HIDE DEF letter
    <3> QED
      BY <1>3, <1>4, <2>2, <3>1, ThenType
  <2>3. CASE j \leq Len(s) /\ s[j] = Quote
    <3>1. Is(s, j, Quote) /\ [ok |-> TRUE, value |-> <<>>, next |-> j + 1] \in Parsed
      BY <2>3 DEF Is, Parsed, Positions
    <3> QED
      BY <1>4, <3>1
  <2>4. CASE j \leq Len(s) /\ s[j] \notin {Quote, Backslash}
    <3>1. <<s[j]>> \in Seq(Nat) /\ at[j + 1] \in Parsed
      BY <2>4 DEF Positions
    <3> QED
      BY <1>4, <2>4, <3>1, ThenType
  <2> QED
    BY <2>1, <2>2, <2>3, <2>4 DEF Positions
<1>6. ASSUME NEW g, NEW h, NEW j \in Positions, \A k \in (j+1)..N : g[k] = h[k]
      PROVE  Step(g, j) = Step(h, j)
  <2>1. CASE j > Len(s) \/ (j = Len(s) /\ s[j] = Backslash)
    BY <1>4, <2>1
  <2>2. CASE j < Len(s) /\ s[j] = Backslash
    <3>1. g[j + 2] = h[j + 2]
      BY <1>6, <2>2 DEF Positions
    <3> HIDE DEF letter
    <3> QED
      BY <1>4, <2>2, <3>1
  <2>3. CASE j \leq Len(s) /\ s[j] = Quote
    BY <1>4, <2>3 DEF Is
  <2>4. CASE j \leq Len(s) /\ s[j] \notin {Quote, Backslash}
    <3>1. g[j + 1] = h[j + 1]
      BY <1>6, <2>4 DEF Positions
    <3> QED
      BY <1>4, <2>4, <3>1
  <2> QED
    BY <2>1, <2>2, <2>3, <2>4 DEF Positions
<1>7. \E g \in [Positions -> Parsed] : LookAhead(g, F)
  <2>1. ASSUME NEW g \in [Positions -> Parsed], NEW j \in Positions
        PROVE  F[<<g, j>>] = Step(g, j)
    OBVIOUS
  <2>2. \A g, h \in [Positions -> Parsed], j \in Positions :
          (\A k \in (j+1)..N : g[k] = h[k]) => F[<<g, j>>] = F[<<h, j>>]
    <3> SUFFICES ASSUME NEW g \in [Positions -> Parsed], NEW h \in [Positions -> Parsed],
                        NEW j \in Positions, \A k \in (j+1)..N : g[k] = h[k]
                 PROVE  F[<<g, j>>] = F[<<h, j>>]
      BY Zenon
    <3>1. Step(g, j) = Step(h, j)
      BY <1>6
    <3> HIDE DEF F
    <3> QED
      BY <2>1, <3>1
  <2>3. F \in [[Positions -> Parsed] \X Positions -> Parsed]
    BY <1>5
  <2> HIDE DEF F, N
  <2> QED
    BY <1>1, <1>2, <2>2, <2>3, BackwardRecursion
<1>8. PICK g \in [Positions -> Parsed] : \A j \in Positions : g[j] = Step(g, j)
  <2>1. PICK g \in [Positions -> Parsed] : LookAhead(g, F)
    BY <1>7
  <2>2. \A j \in Positions : F[<<g, j>>] = Step(g, j)
    OBVIOUS
  <2> HIDE DEF F
  <2> QED
    BY <2>1, <2>2 DEF LookAhead
<1>9. Eq(g)
  BY <1>8
<1>10. \A j \in Positions : u[j] = Step(u, j)
  <2>1. Eq(u)
    BY <1>9
  <2> HIDE DEF u
  <2> QED
    BY <2>1
<1>11. \A j \in Positions : u[j] = g[j]
  <2>1. EqualIfBehind(u, g, N)
    <3> HIDE DEF u, N
    <3> QED
      BY <1>6, <1>8, <1>10 DEF EqualIfBehind
  <2> HIDE DEF u, N
  <2> QED
    BY ONLY <1>1, <2>1, BackwardEqual
<1>12. PlainString(s, i) = u[i] /\ PlainString(s, i + 1) = u[i + 1]
  BY DEF PlainString, Positions, Step, named
<1>13. u[i] \in Parsed
  BY <1>11
<1>14. u[i] = Step(u, i)
  <2> HIDE DEF u
  <2> QED
    BY <1>10
<1> HIDE DEF u
<1> QED
  BY <1>4, <1>12, <1>13, <1>14

-----------------------------------------------------------------------------
(***************************************************************************)
(* First is the least of a set of positions.                               *)
(***************************************************************************)
LEMMA FirstLemma ==
  ASSUME NEW S, S \subseteq Nat
  PROVE  /\ S # {} => First(S) \in S /\ \A i \in S : First(S) \leq i
         /\ \A i \in S : (\A j \in S : i \leq j) => First(S) = i
<1> SUFFICES ASSUME S # {}
             PROVE  /\ First(S) \in S /\ \A i \in S : First(S) \leq i
                    /\ \A i \in S : (\A j \in S : i \leq j) => First(S) = i
  BY DEF First
<1> DEFINE Least(i) == \A j \in S : i \leq j
<1>1. \E i \in S : Least(i)
  <2> SUFFICES ASSUME \A i \in S : ~Least(i) PROVE FALSE
    OBVIOUS
  <2> DEFINE T == {n \in Nat : \A m \in 0..n : m \notin S}
  <2>1. 0 \in T
    <3> SUFFICES ASSUME 0 \in S PROVE FALSE
      OBVIOUS
    <3> QED
      OBVIOUS
  <2>2. \A n \in Nat : n \in T => n + 1 \in T
    <3> SUFFICES ASSUME NEW n \in Nat, n \in T, n + 1 \in S PROVE FALSE
      OBVIOUS
    <3>1. Least(n + 1)
      OBVIOUS
    <3> HIDE DEF T, Least
    <3> QED
      BY <3>1
  <2>3. Nat \subseteq T
    <3> HIDE DEF T
    <3> QED
      BY <2>1, <2>2, NatSetInduction
  <2>4. ASSUME NEW i \in S PROVE FALSE
    <3>1. i \in T /\ i \in 0..i
      BY <2>3
    <3> QED
      BY <3>1
  <2> QED
    BY <2>4
<1>2. First(S) = CHOOSE i \in S : Least(i)
  BY DEF First
<1>3. First(S) \in S /\ Least(First(S))
  <2> HIDE DEF Least
  <2> QED
    BY <1>1, <1>2
<1>4. First(S) \in S /\ \A j \in S : First(S) \leq j
  BY <1>3
<1>5. ASSUME NEW i \in S, \A j \in S : i \leq j PROVE First(S) = i
  <2>1. First(S) \leq i /\ i \leq First(S) /\ First(S) \in Nat /\ i \in Nat
    BY <1>4, <1>5
  <2> QED
    BY <2>1
<1> QED
  BY <1>4, <1>5

\* First of no positions is npos.
LEMMA FirstNone ==
  First({}) = 0
BY DEF First

-----------------------------------------------------------------------------
(***************************************************************************)
(* Concat, and where its parts stand.                                      *)
(***************************************************************************)
\* c[n] is what the first n parts make.
Joins(c, parts) ==
  /\ c \in [0..Len(parts) -> Seq(Nat)]
  /\ c[0] = <<>>
  /\ \A n \in 1..Len(parts) : c[n] = c[n-1] \o parts[n]

\* Concat is the last of the texts that its loop makes, part by part.
LEMMA ConcatLemma ==
  ASSUME NEW parts \in Seq(Seq(Nat))
  PROVE  \E c : Joins(c, parts) /\ Concat(parts) = c[Len(parts)]
<1> DEFINE N == Len(parts)
           V == Seq(Nat)
           F == [p \in V \X (1..N) |-> p[1] \o parts[p[2]]]
           Eq(f) == f = [n \in 0..N |-> IF n = 0 THEN <<>> ELSE f[n-1] \o parts[n]]
           u == CHOOSE f : Eq(f)
<1>1. <<>> \in V /\ N \in Nat
  OBVIOUS
<1>2. \A a \in V, n \in 1..N : F[<<a, n>>] = a \o parts[n] /\ a \o parts[n] \in V
  <2>1. ASSUME NEW a \in V, NEW n \in 1..N PROVE a \o parts[n] \in V
    <3>1. parts[n] \in Seq(Nat)
      BY <1>1
    <3> QED
      BY <3>1, NatSequences
  <2> QED
    BY <2>1
<1>3. F \in [V \X (1..N) -> V]
  BY <1>2
<1>4. PICK g : Iterates(g, <<>>, F, V, N)
  <2> HIDE DEF F, N, V
  <2> QED
    BY <1>1, <1>3, FiniteRecursion
<1>5. g \in [0..N -> V] /\ g[0] = <<>> /\ \A n \in 1..N : g[n] = g[n-1] \o parts[n]
  <2>1. \A n \in 1..N : g[n] = F[<<g[n-1], n>>]
    BY <1>4 DEF Iterates
  <2>2. g \in [0..N -> V] /\ g[0] = <<>>
    BY <1>4 DEF Iterates
  <2> HIDE DEF F, V, N
  <2>3. ASSUME NEW n \in 1..N PROVE g[n-1] \in V
    <3>1. n - 1 \in 0..N
      BY <1>1
    <3> QED
      BY <2>2, <3>1
  <2> QED
    BY <1>2, <2>1, <2>2, <2>3
<1>6. Eq(u)
  <2>1. Eq(g)
    <3> HIDE DEF N, V
    <3>1. ASSUME NEW n \in 0..N
          PROVE  g[n] = IF n = 0 THEN <<>> ELSE g[n-1] \o parts[n]
      <4>1. n = 0 \/ n \in 1..N
        BY <1>1
      <4> QED
        BY <1>1, <1>5, <4>1
    <3> QED
      BY <1>5, <3>1
  <2> QED
    BY <2>1
<1>7. Concat(parts) = u[N]
  BY DEF Concat
<1>8. u[0] = <<>> /\ \A n \in 1..N : u[n] = u[n-1] \o parts[n]
  <2> HIDE DEF u, N
  <2>1. \A n \in 0..N : u[n] = IF n = 0 THEN <<>> ELSE u[n-1] \o parts[n]
    BY <1>6
  <2>2. 0 \in 0..N /\ \A n \in 1..N : n \in 0..N /\ n # 0
    BY <1>1
  <2> QED
    BY <2>1, <2>2
<1>9. \A n \in 0..N : u[n] = g[n]
  <2> DEFINE S == {n \in 0..N : u[n] = g[n]}
  <2>1. 0 \in S
    BY <1>1, <1>5, <1>8
  <2>2. ASSUME NEW n \in 1..N, n - 1 \in S PROVE n \in S
    <3>1. n \in 0..N /\ u[n-1] = g[n-1]
      BY <1>1, <2>2, SMTT(30)
    <3>2. u[n] = g[n]
      BY <1>5, <1>8, <3>1
    <3> QED
      BY <3>1, <3>2
  <2>3. 0..N \subseteq S
    <3> HIDE DEF S, N
    <3> QED
      BY <1>1, <2>1, <2>2, IntervalInduction
  <2> QED
    BY <2>3
<1>10. N \in 0..N
  BY <1>1
<1>11. Concat(parts) = g[N]
  BY <1>7, <1>9, <1>10
<1> QED
  BY <1>5, <1>11 DEF Joins

\* What Concat returns is a text.
LEMMA ConcatType ==
  ASSUME NEW parts \in Seq(Seq(Nat))
  PROVE  Concat(parts) \in Seq(Nat)
<1>1. PICK c : Joins(c, parts) /\ Concat(parts) = c[Len(parts)]
  BY ConcatLemma
<1>2. Len(parts) \in 0..Len(parts)
  OBVIOUS
<1> QED
  BY <1>1, <1>2 DEF Joins

-----------------------------------------------------------------------------
\* The text t stands in s from position p on.
Occurs(s, p, t) ==
  p + Len(t) \leq Len(s) + 1 /\ \A k \in 1..Len(t) : s[p + k - 1] = t[k]

\* Where two texts stand one after the other, each of them stands.
LEMMA OccursConcat ==
  ASSUME NEW s \in Seq(Nat), NEW a \in Seq(Nat), NEW b \in Seq(Nat), NEW p \in Positions,
         Occurs(s, p, a \o b)
  PROVE  Occurs(s, p, a) /\ Occurs(s, p + Len(a), b)
<1>1. /\ Len(a \o b) = Len(a) + Len(b) /\ \A i \in 1..Len(a) : (a \o b)[i] = a[i]
      /\ \A i \in 1..Len(b) : (a \o b)[Len(a) + i] = b[i]
  BY NatSequences
<1> DEFINE t == a \o b
           m == Len(a)
           n == Len(b)
<1>2. m \in Nat /\ n \in Nat
  OBVIOUS
<1>3. /\ p + (m + n) \leq Len(s) + 1 /\ \A k \in 1..(m + n) : s[p + k - 1] = t[k]
      /\ \A i \in 1..m : t[i] = a[i]
      /\ \A i \in 1..n : t[m + i] = b[i]
  BY <1>1 DEF Occurs
<1> HIDE DEF t, m, n
<1>4. ASSUME NEW k \in 1..m PROVE s[p + k - 1] = a[k]
  BY <1>2, <1>3
<1>5. ASSUME NEW k \in 1..n PROVE s[(p + m) + k - 1] = b[k]
  <2>1. m + k \in 1..(m + n) /\ p + (m + k) - 1 = (p + m) + k - 1
    BY <1>2 DEF Positions
  <2> QED
    BY <1>3, <2>1
<1>6. p + m \leq Len(s) + 1 /\ (p + m) + n \leq Len(s) + 1
  BY <1>2, <1>3 DEF Positions
<1> QED
  BY <1>4, <1>5, <1>6 DEF Occurs, m, n

\* The parts stand one behind the other from position p of s.
Aligned(s, p, c, parts) ==
  \A n \in 1..Len(parts) : /\ Occurs(s, p + Len(c[n-1]), parts[n])
                           /\ Len(c[n]) = Len(c[n-1]) + Len(parts[n])

\* Where the parts stand that a loop has put together, each of them stands.
LEMMA OccursParts ==
  ASSUME NEW s \in Seq(Nat), NEW parts \in Seq(Seq(Nat)), NEW p \in Positions,
         NEW c, Joins(c, parts), Occurs(s, p, c[Len(parts)])
  PROVE  Aligned(s, p, c, parts)
<1> DEFINE N == Len(parts)
           S == {m \in 0..N : Occurs(s, p, c[N-m])}
<1>1. N \in Nat
  OBVIOUS
<1>2. \A n \in 1..N : /\ c[n-1] \in Seq(Nat) /\ parts[n] \in Seq(Nat)
                      /\ c[n] = c[n-1] \o parts[n]
  <2> SUFFICES ASSUME NEW n \in 1..N
               PROVE  /\ c[n-1] \in Seq(Nat) /\ parts[n] \in Seq(Nat)
                      /\ c[n] = c[n-1] \o parts[n]
    OBVIOUS
  <2>1. n - 1 \in 0..N
    BY <1>1
  <2>2. parts[n] \in Seq(Nat)
    OBVIOUS
  <2> QED
    BY <2>1, <2>2 DEF Joins
<1>3. ASSUME NEW n \in 1..N, Occurs(s, p, c[n])
      PROVE  Occurs(s, p, c[n-1]) /\ Occurs(s, p + Len(c[n-1]), parts[n])
  <2>1. Occurs(s, p, c[n-1] \o parts[n])
    BY <1>2, <1>3
  <2> QED
    BY <1>2, <2>1, OccursConcat
<1>4. 0 \in S
  OBVIOUS
<1>5. ASSUME NEW m \in 1..N, m - 1 \in S PROVE m \in S
  <2>1. N - (m-1) \in 1..N /\ (N - (m-1)) - 1 = N - m
    BY <1>1
  <2>2. Occurs(s, p, c[N - (m-1)])
    BY <1>5
  <2>3. Occurs(s, p, c[N - m])
    BY <1>3, <2>1, <2>2
  <2> QED
    BY <2>3
<1>6. 0..N \subseteq S
  <2> HIDE DEF S, N
  <2> QED
    BY <1>1, <1>4, <1>5, IntervalInduction
<1>7. ASSUME NEW n \in 1..N PROVE Occurs(s, p, c[n])
  <2>1. N - n \in S /\ N - (N - n) = n
    <3> HIDE DEF S, N
    <3> QED
      BY <1>1, <1>6
  <2> QED
    BY <2>1
<1>8. ASSUME NEW n \in 1..N PROVE Len(c[n]) = Len(c[n-1]) + Len(parts[n])
  <2>1. c[n-1] \in Seq(Nat) /\ parts[n] \in Seq(Nat) /\ c[n] = c[n-1] \o parts[n]
    BY <1>2
  <2> QED
    BY <2>1, NatSequences
<1> QED
  BY <1>3, <1>7, <1>8 DEF Aligned

-----------------------------------------------------------------------------
(***************************************************************************)
(* UTF-8.                                                                  *)
(***************************************************************************)
\* Texts of up to three characters are their characters.
LEMMA ShortSequence ==
  ASSUME NEW b \in Seq(Nat)
  PROVE  /\ Len(b) \geq 1 => b[1] \in Nat
         /\ Len(b) \geq 2 => b[2] \in Nat
         /\ Len(b) \geq 3 => b[3] \in Nat
         /\ Len(b) = 1 => b = <<b[1]>>
         /\ Len(b) = 2 => b = <<b[1], b[2]>>
         /\ Len(b) = 3 => b = <<b[1], b[2], b[3]>>
OBVIOUS

\* AppendCodePoint writes the shortest UTF-8 form of a code point of the basic plane.
LEMMA Utf8Lemma ==
  ASSUME NEW b \in Seq(Nat), NEW v \in Nat, IsUtf8(b, v)
  PROVE  AppendCodePoint(v) = b
<1>1. CASE Len(b) = 1 /\ v \leq 127 /\ b[1] = v
  <2>1. b = <<v>>
    BY <1>1
  <2> QED
    BY <1>1, <2>1 DEF AppendCodePoint
<1>2. CASE /\ Len(b) = 2 /\ Within(v, 128, 2047)
           /\ Within(b[1], 192, 223) /\ Within(b[2], 128, 191)
           /\ (b[1] - 192) * 64 + (b[2] - 128) = v
  <2>1. b[1] \in Nat /\ b[2] \in Nat /\ b = <<b[1], b[2]>>
    <3>1. Len(b) = 2
      BY <1>2
    <3> QED
      BY ONLY <3>1, b \in Seq(Nat), ShortSequence
  <2> DEFINE x == b[1] - 192
             y == b[2] - 128
  <2>2. /\ x \in Int /\ 0 \leq x /\ y \in Int /\ 0 \leq y /\ y \leq 63 /\ v = x * 64 + y
        /\ b[1] = 192 + x /\ b[2] = 128 + y
    <3>1. v = x * 64 + y
      BY <1>2
    <3>2. Within(b[1], 192, 223) /\ Within(b[2], 128, 191)
      BY <1>2
    <3>3. /\ x \in Int /\ 0 \leq x /\ y \in Int /\ 0 \leq y /\ y \leq 63
          /\ b[1] = 192 + x /\ b[2] = 128 + y
      BY ONLY <2>1, <3>2 DEF Within
    <3> QED
      BY <3>1, <3>3
  <2> HIDE DEF x, y
  <2>3. v \div 64 = x /\ v % 64 = y
    BY <2>2
  <2>4. AppendCodePoint(v) = <<192 + (v \div 64), 128 + (v % 64)>>
    BY <1>2 DEF AppendCodePoint, Continuation, Within
  <2> QED
    BY <2>1, <2>2, <2>3, <2>4
<1>3. CASE /\ Len(b) = 3 /\ Within(v, 2048, 65535)
           /\ Within(b[1], 224, 239) /\ Within(b[2], 128, 191) /\ Within(b[3], 128, 191)
           /\ (b[1] - 224) * 4096 + (b[2] - 128) * 64 + (b[3] - 128) = v
  <2>1. b[1] \in Nat /\ b[2] \in Nat /\ b[3] \in Nat /\ b = <<b[1], b[2], b[3]>>
    <3>1. Len(b) = 3
      BY <1>3
    <3> QED
      BY ONLY <3>1, b \in Seq(Nat), ShortSequence
  <2> DEFINE x == b[1] - 224
             y == b[2] - 128
             z == b[3] - 128
  <2>2. /\ x \in Int /\ 0 \leq x /\ y \in Int /\ 0 \leq y /\ y \leq 63
        /\ z \in Int /\ 0 \leq z /\ z \leq 63
        /\ b[1] = 224 + x /\ b[2] = 128 + y /\ b[3] = 128 + z
    <3>1. Within(b[1], 224, 239) /\ Within(b[2], 128, 191) /\ Within(b[3], 128, 191)
      BY <1>3
    <3> QED
      BY ONLY <2>1, <3>1 DEF Within
  <2>3. v = x * 4096 + y * 64 + z
    BY <1>3
  <2> HIDE DEF x, y, z
  <2>4. v \div 64 = x * 64 + y /\ v % 64 = z
    <3>1. v = 64 * (x * 64 + y) + z
      BY ONLY <2>2, <2>3
    <3> DEFINE n == x * 64 + y
    <3>2. n \in Int
      BY ONLY <2>2
    <3>3. v = 64 * n + z
      BY <3>1
    <3> HIDE DEF n
    <3>4. v \div 64 = n /\ v % 64 = z
      BY ONLY <2>2, <3>2, <3>3
    <3> QED
      BY <3>4 DEF n
  <2>5. v \div 4096 = x
    <3> DEFINE n == y * 64 + z
    <3>1. n \in Int /\ 0 \leq n /\ n \leq 4095
      BY ONLY <2>2
    <3>2. v = 4096 * x + n
      BY <2>2, <2>3
    <3> HIDE DEF n
    <3> QED
      BY ONLY <2>2, <3>1, <3>2
  <2>6. (v \div 64) % 64 = y
    <3>1. (x * 64 + y) % 64 = y
      BY ONLY <2>2
    <3> QED
      BY <2>4, <3>1
  <2>7. AppendCodePoint(v) = <<224 + (v \div 4096), 128 + ((v \div 64) % 64), 128 + (v % 64)>>
    <3>1. v > 2047 /\ v \leq 65535
      BY <1>3 DEF Within
    <3> QED
      BY <3>1 DEF AppendCodePoint, Continuation
  <2>8. AppendCodePoint(v) = <<224 + x, 128 + y, 128 + z>>
    <3> DEFINE p == v \div 4096
               q == (v \div 64) % 64
               r == v % 64
    <3>1. p = x /\ q = y /\ r = z
      BY <2>4, <2>5, <2>6
    <3>2. AppendCodePoint(v) = <<224 + p, 128 + q, 128 + r>>
      BY <2>7
    <3> HIDE DEF p, q, r
    <3> QED
      BY <3>1, <3>2
  <2>9. b = <<224 + x, 128 + y, 128 + z>>
    BY ONLY <2>1, <2>2
  <2> QED
    BY <2>8, <2>9
<1> QED
  BY <1>1, <1>2, <1>3 DEF IsUtf8

\* Combine and AppendCodePoint make of two surrogates what their bits spell.
LEMMA PairedLemma ==
  ASSUME NEW high \in Nat, NEW low \in Nat, HighSurrogate(high), LowSurrogate(low)
  PROVE  /\ AppendCodePoint(Combine(high, low)) = Paired(high, low)
         /\ Paired(high, low) \in Seq(Nat)
<1> DEFINE h == high - 55296
           l == low - 56320
           c == Combine(high, low)
           a == h \div 64
           x == (h % 64) \div 4
           y == h % 4
           z == l \div 64
           w == l % 64
<1>1. /\ h \in Int /\ 0 \leq h /\ h \leq 1023 /\ l \in Int /\ 0 \leq l /\ l \leq 1023
      /\ c = 65536 + h * 1024 + l
  BY DEF Combine, HighSurrogate, LowSurrogate
<1> HIDE DEF h, l, c
<1>2. /\ a \in Int /\ 0 \leq a /\ a \leq 15 /\ x \in Int /\ 0 \leq x /\ x \leq 15
      /\ y \in Int /\ 0 \leq y /\ y \leq 3 /\ h = 64 * a + 4 * x + y
  BY <1>1
<1>3. /\ z \in Int /\ 0 \leq z /\ z \leq 15 /\ w \in Int /\ 0 \leq w /\ w \leq 63
      /\ l = 64 * z + w
  BY <1>1
<1>4. Paired(high, low) =
        <<240 + (a + 1) \div 4, 128 + ((a + 1) % 4) * 16 + x, 128 + y * 16 + z, 128 + w>>
  BY DEF Paired, h, l
<1> HIDE DEF a, x, y, z, w
<1>5. c = 65536 * (a + 1) + 4096 * x + 1024 * y + 64 * z + w
  BY <1>1, <1>2, <1>3
<1>6. c \in Nat /\ c \geq 65536
  BY <1>1
<1>7. AppendCodePoint(c) =
        <<240 + (c \div 262144), 128 + ((c \div 4096) % 64), 128 + ((c \div 64) % 64),
          128 + (c % 64)>>
  BY <1>6 DEF AppendCodePoint, Continuation
<1>8. c \div 64 = 1024 * (a + 1) + 64 * x + 16 * y + z /\ c % 64 = w
  BY <1>2, <1>3, <1>5
<1>9. c \div 4096 = 16 * (a + 1) + x
  BY <1>2, <1>3, <1>5
<1>10. c \div 262144 = (a + 1) \div 4
  BY <1>2, <1>3, <1>5
<1>11. (1024 * (a + 1) + 64 * x + 16 * y + z) % 64 = 16 * y + z
  BY <1>2, <1>3
<1>12. (16 * (a + 1) + x) % 64 = ((a + 1) % 4) * 16 + x
  BY <1>2
<1>13. AppendCodePoint(c) = Paired(high, low)
  <2>1. /\ 240 + (c \div 262144) = 240 + (a + 1) \div 4
        /\ 128 + ((c \div 4096) % 64) = 128 + ((a + 1) % 4) * 16 + x
        /\ 128 + ((c \div 64) % 64) = 128 + y * 16 + z
        /\ 128 + (c % 64) = 128 + w
    BY <1>2, <1>3, <1>8, <1>9, <1>10, <1>11, <1>12
  <2> QED
    BY <1>4, <1>7, <2>1
<1>14. Paired(high, low) \in Seq(Nat)
  BY <1>6, <1>13, CodePointType
<1> QED
  BY <1>13, <1>14 DEF c

-----------------------------------------------------------------------------
(***************************************************************************)
(* StringLoop on one spelling.                                             *)
(***************************************************************************)
\* The characters of a spelling of up to three characters, in s from p on.
Stands(s, p, raw) ==
  /\ Len(raw) = 1 => p \leq Len(s) /\ s[p] = raw[1] /\ raw = <<raw[1]>> /\ raw[1] \in Nat
  /\ Len(raw) = 2 => p + 1 \leq Len(s) /\ s[p] = raw[1] /\ s[p + 1] = raw[2]
  /\ Len(raw) = 3 => /\ p + 2 \leq Len(s) /\ p + 1 \leq Len(s) /\ s[p] = raw[1]
                     /\ s[p + 1] = raw[2] /\ s[p + 2] = raw[3] /\ raw[3] \in Nat

\* A spelling that stands in s is there character by character.
LEMMA OccursShort ==
  ASSUME NEW s \in Seq(Nat), NEW p \in Positions, NEW raw \in Seq(Nat), Occurs(s, p, raw)
  PROVE  Stands(s, p, raw)
<1> DEFINE n == Len(raw)
<1>1. n \in Nat /\ p + n \leq Len(s) + 1 /\ \A k \in 1..n : s[p + k - 1] = raw[k]
  BY DEF Occurs
<1> HIDE DEF n
<1>2. n \geq 1 => p \leq Len(s) /\ s[p + 1 - 1] = raw[1]
  BY <1>1 DEF Positions
<1>3. n \geq 2 => p + 1 \leq Len(s) /\ s[p + 2 - 1] = raw[2]
  BY <1>1 DEF Positions
<1>4. n \geq 3 => p + 2 \leq Len(s) /\ s[p + 3 - 1] = raw[3]
  BY <1>1 DEF Positions
<1>5. p + 1 - 1 = p /\ p + 2 - 1 = p + 1 /\ p + 3 - 1 = p + 2
  BY DEF Positions
<1>6. /\ n = 1 => raw = <<raw[1]>> /\ raw[1] \in Nat
      /\ n = 3 => raw[3] \in Nat
  BY ShortSequence DEF n
<1> HIDE DEF n
<1>7. p \in Nat
  BY DEF Positions
<1> QED
  BY <1>1, <1>2, <1>3, <1>4, <1>5, <1>6, <1>7, SMTT(30) DEF n, Stands

\* The letters that may follow a backslash are those of ShortEscapes.
LEMMA LetterLemma ==
  ASSUME NEW c, NEW d, <<c, d>> \in Letters
  PROVE  c \in DOMAIN ShortEscapes /\ ShortEscapes[c] = d
BY DEF Letters, ShortEscapes

\* ShortEscapes has no other letters.
LEMMA LetteredLemma ==
  DOMAIN ShortEscapes = Lettered
<1>1. Lettered = {34, 92, 47, 98, 102, 110, 114, 116}
  BY DEF Letters, Lettered
<1> QED
  BY <1>1 DEF ShortEscapes

\* What the loop does at a character, at a short escape and at \u.
LEMMA CharacterRead ==
  ASSUME NEW s \in Seq(Nat), NEW strict \in BOOLEAN, NEW p \in Positions,
         p \leq Len(s), s[p] \notin {34, 92}
  PROVE  StringLoop(s, p, strict) =
           IF strict /\ s[p] < 32 THEN Fail ELSE Then(<<s[p]>>, StringLoop(s, p + 1, strict))
<1>1. ~(p > Len(s)) /\ ~Is(s, p, Quote) /\ s[p] # Backslash
  BY DEF Positions, Is, Quote, Backslash
<1> QED
  BY <1>1, StringLoopEquation

\* What StringLoop does at a backslash with a character behind it.
LEMMA EscapeRead ==
  ASSUME NEW s \in Seq(Nat), NEW strict \in BOOLEAN, NEW p \in Positions,
         p + 1 \leq Len(s), s[p] = 92
  PROVE  /\ s[p + 1] \in DOMAIN ShortEscapes =>
              StringLoop(s, p, strict) =
                Then(<<ShortEscapes[s[p + 1]]>>, StringLoop(s, p + 2, strict))
         /\ s[p + 1] = 117 /\ UnicodeEscape(s, p + 2).ok =>
              StringLoop(s, p, strict) =
                Then(AppendCodePoint(UnicodeEscape(s, p + 2).code),
                     StringLoop(s, UnicodeEscape(s, p + 2).next, strict))
         /\ s[p + 1] \notin DOMAIN ShortEscapes
            /\ ~(s[p + 1] = 117 /\ UnicodeEscape(s, p + 2).ok) =>
              StringLoop(s, p, strict) = Fail
<1>1. ~(p > Len(s)) /\ ~(p + 1 > Len(s)) /\ ~Is(s, p, Quote) /\ s[p] = Backslash
      /\ ~(strict /\ s[p] < 32)
  BY DEF Positions, Is, Quote, Backslash
<1>2. LetterU = 117
  BY DEF LetterU
<1>3. 117 \notin DOMAIN ShortEscapes
  BY DEF ShortEscapes
<1> DEFINE escaped == UnicodeEscape(s, p + 2)
           short == Then(<<ShortEscapes[s[p + 1]]>>, StringLoop(s, p + 2, strict))
           long == Then(AppendCodePoint(escaped.code), StringLoop(s, escaped.next, strict))
           plain == Then(<<s[p]>>, StringLoop(s, p + 1, strict))
           end == [ok |-> TRUE, value |-> <<>>, next |-> p + 1]
<1>4. StringLoop(s, p, strict) =
              IF p > Len(s) THEN Fail
              ELSE IF Is(s, p, Quote) THEN end
              ELSE IF strict /\ s[p] < 32 THEN Fail
              ELSE IF s[p] # Backslash THEN plain
              ELSE IF p + 1 > Len(s) THEN Fail
              ELSE IF s[p + 1] \in DOMAIN ShortEscapes THEN short
              ELSE IF s[p + 1] = LetterU /\ escaped.ok THEN long
              ELSE Fail
  BY StringLoopEquation
<1> SUFFICES /\ s[p + 1] \in DOMAIN ShortEscapes => StringLoop(s, p, strict) = short
             /\ s[p + 1] = 117 /\ escaped.ok => StringLoop(s, p, strict) = long
             /\ s[p + 1] \notin DOMAIN ShortEscapes /\ ~(s[p + 1] = 117 /\ escaped.ok) =>
                  StringLoop(s, p, strict) = Fail
  OBVIOUS
<1> HIDE DEF escaped, short, long, plain, end
<1>5. StringLoop(s, p, strict) =
              IF s[p + 1] \in DOMAIN ShortEscapes THEN short
              ELSE IF s[p + 1] = LetterU /\ escaped.ok THEN long
              ELSE Fail
  BY ONLY <1>1, <1>4
<1> QED
  BY <1>2, <1>3, <1>5

\* StringLoop ends at a quote.
LEMMA QuoteRead ==
  ASSUME NEW s \in Seq(Nat), NEW strict \in BOOLEAN, NEW p \in Positions,
         p \leq Len(s), s[p] = 34
  PROVE  StringLoop(s, p, strict) = [ok |-> TRUE, value |-> <<>>, next |-> p + 1]
<1>1. ~(p > Len(s)) /\ Is(s, p, Quote)
  BY DEF Positions, Is, Quote
<1> QED
  BY <1>1, StringLoopEquation

\* StringLoop takes the code point of a unicode escape.
LEMMA UnicodeRead ==
  ASSUME NEW s \in Seq(Nat), NEW strict \in BOOLEAN, NEW p \in Positions,
         p + 1 \leq Len(s), s[p] = 92, s[p + 1] = 117,
         NEW c, NEW q, UnicodeEscape(s, p + 2) = Code(c, q)
  PROVE  StringLoop(s, p, strict) = Then(AppendCodePoint(c), StringLoop(s, q, strict))
<1>1. UnicodeEscape(s, p + 2).ok /\ UnicodeEscape(s, p + 2).code = c
      /\ UnicodeEscape(s, p + 2).next = q
  BY DEF Code
<1>2. s[p + 1] = 117 /\ UnicodeEscape(s, p + 2).ok =>
              StringLoop(s, p, strict) =
                Then(AppendCodePoint(UnicodeEscape(s, p + 2).code),
                     StringLoop(s, UnicodeEscape(s, p + 2).next, strict))
  BY EscapeRead
<1> QED
  BY <1>1, <1>2

\* StringLoop fails at a backslash that no escape begins with.
LEMMA EscapeFails ==
  ASSUME NEW s \in Seq(Nat), NEW strict \in BOOLEAN, NEW p \in Positions,
         p + 1 \leq Len(s), s[p] = 92, s[p + 1] \notin DOMAIN ShortEscapes,
         s[p + 1] = 117 => ~UnicodeEscape(s, p + 2).ok
  PROVE  StringLoop(s, p, strict) = Fail
<1>1. s[p + 1] \notin DOMAIN ShortEscapes
      /\ ~(s[p + 1] = 117 /\ UnicodeEscape(s, p + 2).ok) =>
        StringLoop(s, p, strict) = Fail
  BY EscapeRead
<1> QED
  BY <1>1

\* StringLoop fails at a unicode escape that cannot be read.
LEMMA UnicodeFails ==
  ASSUME NEW s \in Seq(Nat), NEW strict \in BOOLEAN, NEW p \in Positions,
         p + 1 \leq Len(s), s[p] = 92, s[p + 1] = 117, ~UnicodeEscape(s, p + 2).ok
  PROVE  StringLoop(s, p, strict) = Fail
<1>1. 117 \notin DOMAIN ShortEscapes
  BY DEF ShortEscapes
<1> QED
  BY <1>1, EscapeFails

\* StringLoop takes the byte of a short escape.
LEMMA ShortRead ==
  ASSUME NEW s \in Seq(Nat), NEW strict \in BOOLEAN, NEW p \in Positions,
         p + 1 \leq Len(s), s[p] = 92, NEW c, <<s[p + 1], c>> \in Letters
  PROVE  StringLoop(s, p, strict) = Then(<<c>>, StringLoop(s, p + 2, strict))
<1>1. s[p + 1] \in DOMAIN ShortEscapes /\ ShortEscapes[s[p + 1]] = c
  BY LetterLemma
<1> QED
  BY <1>1, EscapeRead

-----------------------------------------------------------------------------
\* StringLoop takes what a spelling by itself stands for, and goes on behind it.
LEMMA PlainRead ==
  ASSUME NEW s \in Seq(Nat), NEW strict \in BOOLEAN, NEW p \in Positions,
         NEW raw \in Seq(Nat), NEW bytes \in Seq(Nat), Spells(raw, bytes), Occurs(s, p, raw)
  PROVE  StringLoop(s, p, strict) = Then(bytes, StringLoop(s, p + Len(raw), strict))
<1>0. Stands(s, p, raw)
  BY OccursShort
<1>1. CASE Len(raw) = 1 /\ bytes = raw /\ raw[1] \geq 32 /\ raw[1] \notin {34, 92}
  <2>1. p \leq Len(s) /\ s[p] = raw[1] /\ raw = <<raw[1]>> /\ raw[1] \in Nat
    BY <1>0, <1>1 DEF Stands
  <2>2. StringLoop(s, p, strict) = Then(<<s[p]>>, StringLoop(s, p + 1, strict))
    BY <1>1, <2>1, CharacterRead
  <2> QED
    BY <1>1, <2>1, <2>2
<1>2. CASE Len(raw) = 2 /\ Len(bytes) = 1 /\ raw[1] = 92 /\ <<raw[2], bytes[1]>> \in Letters
  <2>1. p + 1 \leq Len(s) /\ s[p] = 92 /\ s[p + 1] = raw[2]
    BY <1>0, <1>2 DEF Stands
  <2>4. bytes = <<bytes[1]>>
    BY <1>2, ShortSequence
  <2>2. <<s[p + 1], bytes[1]>> \in Letters
    BY <1>2, <2>1
  <2>3. StringLoop(s, p, strict) = Then(<<bytes[1]>>, StringLoop(s, p + 2, strict))
    BY <2>1, <2>2, ShortRead
  <2> QED
    BY <1>2, <2>3, <2>4
<1>3. CASE /\ Len(raw) = 3 /\ raw[1] = 92 /\ raw[2] = 117 /\ IsQuad(raw[3])
           /\ ~HighSurrogate(raw[3] - FirstQuad) /\ ~LowSurrogate(raw[3] - FirstQuad)
           /\ IsUtf8(bytes, raw[3] - FirstQuad)
  <2> DEFINE v == raw[3] - FirstQuad
  <2>1. /\ p + 2 \leq Len(s) /\ p + 1 \leq Len(s)
        /\ s[p] = 92 /\ s[p + 1] = 117 /\ s[p + 2] = raw[3] /\ raw[3] \in Nat
    BY <1>0, <1>3 DEF Stands
  <2>2. v \in Nat
    <3>1. IsQuad(raw[3]) /\ raw[3] \in Nat
      BY <1>3, <2>1
    <3>2. raw[3] \geq 65536 /\ v = raw[3] - 65536
      BY <3>1 DEF IsQuad, FirstQuad
    <3> HIDE DEF v
    <3> QED
      BY ONLY <3>1, <3>2
  <2>3. UnicodeEscape(s, p + 2) = Code(v, p + 3)
    <3>1. QuadAt(s, p + 2) /\ QuadValue(s, p + 2) = v
      BY <1>3, <2>1 DEF QuadAt, QuadValue
    <3>2. (p + 2) + 1 = p + 3
      BY DEF Positions
    <3> QED
      BY <1>3, <3>1, <3>2 DEF UnicodeEscape
  <2>4. AppendCodePoint(v) = bytes
    BY <1>3, <2>2, Utf8Lemma
  <2> HIDE DEF v
  <2>5. StringLoop(s, p, strict) = Then(bytes, StringLoop(s, p + 3, strict))
    BY <2>1, <2>3, <2>4, UnicodeRead, SMTT(30)
  <2> QED
    BY <1>3, <2>5
<1> QED
  BY <1>1, <1>2, <1>3 DEF Spells

\* StringLoop fails at what no string may contain.
LEMMA BadRead ==
  ASSUME NEW s \in Seq(Nat), NEW strict \in BOOLEAN, NEW p \in Positions,
         NEW raw \in Seq(Nat), SpellsNothing(raw), Occurs(s, p, raw)
  PROVE  StringLoop(s, p, strict) = Fail
<1>0. Stands(s, p, raw)
  BY OccursShort
<1>1. CASE Len(raw) = 2 /\ raw[1] = 92 /\ raw[2] \notin Lettered \cup {117}
  <2>1. p + 1 \leq Len(s) /\ s[p] = 92 /\ s[p + 1] = raw[2]
    BY <1>0, <1>1 DEF Stands
  <2> QED
    <3>1. s[p + 1] \notin DOMAIN ShortEscapes /\ s[p + 1] # 117
      BY <1>1, <2>1, LetteredLemma
    <3> QED
      BY <2>1, <3>1, EscapeFails
<1>2. CASE Len(raw) = 3 /\ raw[1] = 92 /\ raw[2] = 117 /\ ~IsQuad(raw[3])
  <2>1. p + 1 \leq Len(s) /\ s[p] = 92 /\ s[p + 1] = 117 /\ s[p + 2] = raw[3]
    BY <1>0, <1>2 DEF Stands
  <2>2. ~UnicodeEscape(s, p + 2).ok
    BY <1>2, <2>1 DEF UnicodeEscape, QuadAt, NoCode
  <2> QED
    BY <2>1, <2>2, UnicodeFails
<1> QED
  BY <1>1, <1>2 DEF SpellsNothing

\* The escape of a surrogate stands at p.
SurrogateAt(s, p, v) ==
  p + 2 \leq Len(s) /\ s[p] = 92 /\ s[p + 1] = 117 /\ s[p + 2] = Quad(v)

\* The quad of a low surrogate stands in s from p on.
LowAt(s, p) == \E v \in Nat : LowSurrogate(v) /\ SurrogateAt(s, p, v)

\* The quad behind the backslash and the letter of a surrogate.
LEMMA QuadLemma ==
  ASSUME NEW s \in Seq(Nat), NEW p \in Positions, NEW v \in Nat, SurrogateAt(s, p, v),
         HighSurrogate(v) \/ LowSurrogate(v)
  PROVE  QuadAt(s, p + 2) /\ QuadValue(s, p + 2) = v
<1>1. p + 2 \leq Len(s) /\ s[p + 2] = 65536 + v
  BY DEF SurrogateAt, Quad, FirstQuad
<1> QED
  BY <1>1 DEF QuadAt, QuadValue, IsQuad, FirstQuad, HighSurrogate, LowSurrogate

\* StringLoop fails at a low surrogate that comes first.
LEMMA LowRead ==
  ASSUME NEW s \in Seq(Nat), NEW strict \in BOOLEAN, NEW p \in Positions, LowAt(s, p)
  PROVE  StringLoop(s, p, strict) = Fail
<1>1. PICK v \in Nat : LowSurrogate(v) /\ SurrogateAt(s, p, v)
  BY DEF LowAt
<1>2. QuadAt(s, p + 2) /\ QuadValue(s, p + 2) = v
  BY <1>1, QuadLemma
<1>3. ~UnicodeEscape(s, p + 2).ok
  BY <1>1, <1>2 DEF UnicodeEscape, NoCode
<1>4. p + 1 \leq Len(s) /\ s[p] = 92 /\ s[p + 1] = 117
  BY <1>1 DEF SurrogateAt, Positions
<1> QED
  BY <1>3, <1>4, UnicodeFails

\* StringLoop takes a high surrogate together with a low one, or fails.
LEMMA HighRead ==
  ASSUME NEW s \in Seq(Nat), NEW strict \in BOOLEAN, NEW p \in Positions,
         NEW v \in Nat, HighSurrogate(v), SurrogateAt(s, p, v)
  PROVE  /\ ~LowAt(s, p + 3) => StringLoop(s, p, strict) = Fail
         /\ \A w \in Nat : LowSurrogate(w) /\ SurrogateAt(s, p + 3, w) =>
              StringLoop(s, p, strict) = Then(Paired(v, w), StringLoop(s, p + 6, strict))
<1>1. QuadAt(s, p + 2) /\ QuadValue(s, p + 2) = v
  BY QuadLemma
<1>2. p + 1 \leq Len(s) /\ s[p] = 92 /\ s[p + 1] = 117
  BY DEF SurrogateAt, Positions
<1>3. ~LowSurrogate(v)
  BY DEF HighSurrogate, LowSurrogate
<1>4. (p + 2) + 1 = p + 3 /\ (p + 2) + 2 = p + 4 /\ (p + 2) + 3 = p + 5 /\ (p + 2) + 4 = p + 6
      /\ (p + 3) + 1 = p + 4 /\ (p + 3) + 2 = p + 5 /\ p + 3 \in Positions
  BY DEF Positions
<1> DEFINE paired == /\ Is(s, p + 3, Backslash) /\ Is(s, p + 4, LetterU)
                     /\ QuadAt(s, p + 5) /\ LowSurrogate(QuadValue(s, p + 5))
<1>5. UnicodeEscape(s, p + 2) =
        IF paired THEN Code(Combine(v, QuadValue(s, p + 5)), p + 6) ELSE NoCode
  BY <1>1, <1>3, <1>4 DEF UnicodeEscape
<1>6. ASSUME ~LowAt(s, p + 3) PROVE StringLoop(s, p, strict) = Fail
  <2>1. ~paired
    <3> SUFFICES ASSUME paired PROVE LowAt(s, p + 3)
      BY <1>6
    <3> DEFINE w == QuadValue(s, p + 5)
    <3>1. p + 5 \leq Len(s) /\ s[p + 5] \in Nat /\ s[p + 5] \geq 65536
      BY DEF QuadAt, IsQuad, FirstQuad, Positions
    <3>2. w \in Nat /\ s[p + 5] = Quad(w)
      BY <3>1 DEF QuadValue, Quad, FirstQuad
    <3>3. LowSurrogate(w) /\ s[p + 3] = 92 /\ s[p + 4] = 117
      BY DEF Is, Backslash, LetterU
    <3> HIDE DEF w, paired
    <3>4. SurrogateAt(s, p + 3, w)
      <4>1. (p + 3) + 2 = p + 5 /\ (p + 3) + 1 = p + 4
        BY DEF Positions
      <4>2. (p + 3) + 2 \leq Len(s) /\ s[(p + 3) + 1] = 117 /\ s[(p + 3) + 2] = Quad(w)
        BY ONLY <3>1, <3>2, <3>3, <4>1, SMTT(30)
      <4>3. s[p + 3] = 92
        BY <3>3
      <4> QED
        BY ONLY <4>2, <4>3 DEF SurrogateAt
    <3> QED
      BY <3>2, <3>3, <3>4 DEF LowAt
  <2>2. ~UnicodeEscape(s, p + 2).ok
    BY <1>5, <2>1 DEF NoCode
  <2> QED
    BY <1>2, <2>2, UnicodeFails
<1>7. ASSUME NEW w \in Nat, LowSurrogate(w), SurrogateAt(s, p + 3, w)
      PROVE  StringLoop(s, p, strict) = Then(Paired(v, w), StringLoop(s, p + 6, strict))
  <2>1. QuadAt(s, p + 5) /\ QuadValue(s, p + 5) = w
    BY <1>4, <1>7, QuadLemma
  <2>2. p + 4 \leq Len(s) /\ p + 3 \leq Len(s) /\ s[p + 3] = 92 /\ s[p + 4] = 117
    BY <1>4, <1>7 DEF SurrogateAt, Positions
  <2>3. paired
    BY <1>7, <2>1, <2>2 DEF Is, Backslash, LetterU
  <2>4. UnicodeEscape(s, p + 2) = Code(Combine(v, w), p + 6)
    BY <1>5, <2>1, <2>3
  <2>5. AppendCodePoint(Combine(v, w)) = Paired(v, w)
    BY <1>7, PairedLemma
  <2> HIDE DEF paired
  <2> QED
    BY <1>2, <2>4, <2>5, UnicodeRead
<1> QED
  BY <1>6, <1>7

-----------------------------------------------------------------------------
(***************************************************************************)
(* Contents.                                                               *)
(***************************************************************************)
\* The raw characters and the value of half a pair.
LEMMA HalfLemma ==
  ASSUME NEW u \in [kind : {"plain", "control", "high", "low", "bad"},
                    raw : Seq(Nat), bytes : Seq(Nat)],
         NEW k, u = Half(k, u.bytes[1])
  PROVE  /\ u.bytes[1] \in Nat /\ u.bytes = <<u.bytes[1]>>
         /\ u.raw = <<92, 117, Quad(u.bytes[1])>>
<1>1. u.bytes = <<u.bytes[1]>> /\ u.raw = <<92, 117, Quad(u.bytes[1])>>
  BY DEF Half
<1>2. u.bytes \in Seq(Nat)
  OBVIOUS
<1> QED
  BY <1>1, <1>2

\* What a unit of each kind is.
LEMMA UnitFacts ==
  ASSUME NEW u \in Spellings
  PROVE  /\ u.kind \in {"plain", "control", "high", "low", "bad"}
         /\ u.raw \in Seq(Nat) /\ u.bytes \in Seq(Nat)
         /\ u.kind = "plain" => Spells(u.raw, u.bytes)
         /\ u.kind = "control" =>
              /\ u.bytes[1] \in Nat /\ u.bytes[1] < 32
              /\ u.raw = <<u.bytes[1]>> /\ u.bytes = <<u.bytes[1]>>
         /\ u.kind \in {"high", "low"} =>
              u.bytes[1] \in Nat /\ u.raw = <<92, 117, Quad(u.bytes[1])>>
         /\ u.kind = "high" => HighSurrogate(u.bytes[1])
         /\ u.kind = "low" => LowSurrogate(u.bytes[1])
         /\ u.kind = "bad" => SpellsNothing(u.raw)
<1> DEFINE v == u.bytes[1]
<1>1. /\ u \in [kind : {"plain", "control", "high", "low", "bad"},
                raw : Seq(Nat), bytes : Seq(Nat)]
      /\ \/ u.kind = "plain" /\ Spells(u.raw, u.bytes)
         \/ u.kind = "control" /\ v < 32 /\ u = Control(v)
         \/ u.kind = "high" /\ HighSurrogate(v) /\ u = Half("high", v)
         \/ u.kind = "low" /\ LowSurrogate(v) /\ u = Half("low", v)
         \/ u.kind = "bad" /\ SpellsNothing(u.raw)
  BY DEF Spellings
<1>2. u.raw \in Seq(Nat) /\ u.bytes \in Seq(Nat)
  BY <1>1
<1>3. CASE u.kind = "plain" /\ Spells(u.raw, u.bytes)
  BY <1>2, <1>3
<1>4. CASE u.kind = "control" /\ v < 32 /\ u = Control(v)
  <2>1. u.raw = <<v>> /\ u.bytes = <<v>>
    BY <1>4 DEF Control
  <2>2. v \in Nat
    BY <1>2, <2>1
  <2> QED
    BY <1>2, <1>4, <2>1, <2>2
<1>5. CASE u.kind = "high" /\ HighSurrogate(v) /\ u = Half("high", v)
  BY <1>1, <1>2, <1>5, HalfLemma
<1>6. CASE u.kind = "low" /\ LowSurrogate(v) /\ u = Half("low", v)
  BY <1>1, <1>2, <1>6, HalfLemma
<1>7. CASE u.kind = "bad" /\ SpellsNothing(u.raw)
  BY <1>2, <1>7
<1> QED
  BY <1>1, <1>3, <1>4, <1>5, <1>6, <1>7

\* The spellings of units, and what each of them adds to the text.
RawParts(us) == [i \in DOMAIN us |-> us[i].raw]

\* A first half adds what the pair means, a second half nothing.
Meanings(us) ==
  [i \in DOMAIN us |->
     IF us[i].kind \in {"plain", "control"} THEN us[i].bytes
     ELSE IF IsFirst(us, i) THEN Paired(us[i].bytes[1], us[i + 1].bytes[1])
     ELSE <<>>]

\* The parts of a content and what they mean are texts.
LEMMA PartsType ==
  ASSUME NEW us \in Seq(Spellings)
  PROVE  /\ RawParts(us) \in Seq(Seq(Nat)) /\ Len(RawParts(us)) = Len(us)
         /\ Meanings(us) \in Seq(Seq(Nat)) /\ Len(Meanings(us)) = Len(us)
         /\ Raw(us) = Concat(RawParts(us)) /\ Denoted(us) = Concat(Meanings(us))
         /\ Raw(us) \in Seq(Nat) /\ Denoted(us) \in Seq(Nat)
<1> DEFINE N == Len(us)
<1>1. N \in Nat /\ DOMAIN us = 1..N /\ \A i \in 1..N : us[i] \in Spellings
  OBVIOUS
<1> HIDE DEF N
<1>2. \A i \in 1..N : RawParts(us)[i] \in Seq(Nat)
  BY <1>1, UnitFacts DEF RawParts
<1>3. ASSUME NEW i \in 1..N PROVE Meanings(us)[i] \in Seq(Nat)
  <2>1. CASE us[i].kind \in {"plain", "control"}
    <3>1. Meanings(us)[i] = us[i].bytes
      BY <1>1, <2>1 DEF Meanings
    <3> QED
      BY <1>1, <3>1, UnitFacts
  <2>2. CASE us[i].kind \notin {"plain", "control"} /\ IsFirst(us, i)
    <3>1. i + 1 \in 1..N /\ us[i].kind = "high" /\ us[i + 1].kind = "low"
      BY <1>1, <2>2 DEF IsFirst, N
    <3>2. /\ us[i].bytes[1] \in Nat /\ HighSurrogate(us[i].bytes[1])
          /\ us[i + 1].bytes[1] \in Nat /\ LowSurrogate(us[i + 1].bytes[1])
      BY <1>1, <3>1, UnitFacts
    <3>3. Paired(us[i].bytes[1], us[i + 1].bytes[1]) \in Seq(Nat)
      BY <3>2, PairedLemma
    <3> QED
      BY <1>1, <2>2, <3>3 DEF Meanings
  <2>3. CASE us[i].kind \notin {"plain", "control"} /\ ~IsFirst(us, i)
    <3>1. Meanings(us)[i] = <<>>
      BY <1>1, <2>3 DEF Meanings
    <3> QED
      BY <3>1
  <2> QED
    BY <2>1, <2>2, <2>3
<1>4. RawParts(us) = [i \in 1..N |-> RawParts(us)[i]]
  BY <1>1 DEF RawParts
<1>5. Meanings(us) = [i \in 1..N |-> Meanings(us)[i]]
  BY <1>1 DEF Meanings
<1>6. RawParts(us) \in Seq(Seq(Nat)) /\ Len(RawParts(us)) = N
  BY <1>1, <1>2, <1>4
<1>7. Meanings(us) \in Seq(Seq(Nat)) /\ Len(Meanings(us)) = N
  BY <1>1, <1>3, <1>5
<1>8. Raw(us) = Concat(RawParts(us)) /\ Denoted(us) = Concat(Meanings(us))
  BY DEF Raw, RawParts, Denoted, Meanings
<1> QED
  BY <1>6, <1>7, <1>8, ConcatType DEF N

\* No other unit looks like a low surrogate.
LEMMA NotLow ==
  ASSUME NEW s \in Seq(Nat), NEW q \in Positions, NEW u \in Spellings,
         Occurs(s, q, u.raw), u.kind # "low"
  PROVE  ~LowAt(s, q)
<1> SUFFICES ASSUME NEW w \in Nat, LowSurrogate(w), SurrogateAt(s, q, w) PROVE FALSE
  BY DEF LowAt
<1>1. s[q] = 92 /\ s[q + 1] = 117 /\ s[q + 2] = 65536 + w
  BY DEF SurrogateAt, Quad, FirstQuad
<1>2. u.raw \in Seq(Nat)
  BY UnitFacts
<1>3. Stands(s, q, u.raw)
  BY <1>2, OccursShort
<1> DEFINE raw == u.raw
<1>4. /\ Len(raw) = 1 => raw[1] = 92
      /\ Len(raw) = 2 => raw[2] = 117
      /\ Len(raw) = 3 => raw[3] = 65536 + w
  BY <1>1, <1>3 DEF Stands
<1>5. CASE u.kind = "plain"
  <2>1. Spells(raw, u.bytes)
    BY <1>5, UnitFacts
  <2> HIDE DEF raw
  <2>2. CASE Len(raw) = 1 /\ raw[1] \notin {34, 92}
    BY <1>4, <2>2
  <2>3. CASE Len(raw) = 2 /\ <<raw[2], u.bytes[1]>> \in Letters
    <3>1. 117 \notin DOMAIN ShortEscapes
      BY DEF ShortEscapes
    <3> QED
      BY <1>4, <2>3, <3>1, LetterLemma
  <2>4. CASE Len(raw) = 3 /\ ~LowSurrogate(raw[3] - FirstQuad)
    BY <1>4, <2>4 DEF FirstQuad
  <2> QED
    BY <2>1, <2>2, <2>3, <2>4 DEF Spells
<1>6. CASE u.kind = "control"
  <2> DEFINE v == u.bytes[1]
  <2>1. raw = <<v>> /\ v \in Nat /\ v < 32
    BY <1>6, UnitFacts
  <2> HIDE DEF v
  <2>3. raw = <<v>> /\ v # 92
    BY <2>1
  <2> HIDE DEF raw, v
  <2>2. Len(raw) = 1 /\ raw[1] # 92
    BY <2>3
  <2> QED
    BY <1>4, <2>2
<1>7. CASE u.kind = "high"
  <2>1. /\ raw = <<92, 117, Quad(u.bytes[1])>> /\ u.bytes[1] \in Nat
        /\ HighSurrogate(u.bytes[1])
    BY <1>7, UnitFacts
  <2> DEFINE v == u.bytes[1]
  <2>2. raw = <<92, 117, 65536 + v>> /\ v \in Nat /\ HighSurrogate(v)
    BY <2>1 DEF Quad, FirstQuad
  <2> HIDE DEF raw, v
  <2>3. 65536 + v = 65536 + w
    BY <1>4, <2>2
  <2> QED
    BY <2>2, <2>3 DEF HighSurrogate, LowSurrogate
<1>8. CASE u.kind = "bad"
  <2>1. SpellsNothing(raw)
    BY <1>8, UnitFacts
  <2> HIDE DEF raw
  <2> QED
    BY <1>4, <2>1 DEF SpellsNothing, IsQuad, FirstQuad, LowSurrogate
<1> QED
  BY <1>5, <1>6, <1>7, <1>8, UnitFacts

-----------------------------------------------------------------------------
(***************************************************************************)
(* StringLoop on a content.                                                *)
(***************************************************************************)
\* The unit i can be read.
Good(us, i, strict) ==
  \/ us[i].kind = "plain"
  \/ us[i].kind = "control" /\ ~strict
  \/ IsFirst(us, i) \/ IsSecond(us, i)

\* The loop from the start of the text, as far as a whole number of code points
\* of its first k units have been read.
ReadTo(s, p, us, strict, r, d, k) ==
  LET loop(n) == StringLoop(s, p + Len(r[n]), strict)
  IN  (\A i \in 1..k : Good(us, i, strict)) =>
        IF k \geq 1 /\ IsFirst(us, k)
        THEN StringLoop(s, p, strict) = Then(d[k-1], loop(k-1))
        ELSE StringLoop(s, p, strict) = Then(d[k], loop(k))

\* Then, before a value that was read.
LEMMA ThenRecord ==
  ASSUME NEW a \in Seq(Nat), NEW b \in Seq(Nat), NEW n \in Nat
  PROVE  Then(a, [ok |-> TRUE, value |-> b, next |-> n])
           = [ok |-> TRUE, value |-> a \o b, next |-> n]
BY DEF Then

\* The main fact about strings: read from anywhere, a content and its closing quote
\* are taken exactly when the content is readable, and are then what it denotes.
LEMMA SpelledRead ==
  ASSUME NEW s \in Seq(Nat), NEW strict \in BOOLEAN, NEW p \in Positions,
         NEW us \in Seq(Spellings), Occurs(s, p, Raw(us) \o << 34 >>)
  PROVE  IF Readable(us, strict)
         THEN StringLoop(s, p, strict) =
                [ok |-> TRUE, value |-> Denoted(us), next |-> p + Len(Raw(us)) + 1]
         ELSE StringLoop(s, p, strict) = Fail
<1> DEFINE N == Len(us)
<1>1. N \in Nat /\ DOMAIN us = 1..N /\ \A i \in 1..N : us[i] \in Spellings
  OBVIOUS
<1>2. PICK r : Joins(r, RawParts(us)) /\ Raw(us) = r[Len(RawParts(us))]
  BY PartsType, ConcatLemma
<1>3. PICK d : Joins(d, Meanings(us)) /\ Denoted(us) = d[Len(Meanings(us))]
  BY PartsType, ConcatLemma
<1>4. /\ r \in [0..N -> Seq(Nat)] /\ r[0] = <<>> /\ Raw(us) = r[N]
      /\ d \in [0..N -> Seq(Nat)] /\ d[0] = <<>> /\ Denoted(us) = d[N]
      /\ \A k \in 1..N : d[k] = d[k-1] \o Meanings(us)[k]
  BY <1>2, <1>3, PartsType DEF Joins
<1> HIDE DEF N
<1>5. Occurs(s, p, r[N]) /\ Occurs(s, p + Len(r[N]), << 34 >>)
  <2>1. r[N] \in Seq(Nat) /\ << 34 >> \in Seq(Nat)
    <3>1. N \in 0..N
      BY <1>1
    <3> QED
      BY <1>4, <3>1
  <2>2. Occurs(s, p, r[N] \o << 34 >>)
    BY <1>4
  <2> QED
    BY <2>1, <2>2, OccursConcat
<1> DEFINE pos(k) == p + Len(r[k])
           loop(k) == StringLoop(s, pos(k), strict)
<1>6. ASSUME NEW k \in 0..N
      PROVE  r[k] \in Seq(Nat) /\ pos(k) \in Positions /\ loop(k) \in Parsed /\ d[k] \in Seq(Nat)
  <2>1. r[k] \in Seq(Nat) /\ d[k] \in Seq(Nat)
    BY <1>4
  <2>2. pos(k) \in Positions
    BY <2>1 DEF Positions
  <2> HIDE DEF pos
  <2> QED
    BY <2>1, <2>2, StringLoopEquation
<1>7. ASSUME NEW k \in 1..N
      PROVE  /\ Occurs(s, pos(k-1), us[k].raw) /\ pos(k) = pos(k-1) + Len(us[k].raw)
             /\ k - 1 \in 0..N /\ k \in 0..N /\ us[k] \in Spellings /\ us[k].raw \in Seq(Nat)
  <2>1. RawParts(us)[k] = us[k].raw /\ k - 1 \in 0..N /\ k \in 0..N
    BY <1>1 DEF RawParts
  <2>2. us[k] \in Spellings /\ us[k].raw \in Seq(Nat)
    BY <1>1, UnitFacts
  <2>3. RawParts(us) \in Seq(Seq(Nat)) /\ Len(RawParts(us)) = N
    BY PartsType DEF N
  <2>4. Occurs(s, p, r[Len(RawParts(us))])
    BY <1>5, <2>3
  <2>5. \A n \in 1..N : /\ Occurs(s, p + Len(r[n-1]), RawParts(us)[n])
                        /\ Len(r[n]) = Len(r[n-1]) + Len(RawParts(us)[n])
    <3> DEFINE parts == RawParts(us)
    <3>1. parts \in Seq(Seq(Nat)) /\ Joins(r, parts) /\ Occurs(s, p, r[Len(parts)])
      BY <1>2, <2>3, <2>4
    <3> HIDE DEF parts
    <3>2. Aligned(s, p, r, parts)
      BY <3>1, OccursParts
    <3> QED
      BY <2>3, <3>2 DEF parts, Aligned
  <2>6. Occurs(s, pos(k-1), us[k].raw) /\ Len(r[k]) = Len(r[k-1]) + Len(us[k].raw)
    BY <2>1, <2>5
  <2>7. Len(r[k]) \in Nat /\ Len(r[k-1]) \in Nat /\ Len(us[k].raw) \in Nat
    BY <1>6, <2>1, <2>2
  <2>8. pos(k) = pos(k-1) + Len(us[k].raw)
    <3> DEFINE a == Len(r[k-1])
               b == Len(us[k].raw)
    <3>1. p \in Nat /\ a \in Nat /\ b \in Nat /\ Len(r[k]) = a + b
      BY <2>6, <2>7 DEF Positions
    <3>2. pos(k) = p + Len(r[k]) /\ pos(k-1) = p + a
      OBVIOUS
    <3> HIDE DEF pos, a, b
    <3>3. pos(k) = pos(k-1) + b
      BY <3>1, <3>2
    <3> QED
      BY <3>3 DEF b
  <2> QED
    BY <2>1, <2>2, <2>6, <2>8
<1>8. pos(N) \leq Len(s) /\ s[pos(N)] = 34
  <2>1. pos(N) \in Positions /\ Occurs(s, pos(N), << 34 >>) /\ << 34 >> \in Seq(Nat)
    <3>1. N \in 0..N
      BY <1>1
    <3> QED
      BY <1>5, <1>6, <3>1
  <2> HIDE DEF pos
  <2>2. Stands(s, pos(N), << 34 >>)
    BY <2>1, OccursShort
  <2> QED
    BY <2>2 DEF Stands
<1>9. pos(0) = p /\ 0 \in 0..N /\ N \in 0..N
  BY <1>1, <1>4 DEF Positions
<1> HIDE DEF pos
<1>10. loop(N) = [ok |-> TRUE, value |-> <<>>, next |-> pos(N) + 1]
  BY <1>6, <1>8, <1>9, QuoteRead
<1>11. ASSUME NEW k \in 1..N, us[k].kind = "high", ~IsFirst(us, k) PROVE loop(k-1) = Fail
  <2> DEFINE v == us[k].bytes[1]
  <2>1. v \in Nat /\ HighSurrogate(v) /\ us[k].raw = <<92, 117, Quad(v)>>
    BY <1>7, <1>11, UnitFacts
  <2> HIDE DEF v
  <2>2. SurrogateAt(s, pos(k-1), v) /\ pos(k) = pos(k-1) + 3
    <3>1. Stands(s, pos(k-1), us[k].raw)
      BY <1>6, <1>7, OccursShort
    <3>2. Len(us[k].raw) = 3 /\ us[k].raw[1] = 92 /\ us[k].raw[2] = 117
          /\ us[k].raw[3] = Quad(v)
      BY <2>1
    <3>3. pos(k) = pos(k-1) + 3
      BY <1>7, <3>2, ZenonT(40)
    <3> QED
      BY <3>1, <3>2, <3>3 DEF Stands, SurrogateAt
  <2>3. ~LowAt(s, pos(k))
    <3>1. CASE k = N
      BY <1>8, <3>1 DEF LowAt, SurrogateAt
    <3>2. CASE k # N
      <4>1. k + 1 \in 1..N /\ (k + 1) - 1 = k
        BY <1>1, <3>2
      <4>2. us[k + 1].kind # "low"
        BY <1>11, <3>2 DEF IsFirst, N
      <4>3. Occurs(s, pos((k + 1) - 1), us[k + 1].raw) /\ us[k + 1] \in Spellings
        BY <1>7, <4>1
      <4>4. pos(k) \in Positions
        BY <1>6, <1>7
      <4> QED
        BY <4>1, <4>2, <4>3, <4>4, NotLow
    <3> QED
      BY <3>1, <3>2
  <2> QED
    BY <1>6, <1>7, <2>1, <2>2, <2>3, HighRead
<1>12. ASSUME NEW k \in 1..N, us[k].kind \in {"plain", "control"}, Good(us, k, strict)
       PROVE  loop(k-1) = Then(us[k].bytes, loop(k)) /\ Meanings(us)[k] = us[k].bytes
  <2>1. Meanings(us)[k] = us[k].bytes
    BY <1>1, <1>12 DEF Meanings
  <2>2. CASE us[k].kind = "plain"
    <3>1. Spells(us[k].raw, us[k].bytes) /\ us[k].bytes \in Seq(Nat)
      BY <1>7, <2>2, UnitFacts
    <3>2. loop(k-1) = Then(us[k].bytes, StringLoop(s, pos(k-1) + Len(us[k].raw), strict))
      BY <1>6, <1>7, <3>1, PlainRead
    <3> QED
      BY <1>7, <2>1, <3>2
  <2>3. CASE us[k].kind = "control"
    <3> DEFINE b == us[k].bytes[1]
    <3>1. b \in Nat /\ b < 32 /\ us[k].raw = <<b>> /\ us[k].bytes = <<b>>
      BY <1>7, <2>3, UnitFacts
    <3>2. ~strict
      BY <1>12, <2>3 DEF Good, IsFirst, IsSecond
    <3> HIDE DEF b
    <3>3. Stands(s, pos(k-1), <<b>>)
      BY <1>6, <1>7, <3>1, OccursShort
    <3>4. pos(k-1) \leq Len(s) /\ s[pos(k-1)] = b /\ pos(k) = pos(k-1) + 1
      BY <1>7, <3>1, <3>3 DEF Stands
    <3>5. pos(k-1) \in Positions /\ s[pos(k-1)] \notin {34, 92} /\ ~(strict /\ s[pos(k-1)] < 32)
      BY <1>6, <1>7, <3>1, <3>2, <3>4
    <3>6. StringLoop(s, pos(k-1), strict)
            = Then(<<s[pos(k-1)]>>, StringLoop(s, pos(k-1) + 1, strict))
      BY <3>4, <3>5, CharacterRead
    <3>7. loop(k-1) = Then(<<b>>, loop(k))
      BY <3>4, <3>6
    <3> QED
      BY <2>1, <3>1, <3>7
  <2> QED
    BY <1>12, <2>2, <2>3
<1>13. ASSUME NEW k \in 1..N, IsSecond(us, k)
       PROVE  /\ k - 1 \in 1..N /\ IsFirst(us, k - 1) /\ ~IsFirst(us, k)
              /\ loop(k-2) = Then(Meanings(us)[k-1], loop(k))
              /\ Meanings(us)[k] = <<>> /\ Meanings(us)[k-1] \in Seq(Nat)
  <2>1. k - 1 \in 1..N /\ us[k].kind = "low" /\ us[k-1].kind = "high"
    BY <1>1, <1>13 DEF IsSecond
  <2>2. IsFirst(us, k - 1) /\ ~IsFirst(us, k)
    BY <1>1, <2>1 DEF IsFirst, N
  <2> DEFINE v == us[k-1].bytes[1]
             w == us[k].bytes[1]
  <2>3. /\ v \in Nat /\ HighSurrogate(v) /\ us[k-1].raw = <<92, 117, Quad(v)>>
        /\ w \in Nat /\ LowSurrogate(w) /\ us[k].raw = <<92, 117, Quad(w)>>
    BY <1>7, <2>1, UnitFacts
  <2>4. Meanings(us)[k] = <<>> /\ Meanings(us)[k-1] = Paired(v, w)
    <3>1. (k - 1) + 1 = k
      OBVIOUS
    <3> QED
      BY <1>1, <2>1, <2>2, <3>1 DEF Meanings
  <2> HIDE DEF v, w
  <2>5. (k - 1) - 1 = k - 2
    OBVIOUS
  <2>6. Stands(s, pos(k-1), us[k].raw) /\ Stands(s, pos(k-2), us[k-1].raw)
    BY <1>6, <1>7, <2>1, <2>5, OccursShort
  <2>7. SurrogateAt(s, pos(k-2), v) /\ SurrogateAt(s, pos(k-1), w)
    BY <2>3, <2>6 DEF Stands, SurrogateAt
  <2>8. pos(k-1) = pos(k-2) + 3 /\ pos(k) = pos(k-2) + 6 /\ pos(k-2) \in Positions
    <3>1. Len(us[k].raw) = 3 /\ Len(us[k-1].raw) = 3
      BY <2>3
    <3>2. pos(k-2) \in Positions /\ pos(k-1) = pos(k-2) + 3 /\ pos(k) = pos(k-1) + 3
      BY <1>6, <1>7, <2>1, <2>5, <3>1
    <3> QED
      BY <3>2 DEF Positions
  <2>9. loop(k-2) = Then(Paired(v, w), loop(k))
    BY <2>3, <2>7, <2>8, HighRead
  <2>10. Paired(v, w) \in Seq(Nat)
    BY <2>3, PairedLemma
  <2> QED
    BY <2>1, <2>2, <2>4, <2>9, <2>10
<1>14. \A k \in 0..N : ReadTo(s, p, us, strict, r, d, k)
  <2> DEFINE S == {k \in 0..N : ReadTo(s, p, us, strict, r, d, k)}
             Claim(k) == (\A i \in 1..k : Good(us, i, strict)) =>
                IF k \geq 1 /\ IsFirst(us, k)
                THEN loop(0) = Then(d[k-1], loop(k-1)) ELSE loop(0) = Then(d[k], loop(k))
  <2>1. \A k \in 0..N : ReadTo(s, p, us, strict, r, d, k) <=> Claim(k)
    BY <1>9 DEF ReadTo, pos
  <2>2. 0 \in S
    <3>1. Then(<<>>, loop(0)) = loop(0)
      BY <1>6, <1>9, ThenLemma
    <3>2. Claim(0)
      BY <1>4, <3>1
    <3> QED
      BY <1>9, <2>1, <3>2
  <2>3. ASSUME NEW k \in 1..N, k - 1 \in S PROVE k \in S
    <3> SUFFICES ASSUME \A i \in 1..k : Good(us, i, strict)
                 PROVE  IF IsFirst(us, k) THEN loop(0) = Then(d[k-1], loop(k-1))
                                          ELSE loop(0) = Then(d[k], loop(k))
      BY <1>7, <2>1
    <3>1. /\ k \in 0..N /\ k - 1 \in 0..N /\ Good(us, k, strict)
          /\ \A i \in 1..(k-1) : Good(us, i, strict)
      BY <1>7
    <3>2. IF k - 1 \geq 1 /\ IsFirst(us, k - 1)
          THEN loop(0) = Then(d[k-2], loop(k-2)) ELSE loop(0) = Then(d[k-1], loop(k-1))
      <4>1. Claim(k - 1) /\ (k - 1) - 1 = k - 2
        BY <2>1, <2>3, <3>1
      <4> QED
        BY <3>1, <4>1
    <3>3. d[k] = d[k-1] \o Meanings(us)[k] /\ d[k] \in Seq(Nat) /\ d[k-1] \in Seq(Nat)
          /\ loop(k) \in Parsed /\ loop(k-1) \in Parsed
      BY <1>4, <1>6, <3>1
    <3>4. CASE us[k].kind \in {"plain", "control"}
      <4>1. ~IsFirst(us, k) /\ ~IsFirst(us, k - 1)
        <5>1. (k - 1) + 1 = k
          OBVIOUS
        <5> QED
          BY <3>4, <5>1 DEF IsFirst
      <4>2. loop(k-1) = Then(us[k].bytes, loop(k)) /\ Meanings(us)[k] = us[k].bytes
        BY <1>12, <3>1, <3>4
      <4>3. us[k].bytes \in Seq(Nat)
        BY <1>7, UnitFacts
      <4>4. Then(d[k-1], Then(us[k].bytes, loop(k))) = Then(d[k-1] \o us[k].bytes, loop(k))
        BY <3>3, <4>3, ThenLemma, ZenonT(40)
      <4>5. loop(0) = Then(d[k-1], loop(k-1))
        BY <3>2, <4>1
      <4> QED
        BY ONLY <3>3, <4>1, <4>2, <4>4, <4>5
    <3>5. CASE IsFirst(us, k)
      <4>1. ~IsFirst(us, k - 1)
        <5>1. (k - 1) + 1 = k
          OBVIOUS
        <5> QED
          BY <3>5, <5>1 DEF IsFirst
      <4> QED
        BY <3>2, <3>5, <4>1
    <3>6. CASE IsSecond(us, k)
      <4>1. /\ k - 1 \in 1..N /\ IsFirst(us, k - 1) /\ ~IsFirst(us, k)
            /\ loop(k-2) = Then(Meanings(us)[k-1], loop(k))
            /\ Meanings(us)[k] = <<>> /\ Meanings(us)[k-1] \in Seq(Nat)
        BY <1>13, <3>6
      <4>2. loop(0) = Then(d[k-2], loop(k-2))
        BY <3>2, <4>1
      <4>3. d[k-1] = d[k-2] \o Meanings(us)[k-1] /\ d[k-2] \in Seq(Nat)
        <5>1. (k - 1) - 1 = k - 2 /\ k - 2 \in 0..N
          BY <1>1, <2>3, <4>1
        <5> QED
          BY <1>4, <1>6, <4>1, <5>1
      <4>4. Then(d[k-2], Then(Meanings(us)[k-1], loop(k)))
              = Then(d[k-2] \o Meanings(us)[k-1], loop(k))
        BY <3>3, <4>1, <4>3, ThenLemma
      <4>5. d[k] = d[k-1]
        BY <3>3, <4>1, NatSequences
      <4> QED
        BY ONLY <4>1, <4>2, <4>3, <4>4, <4>5
    <3> QED
      BY <3>1, <3>4, <3>5, <3>6 DEF Good
  <2>4. 0..N \subseteq S
    <3> HIDE DEF S
    <3> QED
      BY <1>1, <2>2, <2>3, IntervalInduction
  <2> QED
    BY <2>4
<1>15. ASSUME NEW k \in 1..N, \A i \in 1..(k-1) : Good(us, i, strict), ~Good(us, k, strict)
       PROVE  StringLoop(s, p, strict) = Fail
  <2>1. ReadTo(s, p, us, strict, r, d, k - 1) /\ k - 1 \in 0..N
    BY <1>7, <1>14
  <2>2. loop(0) = Then(d[k-1], loop(k-1)) /\ loop(0) = StringLoop(s, p, strict)
    <3>1. ~(k - 1 \geq 1 /\ IsFirst(us, k - 1))
      <4>1. (k - 1) + 1 = k
        OBVIOUS
      <4> QED
        BY <1>15, <4>1 DEF Good, IsFirst, IsSecond
    <3> QED
      BY <1>9, <1>15, <2>1, <3>1 DEF ReadTo, pos
  <2>3. us[k] \in Spellings /\ ~IsFirst(us, k)
    BY <1>7, <1>15 DEF Good
  <2>4. loop(k-1) = Fail
    <3>1. pos(k-1) \in Positions
      BY <1>6, <1>7
    <3>2. Stands(s, pos(k-1), us[k].raw)
      BY <1>7, <3>1, OccursShort
    <3>3. CASE us[k].kind = "high"
      BY <1>11, <2>3, <3>3
    <3>4. CASE us[k].kind = "bad"
      <4>1. SpellsNothing(us[k].raw)
        BY <2>3, <3>4, UnitFacts
      <4> QED
        BY <1>7, <3>1, <4>1, BadRead
    <3>5. CASE us[k].kind = "low"
      <4> DEFINE v == us[k].bytes[1]
      <4>1. v \in Nat /\ LowSurrogate(v) /\ us[k].raw = <<92, 117, Quad(v)>>
        BY <1>7, <3>5, UnitFacts
      <4> HIDE DEF v
      <4>2. SurrogateAt(s, pos(k-1), v)
        BY <3>2, <4>1 DEF Stands, SurrogateAt
      <4> QED
        BY <3>1, <4>1, <4>2, LowRead DEF LowAt
    <3>6. CASE us[k].kind = "control"
      <4> DEFINE b == us[k].bytes[1]
      <4>1. b \in Nat /\ b < 32 /\ us[k].raw = <<b>>
        BY <1>7, <3>6, UnitFacts
      <4>2. strict
        BY <1>15, <3>6 DEF Good
      <4> HIDE DEF b
      <4>3. pos(k-1) \leq Len(s) /\ s[pos(k-1)] = b
        BY <3>2, <4>1 DEF Stands
      <4>4. s[pos(k-1)] \notin {34, 92} /\ s[pos(k-1)] < 32
        BY <4>1, <4>3
      <4> QED
        BY <3>1, <4>2, <4>3, <4>4, CharacterRead
    <3> QED
      BY <1>15, <2>3, <3>3, <3>4, <3>5, <3>6, UnitFacts DEF Good
  <2>5. d[k-1] \in Seq(Nat) /\ loop(k-1) \in Parsed
    BY <1>6, <2>1
  <2>6. Then(d[k-1], loop(k-1)) \in Parsed /\ ~Then(d[k-1], loop(k-1)).ok
    <3>1. ~loop(k-1).ok
      BY <2>4 DEF Fail
    <3> QED
      BY <2>5, <3>1, ThenLemma
  <2> QED
    BY <2>2, <2>6 DEF Parsed
<1>16. CASE Readable(us, strict)
  <2>1. \A i \in 1..N : Good(us, i, strict)
    BY <1>1, <1>16 DEF Readable, Good
  <2>2. ~IsFirst(us, N)
    BY <1>1 DEF IsFirst, N
  <2>3. ReadTo(s, p, us, strict, r, d, N)
    BY <1>9, <1>14
  <2>4. StringLoop(s, p, strict) = Then(d[N], loop(N))
    BY <2>1, <2>2, <2>3 DEF ReadTo, pos
  <2>5. d[N] \in Seq(Nat) /\ loop(N) \in Parsed
    BY <1>6, <1>9
  <2>6. Then(d[N], loop(N)) = [ok |-> TRUE, value |-> d[N] \o <<>>, next |-> pos(N) + 1]
    <3>1. <<>> \in Seq(Nat) /\ pos(N) + 1 \in Nat
      BY <1>6, <1>9 DEF Positions
    <3> QED
      BY <1>10, <2>5, <3>1, ThenRecord
  <2>7. d[N] \o <<>> = d[N]
    BY <2>5, NatSequences
  <2> QED
    BY <1>4, <1>16, <2>4, <2>6, <2>7 DEF pos
<1>17. CASE ~Readable(us, strict)
  <2> DEFINE S == {i \in 1..N : ~Good(us, i, strict)}
  <2>1. S # {} /\ S \subseteq Nat
    BY <1>1, <1>17 DEF Readable, Good
  <2>2. First(S) \in S /\ \A i \in S : First(S) \leq i
    <3> HIDE DEF S
    <3> QED
      BY <2>1, FirstLemma
  <2> DEFINE k == First(S)
  <2>3. k \in 1..N /\ ~Good(us, k, strict)
    BY <2>2
  <2>4. ASSUME NEW i \in 1..(k-1) PROVE Good(us, i, strict)
    <3> HIDE DEF k
    <3>1. i \in 1..N /\ ~(k \leq i)
      BY <1>1, <2>3
    <3>2. i \in S => k \leq i
      BY <2>2 DEF k
    <3> QED
      BY <3>1, <3>2
  <2> HIDE DEF k
  <2> QED
    BY <1>15, <1>17, <2>3, <2>4
<1> QED
  BY <1>16, <1>17

-----------------------------------------------------------------------------
(***************************************************************************)
(* EscapeJsonString, and the round trip.                                   *)
(***************************************************************************)
\* A text stands where it was put between two others.
LEMMA OccursBetween ==
  ASSUME NEW a \in Seq(Nat), NEW b \in Seq(Nat), NEW c \in Seq(Nat)
  PROVE  /\ (a \o b) \o c \in Seq(Nat)
         /\ Len((a \o b) \o c) = Len(a) + Len(b) + Len(c)
         /\ Occurs((a \o b) \o c, Len(a) + 1, b)
<1> DEFINE ab == a \o b
           abc == ab \o c
<1>1. /\ ab \in Seq(Nat) /\ Len(ab) = Len(a) + Len(b)
      /\ \A i \in 1..Len(b) : ab[Len(a) + i] = b[i]
  BY NatSequences
<1> HIDE DEF ab
<1>2. /\ abc \in Seq(Nat) /\ Len(abc) = Len(ab) + Len(c)
      /\ \A i \in 1..Len(ab) : abc[i] = ab[i]
  BY <1>1, NatSequences
<1> HIDE DEF abc
<1>3. Len(a) \in Nat /\ Len(b) \in Nat /\ Len(c) \in Nat
  OBVIOUS
<1>4. Occurs(abc, Len(a) + 1, b)
  <2>1. ASSUME NEW k \in 1..Len(b) PROVE abc[(Len(a) + 1) + k - 1] = b[k]
    <3>1. (Len(a) + 1) + k - 1 = Len(a) + k /\ Len(a) + k \in 1..Len(ab)
      BY <1>1, <1>3
    <3> QED
      BY <1>1, <1>2, <3>1
  <2>2. (Len(a) + 1) + Len(b) \leq Len(abc) + 1
    BY <1>1, <1>2, <1>3
  <2> QED
    BY <2>1, <2>2 DEF Occurs
<1>5. Len(abc) = Len(a) + Len(b) + Len(c)
  BY <1>1, <1>2, <1>3
<1> QED
  BY <1>2, <1>4, <1>5 DEF abc, ab

\* Two texts in a row are the two one behind the other.
LEMMA OccursJoined ==
  ASSUME NEW s \in Seq(Nat), NEW a \in Seq(Nat), NEW b \in Seq(Nat), NEW p \in Positions,
         Occurs(s, p, a), Occurs(s, p + Len(a), b)
  PROVE  Occurs(s, p, a \o b)
<1> DEFINE m == Len(a)
           n == Len(b)
<1>1. /\ Len(a \o b) = m + n /\ m \in Nat /\ n \in Nat /\ p \in Nat /\ Len(s) \in Nat
      /\ \A i \in 1..m : (a \o b)[i] = a[i]
      /\ \A i \in 1..n : (a \o b)[m + i] = b[i]
  BY NatSequences DEF Positions
<1>2. (p + m) + n \leq Len(s) + 1 /\ (\A k \in 1..m : s[p + k - 1] = a[k])
      /\ \A k \in 1..n : s[(p + m) + k - 1] = b[k]
  BY DEF Occurs
<1> HIDE DEF m, n
<1>3. ASSUME NEW k \in 1..(m + n) PROVE s[p + k - 1] = (a \o b)[k]
  <2>1. CASE k \in 1..m
    BY <1>1, <1>2, <2>1
  <2>2. CASE k \notin 1..m
    <3>1. k - m \in 1..n /\ m + (k - m) = k /\ (p + m) + (k - m) - 1 = p + k - 1
      BY <1>1, <2>2, SMTT(30)
    <3> QED
      BY <1>1, <1>2, <3>1, ZenonT(40)
  <2> QED
    BY <2>1, <2>2
<1>4. p + (m + n) \leq Len(s) + 1
  BY <1>1, <1>2
<1> QED
  BY <1>1, <1>3, <1>4 DEF Occurs

\* A quoted text that is read from its quote.
LEMMA QuotedRead ==
  ASSUME NEW s \in Seq(Nat), NEW p \in Positions, NEW us \in Seq(Spellings),
         Occurs(s, p, (<< 34 >> \o Raw(us)) \o << 34 >>)
  PROVE  /\ Is(s, p, Quote) /\ Occurs(s, p + 1, Raw(us) \o << 34 >>)
         /\ ParseString(s, p) = StringLoop(s, p + 1, TRUE)
<1> DEFINE raw == Raw(us)
<1>1. raw \in Seq(Nat) /\ << 34 >> \in Seq(Nat) /\ Len(<< 34 >>) = 1
  BY PartsType
<1> HIDE DEF raw
<1>2. raw \o << 34 >> \in Seq(Nat) /\ (<< 34 >> \o raw) \o << 34 >> = << 34 >> \o (raw \o << 34 >>)
  BY <1>1, NatSequences
<1>3. Occurs(s, p, << 34 >> \o (raw \o << 34 >>))
  BY <1>2 DEF raw
<1>4. Occurs(s, p, << 34 >>) /\ Occurs(s, p + 1, raw \o << 34 >>)
  BY <1>1, <1>2, <1>3, OccursConcat
<1>5. Stands(s, p, << 34 >>)
  BY <1>1, <1>4, OccursShort
<1>6. Is(s, p, Quote)
  BY <1>5 DEF Stands, Is, Quote
<1> QED
  BY <1>4, <1>6 DEF raw, ParseString

-----------------------------------------------------------------------------
\* What EscapeJsonString writes for a byte spells that byte.
LEMMA EscapeByteSpells ==
  ASSUME NEW b \in Nat
  PROVE  EscapeByte(b) \in Seq(Nat) /\ Spells(EscapeByte(b), <<b>>)
<1>1. CASE b \in {34, 92}
  <2>1. EscapeByte(b) = <<92, b>>
    BY <1>1 DEF EscapeByte, Backslash
  <2> QED
    BY <1>1, <2>1 DEF Spells, Letters
<1>2. CASE b \in {8, 9, 10, 12, 13}
  <2>1. PICK c \in Nat : EscapeByte(b) = <<92, c>> /\ <<c, b>> \in Letters
    BY <1>2 DEF EscapeByte, Backslash, Letters
  <2> QED
    BY <2>1 DEF Spells
<1>3. CASE b < 32 /\ b \notin {8, 9, 10, 12, 13}
  <2>1. EscapeByte(b) = <<92, 117, Quad(b)>>
    BY <1>3 DEF EscapeByte, Backslash, LetterU
  <2>2. Quad(b) \in Nat /\ Quad(b) - FirstQuad = b /\ IsQuad(Quad(b))
    BY <1>3 DEF Quad, FirstQuad, IsQuad
  <2>3. ~HighSurrogate(b) /\ ~LowSurrogate(b) /\ IsUtf8(<<b>>, b)
    BY <1>3 DEF HighSurrogate, LowSurrogate, IsUtf8
  <2> QED
    BY <2>1, <2>2, <2>3 DEF Spells
<1>4. CASE b \geq 32 /\ b \notin {34, 92}
  <2>1. EscapeByte(b) = <<b>>
    BY <1>4 DEF EscapeByte
  <2> QED
    BY <1>4, <2>1 DEF Spells
<1> QED
  BY <1>1, <1>2, <1>3, <1>4

\* The characters of a sequence, one by one, make the sequence.
LEMMA ConcatSingles ==
  ASSUME NEW v \in Seq(Nat)
  PROVE  Concat([i \in DOMAIN v |-> <<v[i]>>]) = v
<1> DEFINE parts == [i \in DOMAIN v |-> <<v[i]>>]
           N == Len(v)
<1>1. N \in Nat /\ DOMAIN v = 1..N /\ (\A i \in 1..N : v[i] \in Nat)
  OBVIOUS
<1>2. /\ parts \in Seq(Seq(Nat)) /\ Len(parts) = N
      /\ \A i \in 1..N : parts[i] = <<v[i]>>
  <2>1. \A i \in 1..N : <<v[i]>> \in Seq(Nat)
    BY <1>1
  <2> QED
    BY <1>1, <2>1
<1> HIDE DEF parts
<1>3. PICK c : Joins(c, parts) /\ Concat(parts) = c[Len(parts)]
  BY <1>2, ConcatLemma
<1>4. /\ c \in [0..N -> Seq(Nat)] /\ c[0] = <<>>
      /\ \A n \in 1..N : c[n] = c[n-1] \o <<v[n]>>
  BY <1>2, <1>3 DEF Joins
<1> DEFINE S == {n \in 0..N : Len(c[n]) = n /\ \A i \in 1..n : c[n][i] = v[i]}
<1>5. 0 \in S
  BY <1>1, <1>4
<1>6. ASSUME NEW n \in 1..N, n - 1 \in S PROVE n \in S
  <2>1. c[n-1] \in Seq(Nat) /\ Len(c[n-1]) = n - 1 /\ \A i \in 1..(n-1) : c[n-1][i] = v[i]
    BY <1>1, <1>4, <1>6
  <2>2. <<v[n]>> \in Seq(Nat) /\ Len(<<v[n]>>) = 1 /\ <<v[n]>>[1] = v[n]
    BY <1>1
  <2> DEFINE x == c[n-1]
             y == <<v[n]>>
  <2>3. c[n] = x \o y
    BY <1>4
  <2> HIDE DEF x, y
  <2>4. /\ Len(c[n]) = Len(x) + Len(y) /\ (\A i \in 1..Len(x) : c[n][i] = x[i])
        /\ \A i \in 1..Len(y) : c[n][Len(x) + i] = y[i]
    <3>1. x \in Seq(Nat) /\ y \in Seq(Nat)
      BY <2>1, <2>2 DEF x, y
    <3> QED
      BY ONLY <2>3, <3>1, NatSequences
  <2>5. Len(x) = n - 1 /\ Len(y) = 1 /\ y[1] = v[n] /\ n \in Nat /\ (n - 1) + 1 = n
    BY <2>1, <2>2 DEF x, y
  <2>6. Len(c[n]) = n
    BY <2>4, <2>5
  <2>7. c[n][n] = v[n]
    BY <2>4, <2>5
  <2>8. ASSUME NEW i \in 1..n PROVE c[n][i] = v[i]
    <3>1. i = n \/ i \in 1..(n-1)
      OBVIOUS
    <3> QED
      BY <2>1, <2>4, <2>5, <2>7, <3>1 DEF x
  <2> QED
    BY <2>6, <2>8
<1>7. N \in S
  <2>1. 0..N \subseteq S
    <3> HIDE DEF S, N
    <3> QED
      BY <1>1, <1>5, <1>6, IntervalInduction
  <2> HIDE DEF S
  <2> QED
    BY <1>1, <2>1
<1>8. c[N] \in Seq(Nat) /\ Len(c[N]) = Len(v) /\ \A i \in 1..Len(v) : c[N][i] = v[i]
  BY <1>1, <1>4, <1>7
<1>9. c[N] = v
  <2> DEFINE w == c[N]
  <2>1. w \in Seq(Nat) /\ Len(w) = Len(v) /\ \A i \in 1..Len(w) : w[i] = v[i]
    BY <1>8
  <2> HIDE DEF w
  <2>2. w = v
    BY <2>1, SeqEqual
  <2> QED
    BY <2>2 DEF w
<1> QED
  BY <1>2, <1>3, <1>9 DEF parts

\* The units that EscapeJsonString writes for v.
Escapes(v) == [i \in DOMAIN v |-> Unit(EscapeByte(v[i]), <<v[i]>>)]

\* They are what it writes, can be read, and mean v.
LEMMA EscapesLemma ==
  ASSUME NEW v \in Seq(Nat)
  PROVE  /\ Escapes(v) \in Seq(Spellings) /\ Readable(Escapes(v), TRUE)
         /\ Raw(Escapes(v)) = Escaped(v) /\ Denoted(Escapes(v)) = v
         /\ Escaped(v) \in Seq(Nat)
<1> DEFINE N == Len(v)
           us == Escapes(v)
<1>1. N \in Nat /\ DOMAIN v = 1..N /\ (\A i \in 1..N : v[i] \in Nat)
  OBVIOUS
<1>2. us = [i \in 1..N |-> Unit(EscapeByte(v[i]), <<v[i]>>)]
  BY <1>1 DEF Escapes
<1>3. ASSUME NEW i \in 1..N PROVE Unit(EscapeByte(v[i]), <<v[i]>>) \in Spellings
  <2> DEFINE raw == EscapeByte(v[i])
             bytes == <<v[i]>>
  <2>1. raw \in Seq(Nat) /\ bytes \in Seq(Nat) /\ Spells(raw, bytes)
    BY <1>1, EscapeByteSpells
  <2> HIDE DEF raw, bytes
  <2>2. Unit(raw, bytes) \in Spellings
    BY <2>1 DEF Unit, Spellings
  <2> QED
    BY <2>2 DEF raw, bytes
<1>4. us \in Seq(Spellings) /\ Len(us) = N
  BY <1>1, <1>2, <1>3
<1>5. ASSUME NEW i \in 1..N
      PROVE  us[i].kind = "plain" /\ us[i].raw = EscapeByte(v[i]) /\ us[i].bytes = <<v[i]>>
  BY <1>2 DEF Unit
<1> HIDE DEF us
<1>6. DOMAIN us = 1..N
  BY <1>2
<1>7. Readable(us, TRUE)
  BY <1>5, <1>6 DEF Readable
<1>8. [i \in DOMAIN us |-> us[i].raw] = [i \in DOMAIN v |-> EscapeByte(v[i])]
  BY <1>1, <1>5, <1>6
<1>9. Meanings(us) = [i \in DOMAIN v |-> <<v[i]>>]
  BY <1>1, <1>5, <1>6 DEF Meanings
<1>10. Raw(us) = Escaped(v)
  BY <1>8 DEF Raw, Escaped
<1>11. Denoted(us) = v /\ Raw(us) \in Seq(Nat)
  BY <1>4, <1>9, PartsType, ConcatSingles
<1> QED
  BY <1>4, <1>7, <1>10, <1>11 DEF us

\* Round trip: what EscapeJsonString makes of v is read by ParseString as v, wherever
\* it stands.
LEMMA EscapedRead ==
  ASSUME NEW s \in Seq(Nat), NEW p \in Positions, NEW v \in Seq(Nat),
         Occurs(s, p, (<< 34 >> \o Escaped(v)) \o << 34 >>)
  PROVE  ParseString(s, p) =
           [ok |-> TRUE, value |-> v, next |-> p + Len(Escaped(v)) + 2]
<1> DEFINE us == Escapes(v)
<1>1. /\ us \in Seq(Spellings) /\ Readable(us, TRUE) /\ Raw(us) = Escaped(v)
      /\ Denoted(us) = v /\ Escaped(v) \in Seq(Nat)
  BY EscapesLemma
<1> HIDE DEF us
<1>2. Occurs(s, p + 1, Raw(us) \o << 34 >>) /\ ParseString(s, p) = StringLoop(s, p + 1, TRUE)
  <2>1. Occurs(s, p, (<< 34 >> \o Raw(us)) \o << 34 >>)
    BY <1>1
  <2> QED
    BY <1>1, <2>1, QuotedRead
<1>3. p + 1 \in Positions /\ TRUE \in BOOLEAN
  BY DEF Positions
<1>4. StringLoop(s, p + 1, TRUE) =
        [ok |-> TRUE, value |-> Denoted(us), next |-> (p + 1) + Len(Raw(us)) + 1]
  BY <1>1, <1>2, <1>3, SpelledRead
<1>5. (p + 1) + Len(Raw(us)) + 1 = p + Len(Escaped(v)) + 2
  <2> DEFINE n == Len(Escaped(v))
  <2>1. n \in Nat /\ Len(Raw(us)) = n /\ p \in Nat
    BY <1>1 DEF Positions
  <2> HIDE DEF n
  <2>2. (p + 1) + n + 1 = p + n + 2
    BY <2>1
  <2> QED
    BY <2>1, <2>2 DEF n
<1> QED
  BY <1>1, <1>2, <1>4, <1>5

-----------------------------------------------------------------------------
(***************************************************************************)
(* Strings that are cut.                                                   *)
(***************************************************************************)
\* What holds behind N, and at i when it holds behind i, holds everywhere.
LEMMA BackwardInduction ==
  ASSUME NEW N \in Nat, NEW S, \A i \in Positions : i > N => i \in S,
         \A i \in Positions : (\A j \in Positions : j > i => j \in S) => i \in S
  PROVE  Positions \subseteq S
<1> DEFINE T == {m \in 0..N : \A i \in Positions : i + m > N => i \in S}
<1>1. 0 \in T
  BY DEF Positions
<1>2. ASSUME NEW m \in 1..N, m - 1 \in T PROVE m \in T
  <2> SUFFICES ASSUME NEW i \in Positions, i + m > N PROVE i \in S
    OBVIOUS
  <2>1. ASSUME NEW j \in Positions, j > i PROVE j \in S
    <3>1. j + (m - 1) > N
      BY <2>1 DEF Positions
    <3> QED
      BY <1>2, <3>1
  <2> QED
    BY <2>1
<1>3. 0..N \subseteq T
  <2> HIDE DEF T
  <2> QED
    BY <1>1, <1>2, IntervalInduction
<1>4. N \in T
  BY <1>3
<1>5. \A i \in Positions : i + N > N
  BY DEF Positions
<1> QED
  BY <1>4, <1>5

\* s goes on where t ends.
IsPrefix(t, s) == Len(t) \leq Len(s) /\ \A k \in 1..Len(t) : t[k] = s[k]

\* An escape that is complete in t is the same in s.
LEMMA UnicodePrefix ==
  ASSUME NEW s \in Seq(Nat), NEW t \in Seq(Nat), IsPrefix(t, s), NEW j \in Positions,
         UnicodeEscape(t, j).ok
  PROVE  UnicodeEscape(s, j) = UnicodeEscape(t, j)
<1>1. j \in Nat /\ j \geq 1 /\ Len(t) \in Nat /\ Len(s) \in Nat /\ Len(t) \leq Len(s)
      /\ \A k \in 1..Len(t) : t[k] = s[k]
  BY DEF Positions, IsPrefix
<1>2. QuadAt(t, j) /\ ~LowSurrogate(QuadValue(t, j))
  BY DEF UnicodeEscape, NoCode
<1>3. j \leq Len(t) /\ j \leq Len(s) /\ t[j] = s[j] /\ QuadAt(s, j) /\ QuadValue(s, j) = QuadValue(t, j)
  BY <1>1, <1>2 DEF QuadAt, QuadValue
<1>4. CASE ~HighSurrogate(QuadValue(t, j))
  BY <1>2, <1>3, <1>4 DEF UnicodeEscape
<1>5. CASE HighSurrogate(QuadValue(t, j))
  <2>1. /\ Is(t, j + 1, Backslash) /\ Is(t, j + 2, LetterU)
        /\ QuadAt(t, j + 3) /\ LowSurrogate(QuadValue(t, j + 3))
    BY <1>2, <1>5 DEF UnicodeEscape, NoCode
  <2>2. /\ j + 1 \in 1..Len(t) /\ j + 2 \in 1..Len(t) /\ j + 3 \in 1..Len(t)
    <3>1. j + 1 \leq Len(t) /\ j + 2 \leq Len(t) /\ j + 3 \leq Len(t)
      BY <2>1 DEF Is, QuadAt
    <3> QED
      BY <1>1, <3>1
  <2>3. /\ j + 1 \leq Len(s) /\ j + 2 \leq Len(s) /\ j + 3 \leq Len(s)
        /\ s[j + 1] = t[j + 1] /\ s[j + 2] = t[j + 2] /\ s[j + 3] = t[j + 3]
    <3>1. \A k \in 1..Len(t) : k \leq Len(s) /\ s[k] = t[k]
      BY <1>1
    <3> QED
      BY <2>2, <3>1
  <2>4. /\ Is(s, j + 1, Backslash) /\ Is(s, j + 2, LetterU)
        /\ QuadAt(s, j + 3) /\ QuadValue(s, j + 3) = QuadValue(t, j + 3)
    BY <2>1, <2>3 DEF Is, QuadAt, QuadValue
  <2> QED
    BY <1>2, <1>3, <1>5, <2>1, <2>4 DEF UnicodeEscape
<1> QED
  BY <1>4, <1>5

\* StringLoop fails at a backslash that ends the text.
LEMMA BackslashEnds ==
  ASSUME NEW s \in Seq(Nat), NEW strict \in BOOLEAN, NEW p \in Positions,
         p \leq Len(s), s[p] = 92, p + 1 > Len(s)
  PROVE  StringLoop(s, p, strict) = Fail
<1>1. ~(p > Len(s)) /\ ~Is(s, p, Quote) /\ ~(s[p] < 32) /\ s[p] = Backslash
  BY DEF Is, Quote, Backslash, Positions
<1> QED
  BY <1>1, StringLoopEquation

\* A string that ends inside t is the same string in s.
LEMMA StringPrefix ==
  ASSUME NEW s \in Seq(Nat), NEW t \in Seq(Nat), IsPrefix(t, s), NEW strict \in BOOLEAN
  PROVE  \A i \in Positions : StringLoop(t, i, strict).ok =>
           StringLoop(s, i, strict) = StringLoop(t, i, strict)
           /\ StringLoop(t, i, strict).next \leq Len(t) + 1
<1> DEFINE Claim(i) == StringLoop(t, i, strict).ok =>
                         StringLoop(s, i, strict) = StringLoop(t, i, strict)
                         /\ StringLoop(t, i, strict).next \leq Len(t) + 1
           S == {i \in Positions : Claim(i)}
<1>1. Len(t) \in Nat /\ Len(s) \in Nat /\ Len(t) \leq Len(s) /\ ~Fail.ok
      /\ (\A k \in 1..Len(t) : t[k] = s[k])
  BY DEF IsPrefix, Fail
<1>2. ASSUME NEW i \in Positions PROVE StringLoop(t, i, strict) \in Parsed
                                       /\ StringLoop(s, i, strict) \in Parsed
  BY StringLoopEquation
<1>3. ASSUME NEW i \in Positions, i > Len(t) PROVE i \in S
  <2>1. StringLoop(t, i, strict) = Fail
    BY <1>3, StringLoopEquation
  <2> QED
    BY <1>1, <2>1
<1>4. ASSUME NEW bytes \in Seq(Nat), NEW i \in Positions, NEW j \in Positions, j \in S,
             StringLoop(t, i, strict) = Then(bytes, StringLoop(t, j, strict)),
             StringLoop(s, i, strict) = Then(bytes, StringLoop(s, j, strict))
      PROVE  i \in S
  <2> SUFFICES ASSUME StringLoop(t, i, strict).ok
               PROVE  StringLoop(s, i, strict) = StringLoop(t, i, strict)
                      /\ StringLoop(t, i, strict).next \leq Len(t) + 1
    OBVIOUS
  <2> DEFINE r == StringLoop(t, j, strict)
  <2>1. r \in Parsed /\ StringLoop(t, i, strict) = Then(bytes, r)
    BY <1>2, <1>4
  <2>2. r.ok => StringLoop(s, j, strict) = r /\ r.next \leq Len(t) + 1
    BY <1>4
  <2> HIDE DEF r
  <2>3. r.ok
    BY <2>1, ThenLemma, ZenonT(40)
  <2>4. Then(bytes, r).next = r.next
    BY <2>1, <2>3, ThenLemma
  <2> QED
    BY <1>4, <2>1, <2>2, <2>3, <2>4
<1> HIDE DEF S
<1>5. ASSUME NEW i \in Positions, \A j \in Positions : j > i => j \in S
      PROVE  i \in S
  <2>1. CASE i > Len(t)
    BY <1>3, <2>1
  <2>2. CASE i \leq Len(t) /\ t[i] = 34
    <3>1. i \leq Len(s) /\ s[i] = 34 /\ i \in Nat
      BY <1>1, <2>2 DEF Positions
    <3>2. StringLoop(t, i, strict) = [ok |-> TRUE, value |-> <<>>, next |-> i + 1]
      BY <2>2, QuoteRead
    <3>3. StringLoop(s, i, strict) = [ok |-> TRUE, value |-> <<>>, next |-> i + 1]
      BY <3>1, QuoteRead
    <3>4. i + 1 \leq Len(t) + 1
      BY <1>1, <2>2, <3>1
    <3>5. StringLoop(t, i, strict).next = i + 1
      BY <3>2
    <3> QED
      BY <3>2, <3>3, <3>4, <3>5 DEF S
  <2>3. CASE i \leq Len(t) /\ t[i] \notin {34, 92}
    <3>1. i \leq Len(s) /\ s[i] = t[i] /\ t[i] \in Nat /\ i + 1 \in Positions /\ i + 1 > i
      BY <1>1, <2>3 DEF Positions
    <3>2. StringLoop(t, i, strict) =
            IF strict /\ t[i] < 32 THEN Fail ELSE Then(<<t[i]>>, StringLoop(t, i + 1, strict))
      BY <2>3, CharacterRead
    <3>3. StringLoop(s, i, strict) =
            IF strict /\ s[i] < 32 THEN Fail ELSE Then(<<s[i]>>, StringLoop(s, i + 1, strict))
      BY <2>3, <3>1, CharacterRead
    <3>4. CASE strict /\ t[i] < 32
      BY <1>1, <3>2, <3>4 DEF S
    <3>5. CASE ~(strict /\ t[i] < 32)
      <4>1. <<t[i]>> \in Seq(Nat) /\ i + 1 \in S
        BY <1>5, <3>1
      <4>2. /\ StringLoop(t, i, strict) = Then(<<t[i]>>, StringLoop(t, i + 1, strict))
            /\ StringLoop(s, i, strict) = Then(<<t[i]>>, StringLoop(s, i + 1, strict))
        BY <3>1, <3>2, <3>3, <3>5
      <4> QED
        BY <1>4, <3>1, <4>1, <4>2
    <3> QED
      BY <3>4, <3>5
  <2>4. CASE i \leq Len(t) /\ t[i] = 92
    <3>1. i \leq Len(s) /\ s[i] = 92 /\ i \in Nat /\ i + 1 \in Positions /\ i + 2 \in Positions
      BY <1>1, <2>4 DEF Positions
    <3>2. CASE i + 1 > Len(t)
      <4>1. StringLoop(t, i, strict) = Fail
        BY <2>4, <3>2, BackslashEnds
      <4> QED
        BY <1>1, <4>1 DEF S
    <3>3. CASE i + 1 \leq Len(t) /\ t[i + 1] \in DOMAIN ShortEscapes
      <4>1. i + 1 \leq Len(s) /\ s[i + 1] = t[i + 1]
        BY <1>1, <3>1, <3>3
      <4> DEFINE bytes == <<ShortEscapes[t[i + 1]]>>
      <4>2. StringLoop(t, i, strict) = Then(bytes, StringLoop(t, i + 2, strict))
        BY <2>4, <3>3, EscapeRead
      <4>3. StringLoop(s, i, strict) = Then(bytes, StringLoop(s, i + 2, strict))
        BY <3>1, <3>3, <4>1, EscapeRead
      <4>4. bytes \in Seq(Nat) /\ i + 2 \in S
        <5>1. ShortEscapes[t[i + 1]] \in Nat
          BY <3>3 DEF ShortEscapes
        <5>2. i + 2 > i
          BY <3>1
        <5> QED
          BY <1>5, <3>1, <5>1, <5>2
      <4> HIDE DEF bytes
      <4> QED
        BY <1>4, <3>1, <4>2, <4>3, <4>4
    <3>4. CASE i + 1 \leq Len(t) /\ t[i + 1] = 117 /\ UnicodeEscape(t, i + 2).ok
      <4>1. i + 1 \leq Len(s) /\ s[i + 1] = 117
        BY <1>1, <3>1, <3>4
      <4>2. UnicodeEscape(s, i + 2) = UnicodeEscape(t, i + 2)
        BY <3>1, <3>4, UnicodePrefix
      <4> DEFINE e == UnicodeEscape(t, i + 2)
                 bytes == AppendCodePoint(e.code)
      <4>3. e.code \in Nat /\ e.next \in ((i + 2) + 1)..(Len(t) + 1)
        BY <3>1, <3>4, EscapeType
      <4>4. StringLoop(t, i, strict) = Then(bytes, StringLoop(t, e.next, strict))
        BY <2>4, <3>4, EscapeRead
      <4>5. StringLoop(s, i, strict) = Then(bytes, StringLoop(s, e.next, strict))
        <5>1. UnicodeEscape(s, i + 2).ok
          BY <3>4, <4>2
        <5>2. StringLoop(s, i, strict) =
                Then(AppendCodePoint(UnicodeEscape(s, i + 2).code),
                     StringLoop(s, UnicodeEscape(s, i + 2).next, strict))
          BY <3>1, <4>1, <5>1, EscapeRead
        <5> QED
          BY <4>2, <5>2
      <4>6. bytes \in Seq(Nat)
        BY <4>3, CodePointType
      <4> HIDE DEF e, bytes
      <4>7. e.next \in Positions /\ e.next > i
        BY <1>1, <3>1, <4>3, SMTT(30) DEF Positions
      <4> QED
        BY <1>4, <1>5, <4>4, <4>5, <4>6, <4>7
    <3>5. CASE /\ i + 1 \leq Len(t) /\ t[i + 1] \notin DOMAIN ShortEscapes
               /\ ~(t[i + 1] = 117 /\ UnicodeEscape(t, i + 2).ok)
      <4>1. StringLoop(t, i, strict) = Fail
        BY <2>4, <3>5, EscapeRead
      <4> QED
        BY <1>1, <4>1 DEF S
    <3> QED
      BY <1>1, <3>1, <3>2, <3>3, <3>4, <3>5
  <2> QED
    BY <1>1, <2>1, <2>2, <2>3, <2>4 DEF Positions
<1>6. Positions \subseteq S
  BY <1>1, <1>3, <1>5, BackwardInduction
<1> QED
  BY <1>6 DEF S

-----------------------------------------------------------------------------
(***************************************************************************)
(* Spelled strings, whole and cut.                                         *)
(***************************************************************************)
\* A text that is cut is a prefix of it.
LEMMA CutLemma ==
  ASSUME NEW s \in Seq(Nat), NEW n \in 0..Len(s)
  PROVE  SubSeq(s, 1, n) \in Seq(Nat) /\ Len(SubSeq(s, 1, n)) = n
         /\ IsPrefix(SubSeq(s, 1, n), s)
<1>1. SubSeq(s, 1, n) \in Seq(Nat) /\ Len(SubSeq(s, 1, n)) = n
  OBVIOUS
<1>2. \A k \in 1..n : SubSeq(s, 1, n)[k] = s[k]
  OBVIOUS
<1> QED
  BY <1>1, <1>2 DEF IsPrefix

\* A text stands in itself.
LEMMA OccursSelf ==
  ASSUME NEW s \in Seq(Nat)
  PROVE  Occurs(s, 1, s)
<1>1. Len(s) \in Nat
  OBVIOUS
<1>2. \A k \in 1..Len(s) : 1 + k - 1 = k
  OBVIOUS
<1> QED
  BY <1>1, <1>2 DEF Occurs

\* A string that is read to its end ends behind its opening quote, and not before
\* the quote that closes it.
LEMMA SpelledText ==
  ASSUME NEW us \in Seq(Spellings)
  PROVE  LET spelled == <<Quote>> \o Raw(us) \o <<Quote>>
         IN  /\ spelled \in Seq(Nat) /\ Len(spelled) = Len(Raw(us)) + 2
             /\ ParseString(spelled, 1) = StringLoop(spelled, 2, TRUE)
             /\ \A strict \in BOOLEAN : StringLoop(spelled, 2, strict) =
                  IF Readable(us, strict)
                  THEN [ok |-> TRUE, value |-> Denoted(us), next |-> Len(spelled) + 1]
                  ELSE Fail
<1> DEFINE raw == Raw(us)
           q == << 34 >>
           spelled == (q \o raw) \o q
<1>1. raw \in Seq(Nat) /\ q \in Seq(Nat) /\ Len(q) = 1 /\ <<>> \in Seq(Nat)
  BY PartsType
<1>2. Len(raw) \in Nat
  BY <1>1
<1> HIDE DEF raw, q
<1>3. spelled \in Seq(Nat) /\ Len(spelled) = Len(raw) + 2
  <2>1. spelled \in Seq(Nat) /\ Len(spelled) = Len(q) + Len(raw) + Len(q)
    BY <1>1, OccursBetween
  <2> HIDE DEF spelled
  <2> QED
    BY <1>1, <1>2, <2>1
<1> HIDE DEF spelled
<1>4. Occurs(spelled, 1, spelled)
  BY <1>3, OccursSelf
<1>5. 1 \in Positions /\ 2 \in Positions
  BY DEF Positions
<1>6. Occurs(spelled, 2, Raw(us) \o << 34 >>) /\ ParseString(spelled, 1) = StringLoop(spelled, 2, TRUE)
  <2>1. Occurs(spelled, 1, (<< 34 >> \o Raw(us)) \o << 34 >>)
    BY <1>4 DEF spelled, q, raw
  <2>2. Occurs(spelled, 1 + 1, Raw(us) \o << 34 >>)
        /\ ParseString(spelled, 1) = StringLoop(spelled, 1 + 1, TRUE)
    BY <1>3, <1>5, <2>1, QuotedRead
  <2>3. 1 + 1 = 2
    OBVIOUS
  <2> QED
    BY <2>2, <2>3
<1>7. ASSUME NEW strict \in BOOLEAN
      PROVE  StringLoop(spelled, 2, strict) =
               IF Readable(us, strict)
               THEN [ok |-> TRUE, value |-> Denoted(us), next |-> Len(spelled) + 1]
               ELSE Fail
  <2>1. 2 + Len(Raw(us)) + 1 = Len(spelled) + 1
    BY <1>2, <1>3 DEF raw
  <2> QED
    BY <1>3, <1>5, <1>6, <2>1, SpelledRead
<1>8. spelled = <<Quote>> \o Raw(us) \o <<Quote>>
  BY DEF spelled, q, raw, Quote
<1> QED
  BY <1>3, <1>6, <1>7, <1>8 DEF raw

\* StringsAreUnicode holds of every text.
LEMMA SpelledUnicode ==
  ASSUME NEW us \in Seq(Spellings)
  PROVE  LET spelled == <<Quote>> \o Raw(us) \o <<Quote>>
             whole   == ParseString(spelled, 1)
             lenient == DecodeJsonStringAt(spelled, 2)
             Means(r) == r.value = Denoted(us) /\ r.next = Len(spelled) + 1
         IN  /\ whole.ok <=> WellFormed(us)
             /\ lenient.ok <=> Lenient(us)
             /\ (whole.ok => Means(whole)) /\ (lenient.ok => Means(lenient))
             /\ \A n \in 0..(Len(spelled) - 1) : ~ParseString(SubSeq(spelled, 1, n), 1).ok
<1> DEFINE spelled == <<Quote>> \o Raw(us) \o <<Quote>>
           end == [ok |-> TRUE, value |-> Denoted(us), next |-> Len(spelled) + 1]
<1>1. /\ spelled \in Seq(Nat) /\ Len(spelled) = Len(Raw(us)) + 2
      /\ ParseString(spelled, 1) = StringLoop(spelled, 2, TRUE)
      /\ \A strict \in BOOLEAN : StringLoop(spelled, 2, strict) =
           IF Readable(us, strict) THEN end ELSE Fail
  BY SpelledText
<1>2. end.ok /\ end.value = Denoted(us) /\ end.next = Len(spelled) + 1 /\ ~Fail.ok
  BY DEF Fail
<1> HIDE DEF spelled, end
<1>3. ParseString(spelled, 1) = IF Readable(us, TRUE) THEN end ELSE Fail
  BY <1>1
<1>4. DecodeJsonStringAt(spelled, 2) = IF Readable(us, FALSE) THEN end ELSE Fail
  BY <1>1 DEF DecodeJsonStringAt
<1>5. ASSUME NEW n \in 0..(Len(spelled) - 1), ParseString(SubSeq(spelled, 1, n), 1).ok
      PROVE  FALSE
  <2> DEFINE t == SubSeq(spelled, 1, n)
             r == StringLoop(t, 2, TRUE)
  <2>1. n \in 0..Len(spelled) /\ n < Len(spelled) /\ Len(spelled) \in Nat /\ n \in Nat
    BY <1>1
  <2>2. t \in Seq(Nat) /\ Len(t) = n /\ IsPrefix(t, spelled)
    BY <1>1, <2>1, CutLemma
  <2>3. ParseString(t, 1).ok
    BY <1>5
  <2> HIDE DEF t
  <2>4. ParseString(t, 1) = StringLoop(t, 1 + 1, TRUE)
    BY <1>2, <2>3 DEF ParseString
  <2>5. 1 + 1 = 2 /\ 2 \in Positions /\ TRUE \in BOOLEAN
    BY DEF Positions
  <2>6. StringLoop(t, 2, TRUE).ok
    BY <2>3, <2>4, <2>5
  <2>7. /\ StringLoop(spelled, 2, TRUE) = StringLoop(t, 2, TRUE)
        /\ StringLoop(t, 2, TRUE).next \leq n + 1
    BY <1>1, <2>2, <2>5, <2>6, StringPrefix
  <2>8. StringLoop(t, 2, TRUE) = end
    BY <1>1, <1>2, <2>6, <2>7
  <2>9. Len(spelled) + 1 \leq n + 1
    BY <1>2, <2>7, <2>8
  <2> QED
    BY <2>1, <2>9
<1> QED
  BY <1>2, <1>3, <1>4, <1>5 DEF spelled, WellFormed, Lenient

-----------------------------------------------------------------------------
(***************************************************************************)
(* Types of what is searched and read.                                     *)
(***************************************************************************)
\* First returns a position or npos.
LEMMA FirstType ==
  ASSUME NEW S, S \subseteq Nat
  PROVE  First(S) \in Nat
<1>1. CASE S = {}
  BY <1>1, FirstNone
<1>2. CASE S # {}
  BY <1>2, FirstLemma
<1> QED
  BY <1>1, <1>2

\* So do the searches.
LEMMA SearchTypes ==
  ASSUME NEW s \in Seq(Nat), NEW c, NEW i \in Nat
  PROVE  /\ Find(s, c, i) \in Nat /\ FindKey(s, c, i) \in Nat
         /\ SkipSpace(s, i) \in Nat /\ ValueStart(s, i) \in Nat
<1>1. \A j \in Nat : Find(s, c, j) \in Nat /\ Find(s, Colon, j) \in Nat
  BY FirstType DEF Find
<1>2. FindKey(s, c, i) \in Nat
  BY FirstType DEF FindKey
<1>3. \A j \in Nat : SkipSpace(s, j) \in Nat
  BY FirstType DEF SkipSpace
<1>4. i + 3 \in Nat /\ \A j \in Nat : j + 1 \in Nat
  OBVIOUS
<1>5. ValueStart(s, i) \in Nat
  BY <1>1, <1>3, <1>4 DEF ValueStart
<1> QED
  BY <1>1, <1>2, <1>3, <1>5

\* What the searches return has the type of a parsed string.
LEMMA StringValueType ==
  ASSUME NEW s \in Seq(Nat), NEW k, NEW fallback \in Seq(Nat)
  PROVE  JsonStringValue(s, k, fallback) \in Parsed
<1> DEFINE found == FindKey(s, k, 1)
           start == ValueStart(s, found)
<1>1. found \in Nat /\ start \in Nat
  BY SearchTypes
<1> HIDE DEF found, start
<1>2. Fail \in Parsed
  BY DEF Fail, Parsed
<1>3. [Fail EXCEPT !.ok = TRUE, !.value = fallback] \in Parsed
  BY DEF Fail, Parsed
<1>4. PlainString(s, start + 1) \in Parsed
  <2>1. start + 1 \in Positions
    BY <1>1 DEF Positions
  <2> QED
    BY <2>1, PlainStringEquation
<1>5. JsonStringValue(s, k, fallback) \in
        {Fail, [Fail EXCEPT !.ok = TRUE, !.value = fallback], PlainString(s, start + 1)}
  BY DEF JsonStringValue, found, start
<1> QED
  BY <1>2, <1>3, <1>4, <1>5

\* What CompletionContent returns.
LEMMA ContentType ==
  ASSUME NEW s \in Seq(Nat)
  PROVE  CompletionContent(s) \in Parsed
<1> DEFINE choices == FindKey(s, Choices, 1)
           content == FindKey(s, Content, choices)
           start   == ValueStart(s, content)
<1>1. choices \in Nat
  BY SearchTypes
<1> HIDE DEF choices
<1>2. content \in Nat
  BY <1>1, SearchTypes
<1> HIDE DEF content
<1>3. start \in Nat
  BY <1>2, SearchTypes
<1> HIDE DEF start
<1>4. Fail \in Parsed
  BY DEF Fail, Parsed
<1>5. StringLoop(s, start + 1, FALSE) \in Parsed
  <2>1. start + 1 \in Positions
    BY <1>3 DEF Positions
  <2> QED
    BY <2>1, StringLoopEquation
<1>6. CompletionContent(s) \in {Fail, StringLoop(s, start + 1, FALSE)}
  BY DEF CompletionContent, DecodeJsonStringAt, choices, content, start
<1> QED
  BY <1>4, <1>5, <1>6

\* The model of a runtime is a text.
LEMMA ConfigType ==
  ASSUME NEW file \in Seq(Nat)
  PROVE  /\ CreateFromConfig(file).ok \in BOOLEAN
         /\ CreateFromConfig(file).model \in Seq(Nat)
<1>1. <<>> \in Seq(Nat) /\ <<Model>> \in Seq(Nat) /\ <<Https, Word(20)>> \in Seq(Nat)
  BY DEF Model, Https, Word
<1>2. /\ JsonStringValue(file, ApiKey, <<>>) \in Parsed
      /\ JsonStringValue(file, Model, <<Model>>) \in Parsed
      /\ JsonStringValue(file, Endpoint, <<Https, Word(20)>>) \in Parsed
  BY <1>1, StringValueType
<1> QED
  BY <1>2 DEF CreateFromConfig, Parsed

-----------------------------------------------------------------------------
\* The text of an accepted request's content is a sequence of characters.
LEMMA JoinType ==
  ASSUME NEW parts, NEW T, parts \in Seq(T),
         \A i \in DOMAIN parts : IsTextPart(parts[i]) => parts[i].text.chars \in Seq(Nat)
  PROVE  JoinParts(parts) \in Seq(Nat)
<1> DEFINE N == Len(parts)
           V == Seq(Nat)
           Add(v, n) == IF ~IsTextPart(parts[n]) THEN v
                        ELSE v \o (IF v = <<>> THEN <<>> ELSE <<10>>) \o parts[n].text.chars
           F == [x \in V \X (1..N) |-> Add(x[1], x[2])]
<1>1. N \in Nat /\ DOMAIN parts = 1..N /\ <<>> \in V /\ <<10>> \in V
  OBVIOUS
<1>2. ASSUME NEW v \in V, NEW n \in 1..N PROVE Add(v, n) \in V
  <2>1. CASE ~IsTextPart(parts[n])
    BY <2>1
  <2>2. CASE IsTextPart(parts[n])
    <3> DEFINE gap == IF v = <<>> THEN <<>> ELSE <<10>>
               chars == parts[n].text.chars
    <3>1. gap \in Seq(Nat) /\ chars \in Seq(Nat)
      BY <1>1, <2>2
    <3>2. Add(v, n) = v \o gap \o chars
      BY <2>2
    <3> HIDE DEF gap, chars
    <3>3. v \o gap \in Seq(Nat)
      BY <3>1
    <3>4. (v \o gap) \o chars \in Seq(Nat)
      BY <3>1, <3>3
    <3> QED
      BY <3>2, <3>4
  <2> QED
    BY <2>1, <2>2
<1>3. ASSUME NEW v \in V, NEW n \in 1..N PROVE F[<<v, n>>] = Add(v, n)
  <2> HIDE DEF Add, V, N
  <2> QED
    OBVIOUS
<1>4. F \in [V \X (1..N) -> V]
  <2> HIDE DEF Add, V, N
  <2> QED
    BY <1>2
<1> HIDE DEF F
<1>5. PICK g : Iterates(g, <<>>, F, V, N)
  <2> HIDE DEF V, N
  <2> QED
    BY <1>1, <1>4, FiniteRecursion
<1> DEFINE Solves(u) == u = [n \in 0..N |-> IF n = 0 THEN <<>> ELSE Add(u[n-1], n)]
<1>6. Solves(g)
  <2>1. g \in [0..N -> V] /\ g[0] = <<>> /\ \A n \in 1..N : g[n] = F[<<g[n-1], n>>]
    BY <1>5 DEF Iterates
  <2>2. ASSUME NEW n \in 1..N PROVE g[n] = Add(g[n-1], n)
    <3>1. n - 1 \in 0..N
      BY <1>1
    <3>2. g[n-1] \in V
      BY <2>1, <3>1
    <3> HIDE DEF Add
    <3> QED
      BY <1>3, <2>1, <3>2
  <2> HIDE DEF Add, V, N
  <2>3. g = [n \in 0..N |-> g[n]]
    BY <2>1
  <2>4. \A n \in 0..N : g[n] = IF n = 0 THEN <<>> ELSE Add(g[n-1], n)
    <3> SUFFICES ASSUME NEW n \in 0..N PROVE g[n] = IF n = 0 THEN <<>> ELSE Add(g[n-1], n)
      OBVIOUS
    <3>1. n = 0 \/ n \in 1..N
      OBVIOUS
    <3> QED
      BY <2>1, <2>2, <3>1
  <2> QED
    BY <2>3, <2>4
<1> DEFINE u == CHOOSE f : Solves(f)
<1>7. Solves(u)
  <2> HIDE DEF Solves
  <2> QED
    BY <1>6
<1>8. JoinParts(parts) = u[N]
  BY DEF JoinParts
<1> HIDE DEF u
<1>9. 0..N \subseteq {n \in 0..N : u[n] \in V}
  <2> DEFINE S == {n \in 0..N : u[n] \in V}
  <2>1. 0 \in S
    BY <1>1, <1>7
  <2>2. ASSUME NEW n \in 1..N, n - 1 \in S PROVE n \in S
    <3>1. n \in 0..N /\ n # 0 /\ u[n-1] \in V
      BY <1>1, <2>2
    <3> HIDE DEF V, Add
    <3>2. u[n] = Add(u[n-1], n)
      BY <1>7, <3>1
    <3> QED
      BY <1>2, <3>1, <3>2
  <2> HIDE DEF S
  <2>3. 0..N \subseteq S
    BY <1>1, <2>1, <2>2, IntervalInduction
  <2> QED
    BY <2>3 DEF S
<1>10. N \in 0..N
  BY <1>1
<1> QED
  BY <1>8, <1>9, <1>10

\* The prompt of a request that ParseRequest accepts is a text.
LEMMA PromptType ==
  ASSUME NEW r, ParseRequest(r), IsRequest(r)
  PROVE  Prompt(r) \in Seq(Nat)
<1> DEFINE items == r.messages.items
           turn(m) == Turn(m.role.chars, MessageText(m.content))
           parts == [i \in DOMAIN items |-> turn(items[i])]
<1>1. /\ r.t = "object" /\ r.messages.t = "array"
      /\ \A i \in DOMAIN items : MessageValid(items[i])
  BY DEF ParseRequest
<1>2. /\ HasItems(r.messages)
      /\ \A i \in DOMAIN items : items[i].t = "object" =>
           HasChars(items[i].role) /\ IsContent(items[i].content)
  BY <1>1 DEF IsRequest
<1> DEFINE T == {items[i] : i \in DOMAIN items}
<1>3. items \in Seq(T)
  BY <1>2 DEF HasItems
<1>4. ASSUME NEW i \in DOMAIN items PROVE turn(items[i]) \in Seq(Nat)
  <2> DEFINE m == items[i]
  <2>1. /\ m.role.t = "string" /\ HasChars(m.role) /\ IsContent(m.content)
        /\ ReadMessageContent(m.content)
    BY <1>1, <1>2 DEF MessageValid
  <2> HIDE DEF m
  <2>2. m.role.chars \in Seq(Nat)
    BY <2>1 DEF HasChars
  <2>3. MessageText(m.content) \in Seq(Nat)
    <3>1. CASE m.content.t = "string"
      BY <2>1, <3>1 DEF MessageText, IsContent, HasChars
    <3>2. CASE m.content.t # "string"
      <4> DEFINE ps == m.content.items
                 P == {ps[j] : j \in DOMAIN ps}
      <4>1. m.content.t = "array"
        BY <2>1, <3>2 DEF ReadMessageContent
      <4>2. /\ HasItems(m.content)
            /\ \A j \in DOMAIN ps : ps[j].t = "object" => HasChars(ps[j].text)
        BY <2>1, <4>1 DEF IsContent
      <4>3. ps \in Seq(P)
        BY <4>2 DEF HasItems
      <4>4. \A j \in DOMAIN ps : IsTextPart(ps[j]) => ps[j].text.chars \in Seq(Nat)
        BY <4>2 DEF IsTextPart, HasChars
      <4>5. MessageText(m.content) = JoinParts(ps)
        BY <3>2 DEF MessageText
      <4> HIDE DEF ps, P
      <4> QED
        BY <4>3, <4>4, <4>5, JoinType
    <3> QED
      BY <3>1, <3>2
  <2> DEFINE role == m.role.chars
             text == MessageText(m.content)
  <2>4. turn(items[i]) = <<91>> \o role \o <<93, 10>> \o text \o <<10, 10>>
    BY DEF m, Turn
  <2>5. role \in Seq(Nat) /\ text \in Seq(Nat)
    BY <2>2, <2>3
  <2> HIDE DEF role, text
  <2>6. <<91>> \o role \in Seq(Nat)
    BY <2>5
  <2>7. <<91>> \o role \o <<93, 10>> \in Seq(Nat)
    BY <2>6
  <2>8. <<91>> \o role \o <<93, 10>> \o text \in Seq(Nat)
    BY <2>5, <2>7
  <2> QED
    BY <2>4, <2>8
<1>5. parts \in Seq(Seq(Nat))
  <2>1. Len(items) \in Nat /\ DOMAIN items = 1..Len(items)
    BY <1>3
  <2> HIDE DEF turn, items
  <2> QED
    BY <1>4, <2>1
<1>6. Prompt(r) = Concat(parts) \o <<91>> \o AssistantRole \o <<93, 10>>
  BY DEF Prompt
<1> HIDE DEF parts
<1>7. Concat(parts) \in Seq(Nat)
  BY <1>5, ConcatType
<1>8. <<91>> \in Seq(Nat) /\ AssistantRole \in Seq(Nat) /\ <<93, 10>> \in Seq(Nat)
  BY DEF AssistantRole, Word
<1> DEFINE c == Concat(parts)
<1> HIDE DEF c
<1>9. c \o <<91>> \in Seq(Nat)
  BY <1>7, <1>8 DEF c
<1>10. c \o <<91>> \o AssistantRole \in Seq(Nat)
  BY <1>8, <1>9
<1> QED
  BY <1>6, <1>8, <1>10 DEF c

-----------------------------------------------------------------------------
(***************************************************************************)
(* Chunks.                                                                 *)
(***************************************************************************)
\* What DecodeChunkedBody makes of the chunk at position i, when u is what it
\* makes of the positions behind.
ChunkRead(b, u, i) ==
  /\ Find(b, CRLF, i) # i + 1 => u[i] = Fail
  /\ Find(b, CRLF, i) = i + 1 /\ b[i] = ChunkSize(0) =>
       u[i] = [ok |-> TRUE, value |-> <<>>, next |-> i + 2]
  /\ \A n \in Nat : Find(b, CRLF, i) = i + 1 /\ n \geq 1 /\ b[i] = ChunkSize(n) =>
       u[i] = IF Is(b, i + n + 2, CRLF)
              THEN Then(SubSeq(b, i + 2, i + n + 1), u[i + n + 3]) ELSE Fail

\* The loop of DecodeChunkedBody is defined at each position by those behind it.
LEMMA ChunkedEquation ==
  ASSUME NEW b \in Seq(Nat)
  PROVE  \E u \in [Positions -> Parsed] :
           DecodeChunkedBody(b) = u[1] /\ \A i \in Positions : ChunkRead(b, u, i)
<1> DEFINE N == Len(b) + 1
           End(i) == Find(b, CRLF, i)
           Size(i) == b[i] - ChunkSize(0)
           Step(at, i) ==
             LET end == Find(b, CRLF, i)
                 n   == b[i] - ChunkSize(0)
             IN  IF end # i + 1 \/ n \notin Nat THEN Fail
                 ELSE IF n = 0 THEN [ok |-> TRUE, value |-> <<>>, next |-> end + 1]
                 ELSE IF Is(b, end + n + 1, CRLF)
                      THEN Then(SubSeq(b, end + 1, end + n), at[end + n + 2])
                 ELSE Fail
           F == [p \in [Positions -> Parsed] \X Positions |-> Step(p[1], p[2])]
           Eq(at) == at = [i \in Positions |-> Step(at, i)]
           u == CHOOSE at : Eq(at)
           Piece(i) == SubSeq(b, End(i) + 1, End(i) + Size(i))
           Stop(i) == [ok |-> TRUE, value |-> <<>>, next |-> End(i) + 1]
           Bad(i) == End(i) # i + 1 \/ Size(i) \notin Nat
                     \/ (Size(i) # 0 /\ ~Is(b, End(i) + Size(i) + 1, CRLF))
           Empty(i) == End(i) = i + 1 /\ Size(i) = 0
           Full(i) == /\ End(i) = i + 1 /\ Size(i) \in Nat /\ Size(i) # 0
                      /\ Is(b, End(i) + Size(i) + 1, CRLF)
<1>1. N \in Nat /\ Len(b) \in Nat
  OBVIOUS
<1>2. Fail \in Parsed
  BY DEF Fail, Parsed
<1>3. ASSUME NEW at, NEW i
      PROVE  /\ Bad(i) => Step(at, i) = Fail
             /\ Empty(i) => Step(at, i) = Stop(i)
             /\ Full(i) => Step(at, i) = Then(Piece(i), at[End(i) + Size(i) + 2])
             /\ Bad(i) \/ Empty(i) \/ Full(i)
  <2> DEFINE z == Size(i)
             e == End(i)
             stop == Stop(i)
             small == z \in Nat
             crlf == Is(b, End(i) + Size(i) + 1, CRLF)
             t == Then(Piece(i), at[End(i) + Size(i) + 2])
             j == i + 1
  <2>1. z = 0 => small
    OBVIOUS
  <2>2. Step(at, i) =
          IF e # j \/ ~small THEN Fail
          ELSE IF z = 0 THEN stop
          ELSE IF crlf THEN t ELSE Fail
    OBVIOUS
  <2>3. /\ Bad(i) <=> (e # j \/ ~small \/ (z # 0 /\ ~crlf))
        /\ Empty(i) <=> (e = j /\ z = 0)
        /\ Full(i) <=> (e = j /\ small /\ z # 0 /\ crlf)
    OBVIOUS
  <2> HIDE DEF Step, Bad, Empty, Full, z, e, small, stop, crlf, j, t
  <2>4. /\ Bad(i) => Step(at, i) = Fail
        /\ Empty(i) => Step(at, i) = stop
        /\ Full(i) => Step(at, i) = t
        /\ Bad(i) \/ Empty(i) \/ Full(i)
    BY <2>1, <2>2, <2>3
  <2> QED
    BY <2>4 DEF stop, t
<1> HIDE DEF Step
<1>4. ASSUME NEW i \in Positions, Full(i)
      PROVE  /\ Size(i) \in Nat /\ End(i) + Size(i) + 2 \in (i+1)..N
             /\ End(i) + Size(i) + 2 \in Positions /\ Piece(i) \in Seq(Nat)
  <2> DEFINE z == Size(i)
  <2>1. z \in Nat /\ i \in Nat /\ End(i) = i + 1
    <3> HIDE DEF End, Size
    <3> QED
      BY <1>4 DEF Positions
  <2>2. End(i) + z + 1 \leq Len(b)
    BY <1>4 DEF Is
  <2> HIDE DEF z
  <2>3. (i + 1) + z + 1 \leq Len(b)
    BY <2>1, <2>2
  <2>4. /\ (i + 1) + z + 2 \in (i+1)..(Len(b) + 1) /\ (i + 1) + z + 2 \in Nat
        /\ (i + 1) + z + 2 # 0 /\ (i + 1) + 1 \in Nat /\ (i + 1) + 1 \geq 1
        /\ (i + 1) + z \in Nat /\ (i + 1) + z \leq Len(b)
    BY <1>1, <2>1, <2>3
  <2>5. SubSeq(b, (i + 1) + 1, (i + 1) + z) \in Seq(Nat)
    <3> DEFINE x == (i + 1) + 1
               y == (i + 1) + z
    <3>1. x \in 1..(Len(b) + 1) /\ y \in 0..Len(b) /\ x \in Nat /\ y \in Nat /\ x \geq 1 /\ y \leq Len(b)
      BY <1>1, <2>1, <2>3, <2>4
    <3> HIDE DEF x, y
    <3>2. \A k \in x..y : b[k] \in Nat
      BY <3>1
    <3>3. SubSeq(b, x, y) \in Seq(Nat)
      BY <3>1, <3>2
    <3> QED
      BY <3>3 DEF x, y
  <2> QED
    BY <2>1, <2>4, <2>5 DEF z, Positions
<1>5. ASSUME NEW at \in [Positions -> Parsed], NEW i \in Positions
      PROVE  Step(at, i) \in Parsed
  <2>1. CASE Bad(i)
    BY <1>2, <1>3, <2>1
  <2>2. CASE Empty(i)
    <3>1. Stop(i) \in Parsed
      <4>1. End(i) + 1 \in Nat
        BY <2>2 DEF Positions
      <4> HIDE DEF End
      <4> QED
        BY <4>1 DEF Parsed
    <3> QED
      BY <1>3, <2>2, <3>1
  <2>3. CASE Full(i)
    <3>1. at[End(i) + Size(i) + 2] \in Parsed /\ Piece(i) \in Seq(Nat)
      BY <1>4, <2>3
    <3> HIDE DEF Piece, End, Size, Full
    <3>2. Then(Piece(i), at[End(i) + Size(i) + 2]) \in Parsed
      BY <3>1, ThenType
    <3> QED
      BY <1>3, <2>3, <3>2
  <2> HIDE DEF Bad, Empty, Full
  <2> QED
    BY <1>3, <2>1, <2>2, <2>3
<1>6. ASSUME NEW g, NEW h, NEW i \in Positions, \A k \in (i+1)..N : g[k] = h[k]
      PROVE  Step(g, i) = Step(h, i)
  <2>1. CASE Full(i)
    <3>1. g[End(i) + Size(i) + 2] = h[End(i) + Size(i) + 2]
      BY <1>4, <1>6, <2>1
    <3> HIDE DEF Piece, End, Size, Full
    <3> QED
      BY <1>3, <2>1, <3>1
  <2>2. CASE Bad(i) \/ Empty(i)
    <3> HIDE DEF Piece, End, Size, Full, Stop, Bad, Empty
    <3> QED
      BY <1>3, <2>2
  <2> HIDE DEF Bad, Empty, Full
  <2> QED
    BY <1>3, <2>1, <2>2
<1> HIDE DEF Bad, Empty, Full, End, Size, Stop, Piece
<1>7. \E g \in [Positions -> Parsed] : LookAhead(g, F)
  <2>1. ASSUME NEW g \in [Positions -> Parsed], NEW j \in Positions
        PROVE  F[<<g, j>>] = Step(g, j)
    OBVIOUS
  <2>2. \A g, h \in [Positions -> Parsed], j \in Positions :
          (\A k \in (j+1)..N : g[k] = h[k]) => F[<<g, j>>] = F[<<h, j>>]
    <3> SUFFICES ASSUME NEW g \in [Positions -> Parsed], NEW h \in [Positions -> Parsed],
                        NEW j \in Positions, \A k \in (j+1)..N : g[k] = h[k]
                 PROVE  F[<<g, j>>] = F[<<h, j>>]
      BY Zenon
    <3>1. Step(g, j) = Step(h, j)
      BY <1>6
    <3> HIDE DEF F
    <3> QED
      BY <2>1, <3>1
  <2>3. F \in [[Positions -> Parsed] \X Positions -> Parsed]
    BY <1>5
  <2> HIDE DEF F, N
  <2> QED
    BY <1>1, <1>2, <2>2, <2>3, BackwardRecursion
<1>8. PICK g \in [Positions -> Parsed] : \A j \in Positions : g[j] = Step(g, j)
  <2>1. PICK g \in [Positions -> Parsed] : LookAhead(g, F)
    BY <1>7
  <2>2. \A j \in Positions : F[<<g, j>>] = Step(g, j)
    OBVIOUS
  <2> HIDE DEF F
  <2> QED
    BY <2>1, <2>2 DEF LookAhead
<1>9. Eq(g)
  BY <1>8
<1>10. u = [j \in Positions |-> Step(u, j)]
  <2>1. Eq(u)
    BY <1>9
  <2> HIDE DEF u
  <2> QED
    BY <2>1
<1>11. \A j \in Positions : u[j] = g[j]
  <2>1. EqualIfBehind(u, g, N)
    <3>1. \A j \in Positions : u[j] = Step(u, j)
      <4> HIDE DEF u
      <4> QED
        BY <1>10
    <3> HIDE DEF u, N
    <3> QED
      BY <1>6, <1>8, <3>1 DEF EqualIfBehind
  <2> HIDE DEF u, N
  <2> QED
    BY ONLY <1>1, <2>1, BackwardEqual
<1>12. DecodeChunkedBody(b) = u[1]
  BY DEF DecodeChunkedBody, Step, Positions
<1> HIDE DEF u
<1>13. u \in [Positions -> Parsed] /\ \A j \in Positions : u[j] = Step(u, j)
  BY <1>8, <1>10, <1>11
<1>14. ASSUME NEW i \in Positions PROVE ChunkRead(b, u, i)
  <2>1. u[i] = Step(u, i) /\ i \in Nat
    BY <1>13 DEF Positions
  <2>2. ASSUME End(i) # i + 1 PROVE u[i] = Fail
    <3>1. Bad(i)
      BY <2>2 DEF Bad
    <3> QED
      BY <1>3, <2>1, <3>1
  <2>3. ASSUME End(i) = i + 1, b[i] = ChunkSize(0)
        PROVE  u[i] = [ok |-> TRUE, value |-> <<>>, next |-> i + 2]
    <3>1. Size(i) = 0
      BY <2>3 DEF Size, ChunkSize, FirstQuad
    <3>2. Empty(i) /\ End(i) + 1 = i + 2
      BY <2>1, <2>3, <3>1 DEF Empty
    <3> QED
      BY <1>3, <2>1, <3>2 DEF Stop
  <2>4. ASSUME NEW n \in Nat, End(i) = i + 1, n \geq 1, b[i] = ChunkSize(n)
        PROVE  u[i] = IF Is(b, i + n + 2, CRLF)
                      THEN Then(SubSeq(b, i + 2, i + n + 1), u[i + n + 3]) ELSE Fail
    <3>1. Size(i) = n
      BY <2>4 DEF Size, ChunkSize, FirstQuad
    <3>2. /\ End(i) + Size(i) + 1 = i + n + 2 /\ End(i) + Size(i) + 2 = i + n + 3
          /\ End(i) + 1 = i + 2 /\ End(i) + Size(i) = i + n + 1
      BY <2>1, <2>4, <3>1
    <3>3. Size(i) \in Nat /\ Size(i) # 0
      BY <2>4, <3>1
    <3>4. CASE Is(b, i + n + 2, CRLF)
      <4>1. Full(i)
        BY <2>4, <3>2, <3>3, <3>4 DEF Full
      <4>2. Piece(i) = SubSeq(b, i + 2, i + n + 1)
        BY <3>2 DEF Piece
      <4> QED
        BY <1>3, <2>1, <3>2, <3>4, <4>1, <4>2
    <3>5. CASE ~Is(b, i + n + 2, CRLF)
      <4>1. Bad(i)
        BY <3>2, <3>3, <3>5 DEF Bad
      <4> QED
        BY <1>3, <2>1, <3>5, <4>1
    <3> QED
      BY <3>4, <3>5
  <2> QED
    BY <2>2, <2>3, <2>4 DEF ChunkRead, End
<1> QED
  BY <1>12, <1>13, <1>14

-----------------------------------------------------------------------------
(***************************************************************************)
(* The parts of a body.                                                    *)
(***************************************************************************)
\* The characters of the head of a body.
LEMMA HeadAt ==
  ASSUME NEW s \in Seq(Nat), NEW p, p = 1, Occurs(s, p, BodyHead)
  PROVE  /\ BodyHead \in Seq(Nat) /\ Len(BodyHead) = 11 /\ 11 \leq Len(s)
         /\ s[1] = Quote /\ s[2] = Choices /\ s[3] = Quote /\ s[4] = Colon /\ s[5] = Other
         /\ s[6] = Quote /\ s[7] = Content /\ s[8] = Quote /\ s[9] = Colon /\ s[10] = Space
         /\ s[11] = Quote
<1>1. BodyHead \in Seq(Nat) /\ Len(BodyHead) = 11
  BY DEF BodyHead, Quote, Choices, Colon, Other, Content, Space, Word
<1> DEFINE head == BodyHead
<1>2. 11 \leq Len(s) /\ \A k \in 1..11 : s[k] = head[k]
  <2>1. \A k \in 1..11 : 1 + k - 1 = k
    OBVIOUS
  <2>2. Len(head) = 11
    BY <1>1
  <2> HIDE DEF head
  <2>3. 1 + 11 \leq Len(s) + 1 /\ \A k \in 1..11 : s[1 + k - 1] = head[k]
    BY <2>2 DEF Occurs, head
  <2>4. 11 \leq Len(s)
    BY <2>3
  <2> QED
    BY <2>1, <2>3, <2>4
<1> HIDE DEF head
<1>3. /\ s[1] = head[1] /\ s[2] = head[2] /\ s[3] = head[3] /\ s[4] = head[4]
      /\ s[5] = head[5] /\ s[6] = head[6] /\ s[7] = head[7] /\ s[8] = head[8]
      /\ s[9] = head[9] /\ s[10] = head[10] /\ s[11] = head[11]
  BY <1>2
<1>4. /\ head[1] = Quote /\ head[2] = Choices /\ head[3] = Quote /\ head[4] = Colon
      /\ head[5] = Other /\ head[6] = Quote /\ head[7] = Content /\ head[8] = Quote
      /\ head[9] = Colon /\ head[10] = Space /\ head[11] = Quote
  BY DEF head, BodyHead
<1> QED
  BY <1>1, <1>2, <1>3, <1>4

\* The rest of a body is a text of 29 characters.
LEMMA RestType ==
  ASSUME NEW finish
  PROVE  BodyRest(finish) \in Seq(Nat) /\ Len(BodyRest(finish)) = 29
<1> DEFINE w == FinishWord(finish)
<1>1. w \in Nat
  BY DEF FinishWord, LengthWord, StopWord, Word
<1>2. /\ Quote \in Nat /\ Other \in Nat /\ Colon \in Nat /\ Null \in Nat /\ FinishReason \in Nat
      /\ PromptTokens \in Nat /\ CompletionTokens \in Nat
  BY DEF Quote, Other, Colon, Null, FinishReason, PromptTokens, CompletionTokens, Word
<1> HIDE DEF w
<1>3.   <<Quote, Other, Quote, Other, Quote, Colon, Null,
    Quote, FinishReason, Quote, Colon, Quote, w, Quote, Other,
    Quote, PromptTokens, Quote, Colon, 57, 57, Other,
    Quote, CompletionTokens, Quote, Colon, 49, 50, Other>> \in Seq(Nat)
  BY <1>1, <1>2
<1>4. Len(BodyRest(finish)) = 29
  BY DEF BodyRest
<1> QED
  BY <1>3, <1>4 DEF BodyRest, w

\* The characters of the rest of a body.
LEMMA RestAt ==
  ASSUME NEW s, NEW q \in Nat, NEW finish, Occurs(s, q, BodyRest(finish))
  PROVE  /\ q + 29 \leq Len(s) + 1
         /\ s[q] = Quote /\ s[q+1] = Other /\ s[q+2] = Quote /\ s[q+3] = Other
         /\ s[q+4] = Quote /\ s[q+5] = Colon /\ s[q+6] = Null
         /\ s[q+7] = Quote /\ s[q+8] = FinishReason /\ s[q+9] = Quote /\ s[q+10] = Colon
         /\ s[q+11] = Quote /\ s[q+12] = FinishWord(finish) /\ s[q+13] = Quote
         /\ s[q+14] = Other
         /\ s[q+15] = Quote /\ s[q+16] = PromptTokens /\ s[q+17] = Quote /\ s[q+18] = Colon
         /\ s[q+19] = 57 /\ s[q+20] = 57 /\ s[q+21] = Other
         /\ s[q+22] = Quote /\ s[q+23] = CompletionTokens /\ s[q+24] = Quote
         /\ s[q+25] = Colon /\ s[q+26] = 49 /\ s[q+27] = 50 /\ s[q+28] = Other
<1> DEFINE rest == BodyRest(finish)
<1>1. Len(rest) = 29
  BY RestType
<1>2. ASSUME NEW k \in 1..29 PROVE s[q + (k - 1)] = rest[k]
  <2>1. q + k - 1 = q + (k - 1)
    OBVIOUS
  <2> QED
    BY <1>1, <2>1 DEF Occurs
<1> HIDE DEF rest
<1>3. /\ s[q] = rest[1] /\ s[q+1] = rest[2] /\ s[q+2] = rest[3] /\ s[q+3] = rest[4]
      /\ s[q+4] = rest[5] /\ s[q+5] = rest[6] /\ s[q+6] = rest[7] /\ s[q+7] = rest[8]
  <2>1. q + (1 - 1) = q /\ 2-1 = 1 /\ 3-1 = 2 /\ 4-1 = 3 /\ 5-1=4 /\ 6-1=5 /\ 7-1=6 /\ 8-1=7
    OBVIOUS
  <2> QED
    BY <1>2, <2>1
<1>4. /\ s[q+8] = rest[9] /\ s[q+9] = rest[10] /\ s[q+10] = rest[11] /\ s[q+11] = rest[12]
      /\ s[q+12] = rest[13] /\ s[q+13] = rest[14] /\ s[q+14] = rest[15]
  <2>1. 9-1 = 8 /\ 10-1 = 9 /\ 11-1 = 10 /\ 12-1 = 11 /\ 13-1 = 12 /\ 14-1 = 13 /\ 15-1 = 14
    OBVIOUS
  <2> QED
    BY <1>2, <2>1
<1>5. /\ s[q+15] = rest[16] /\ s[q+16] = rest[17] /\ s[q+17] = rest[18] /\ s[q+18] = rest[19]
      /\ s[q+19] = rest[20] /\ s[q+20] = rest[21] /\ s[q+21] = rest[22]
  <2>1. 16-1 = 15 /\ 17-1 = 16 /\ 18-1 = 17 /\ 19-1 = 18 /\ 20-1 = 19 /\ 21-1 = 20 /\ 22-1 = 21
    OBVIOUS
  <2> QED
    BY <1>2, <2>1
<1>6. /\ s[q+22] = rest[23] /\ s[q+23] = rest[24] /\ s[q+24] = rest[25] /\ s[q+25] = rest[26]
      /\ s[q+26] = rest[27] /\ s[q+27] = rest[28] /\ s[q+28] = rest[29]
  <2>1. 23-1 = 22 /\ 24-1 = 23 /\ 25-1 = 24 /\ 26-1 = 25 /\ 27-1 = 26 /\ 28-1 = 27 /\ 29-1 = 28
    OBVIOUS
  <2> QED
    BY <1>2, <2>1
<1>7. q + 29 \leq Len(s) + 1
  BY <1>1 DEF Occurs, rest
<1>8. /\ rest[1] = Quote /\ rest[2] = Other /\ rest[3] = Quote /\ rest[4] = Other
      /\ rest[5] = Quote /\ rest[6] = Colon /\ rest[7] = Null /\ rest[8] = Quote
      /\ rest[9] = FinishReason /\ rest[10] = Quote /\ rest[11] = Colon /\ rest[12] = Quote
      /\ rest[13] = FinishWord(finish) /\ rest[14] = Quote /\ rest[15] = Other
  BY DEF rest, BodyRest
<1>9. /\ rest[16] = Quote /\ rest[17] = PromptTokens /\ rest[18] = Quote /\ rest[19] = Colon
      /\ rest[20] = 57 /\ rest[21] = 57 /\ rest[22] = Other
      /\ rest[23] = Quote /\ rest[24] = CompletionTokens /\ rest[25] = Quote
      /\ rest[26] = Colon /\ rest[27] = 49 /\ rest[28] = 50 /\ rest[29] = Other
  BY DEF rest, BodyRest
<1> QED
  BY <1>3, <1>4, <1>5, <1>6, <1>7, <1>8, <1>9

-----------------------------------------------------------------------------
(***************************************************************************)
(* Types of bodies, responses and results.                                 *)
(***************************************************************************)
\* A body is a text, and its length.
LEMMA BodyType ==
  ASSUME NEW a, a.units \in Seq(Spellings)
  PROVE  Body(a) \in Seq(Nat) /\ Len(Body(a)) = 40 + Len(Raw(a.units))
<1> DEFINE raw == Raw(a.units)
           rest == BodyRest(a.finish)
<1>1. raw \in Seq(Nat) /\ rest \in Seq(Nat) /\ Len(rest) = 29
  BY PartsType, RestType
<1>2. BodyHead \in Seq(Nat) /\ Len(BodyHead) = 11
  BY DEF BodyHead, Quote, Choices, Colon, Other, Content, Space, Word
<1> HIDE DEF raw, rest
<1>3. BodyHead \o raw \in Seq(Nat) /\ Len(BodyHead \o raw) = 11 + Len(raw)
  <2>1. BodyHead \o raw \in Seq(Nat) /\ Len(BodyHead \o raw) = Len(BodyHead) + Len(raw)
    BY <1>1, <1>2, NatSequences, ZenonT(40)
  <2> QED
    BY <1>2, <2>1
<1> DEFINE x == BodyHead \o raw
<1> HIDE DEF x
<1>4. x \o rest \in Seq(Nat) /\ Len(x \o rest) = Len(x) + Len(rest)
  BY <1>1, <1>3, NatSequences, ZenonT(40) DEF x
<1>5. Len(x) = 11 + Len(raw) /\ Len(raw) \in Nat
  BY <1>1, <1>3 DEF x
<1>6. Len(x \o rest) = 40 + Len(raw)
  BY <1>1, <1>4, <1>5
<1>7. Body(a) = x \o rest
  BY DEF Body, x, raw, rest
<1> QED
  BY <1>4, <1>6, <1>7 DEF raw

\* The symbols of HTTP are characters.
LEMMA SymbolTypes ==
  /\ CRLF \in Nat /\ Other \in Nat /\ Chunked \in Nat /\ \A n \in Nat : ChunkSize(n) \in Nat /\ Status(n) \in Nat
BY DEF CRLF, Other, Chunked, ChunkSize, Status, Word, FirstQuad

\* A chunk is a text.
LEMMA ChunkType ==
  ASSUME NEW s \in Seq(Nat)
  PROVE  Chunk(s) \in Seq(Nat)
<1>1. <<ChunkSize(Len(s)), CRLF>> \in Seq(Nat) /\ <<CRLF>> \in Seq(Nat)
  BY SymbolTypes
<1>2. <<ChunkSize(Len(s)), CRLF>> \o s \in Seq(Nat)
  BY <1>1
<1>3. (<<ChunkSize(Len(s)), CRLF>> \o s) \o <<CRLF>> \in Seq(Nat)
  BY <1>1, <1>2
<1> QED
  BY <1>3 DEF Chunk

\* A response is a text.
LEMMA ResponseType ==
  ASSUME NEW a, IsAnswer(a)
  PROVE  Response(a) \in Seq(Nat)
<1> DEFINE body == Body(a)
           left == SubSeq(body, 1, a.split)
           right == SubSeq(body, a.split + 1, Len(body))
           status == <<Status(a.status), CRLF>>
           plain == <<Other, CRLF, CRLF>>
           chunked == <<Chunked, CRLF, CRLF>>
           last == <<ChunkSize(0), CRLF, CRLF>>
<1>1. /\ body \in Seq(Nat) /\ status \in Seq(Nat) /\ plain \in Seq(Nat)
      /\ chunked \in Seq(Nat) /\ last \in Seq(Nat)
  <2>1. body \in Seq(Nat) /\ a.status \in Nat
    BY BodyType DEF IsAnswer
  <2>2. CRLF \in Nat /\ Other \in Nat /\ Chunked \in Nat /\ ChunkSize(0) \in Nat
        /\ Status(a.status) \in Nat
    BY <2>1, SymbolTypes
  <2> QED
    BY <2>1, <2>2
<1>2. CASE a.split = 0
  <2>1. Response(a) = status \o (plain \o body)
    BY <1>2 DEF Response
  <2> HIDE DEF body, status, plain
  <2>2. plain \o body \in Seq(Nat)
    BY <1>1
  <2> QED
    BY <1>1, <2>1, <2>2
<1>3. CASE a.split # 0
  <2>1. Response(a) = status \o (((chunked \o Chunk(left)) \o Chunk(right)) \o last)
    BY <1>3 DEF Response
  <2>2. a.split \in Nat /\ a.split < Len(body)
    BY DEF IsAnswer
  <2>3. Len(body) \in Nat
    <3> HIDE DEF body
    <3> QED
      BY <1>1
  <2> DEFINE m == Len(body)
             n == a.split
  <2> HIDE DEF body, m, n
  <2>4. left \in Seq(Nat) /\ right \in Seq(Nat)
    <3>1. m \in Nat /\ n \in Nat /\ n \leq m
      BY <2>2, <2>3 DEF m, n
    <3>2. n + 1 \in Nat /\ n + 1 \geq 1
      BY <3>1
    <3>3. /\ \A k \in 1..n : body[k] \in Nat
          /\ \A k \in (n+1)..m : body[k] \in Nat
      BY <1>1, <3>1, <3>2 DEF m
    <3>4. SubSeq(body, 1, n) \in Seq(Nat) /\ SubSeq(body, n + 1, m) \in Seq(Nat)
      BY <3>1, <3>2, <3>3
    <3> QED
      BY <3>4 DEF m, n
  <2> HIDE DEF left, right
  <2>5. Chunk(left) \in Seq(Nat) /\ Chunk(right) \in Seq(Nat)
    BY <2>4, ChunkType
  <2> HIDE DEF status, chunked, last
  <2>6. chunked \o Chunk(left) \in Seq(Nat)
    BY <1>1, <2>5
  <2>7. (chunked \o Chunk(left)) \o Chunk(right) \in Seq(Nat)
    BY <2>5, <2>6
  <2>8. ((chunked \o Chunk(left)) \o Chunk(right)) \o last \in Seq(Nat)
    BY <1>1, <2>7
  <2> QED
    BY <1>1, <2>1, <2>8
<1> QED
  BY <1>2, <1>3

\* What DecodeChunkedBody returns.
LEMMA ChunkedType ==
  ASSUME NEW b \in Seq(Nat)
  PROVE  DecodeChunkedBody(b) \in Parsed
BY ChunkedEquation DEF Positions

\* What HttpBody returns.
LEMMA HttpType ==
  ASSUME NEW r \in Seq(Nat)
  PROVE  HttpBody(r) \in Parsed
<1> DEFINE headersEnd == First({i \in 1..(Len(r) - 1) : r[i] = CRLF /\ r[i + 1] = CRLF})
           rest == SubSeq(r, headersEnd + 2, Len(r))
           chunked == \E i \in 1..headersEnd : r[i] = Chunked
           body == IF chunked THEN DecodeChunkedBody(rest)
                   ELSE [ok |-> TRUE, value |-> rest, next |-> 0]
<1>1. headersEnd \in Nat
  BY FirstType
<1>2. rest \in Seq(Nat)
  <2> HIDE DEF headersEnd
  <2>1. headersEnd + 2 \in Nat /\ headersEnd + 2 \geq 1 /\ Len(r) \in Nat
    BY <1>1
  <2> DEFINE x == headersEnd + 2
  <2> HIDE DEF x
  <2>2. \A k \in x..Len(r) : r[k] \in Nat
    BY <2>1 DEF x
  <2>3. SubSeq(r, x, Len(r)) \in Seq(Nat)
    BY <2>1, <2>2 DEF x
  <2> QED
    BY <2>3 DEF x
<1> HIDE DEF rest
<1>3. body \in Parsed
  <2>1. [ok |-> TRUE, value |-> rest, next |-> 0] \in Parsed
    BY <1>2 DEF Parsed
  <2> HIDE DEF chunked
  <2> QED
    BY <1>2, <2>1, ChunkedType
<1>4. Fail \in Parsed
  BY DEF Fail, Parsed
<1>5. HttpBody(r) \in {body, Fail}
  <2>1. HttpBody(r) = IF headersEnd # 0 /\ body.ok /\ HttpOk(r[1] - Status(0))
                      THEN body ELSE Fail
    BY DEF HttpBody, rest
  <2> HIDE DEF headersEnd, chunked, body
  <2> QED
    BY <2>1
<1> QED
  BY <1>3, <1>4, <1>5

\* A result is Ok or InternalError, and its text a text.
LEMMA ResultType ==
  ASSUME NEW r \in Seq(Nat)
  PROVE  ResultOf(r).status \in {"Ok", "InternalError"} /\ ResultOf(r).text \in Seq(Nat)
<1>1. HttpBody(r) \in Parsed
  BY HttpType
<1>2. HttpBody(r).value \in Seq(Nat)
  BY <1>1 DEF Parsed
<1>3. CompletionContent(HttpBody(r).value) \in Parsed
  BY <1>2, ContentType
<1>4. CompletionContent(HttpBody(r).value).value \in Seq(Nat)
  BY <1>3 DEF Parsed
<1>5. NoResult.status = "InternalError" /\ NoResult.text \in Seq(Nat)
  BY DEF NoResult
<1> DEFINE ok == HttpBody(r).ok /\ CompletionContent(HttpBody(r).value).ok
                 /\ JsonStringValue(HttpBody(r).value, FinishReason, <<StopWord>>).ok
<1>6. CASE ok
  <2>1. ResultOf(r).status = "Ok" /\ ResultOf(r).text = CompletionContent(HttpBody(r).value).value
    BY <1>6 DEF ResultOf
  <2> QED
    BY <1>4, <2>1
<1>7. CASE ~ok
  <2>1. ResultOf(r) = NoResult
    BY <1>7 DEF ResultOf
  <2> QED
    BY <1>5, <2>1
<1> QED
  BY <1>6, <1>7

-----------------------------------------------------------------------------
(***************************************************************************)
(* The request body.                                                       *)
(***************************************************************************)
\* The characters from p to q of s are t.
Reads(s, p, q, t) == SubSeq(s, p, q) = t

\* A text that stands in s can be cut out of it.
LEMMA OccursSub ==
  ASSUME NEW s \in Seq(Nat), NEW t \in Seq(Nat), NEW p \in Positions, NEW q \in Nat,
         Occurs(s, p, t), q = p + Len(t) - 1
  PROVE  Reads(s, p, q, t)
<1> DEFINE n == Len(t)
<1>1. n \in Nat /\ p \in Nat /\ p \geq 1 /\ q = p + n - 1 /\ Len(s) \in Nat /\ q \leq Len(s)
  BY DEF Positions, Occurs
<1>2. \A k \in 1..n : s[p + k - 1] = t[k]
  BY DEF Occurs
<1> HIDE DEF n
<1>3. \A k \in p..q : s[k] \in Nat
  BY <1>1
<1>4. SubSeq(s, p, q) \in Seq(Nat) /\ Len(SubSeq(s, p, q)) = n
  <2>1. q - p + 1 = n
    BY <1>1
  <2>2. Len(SubSeq(s, p, q)) = IF p \leq q THEN q - p + 1 ELSE 0
    BY <1>1
  <2>3. ~(p \leq q) => n = 0
    BY <1>1
  <2> QED
    BY <1>1, <1>3, <2>1, <2>2, <2>3
<1> DEFINE w == SubSeq(s, p, q)
<1>5. ASSUME NEW k \in 1..n PROVE w[k] = t[k]
  <2>1. k + p - 1 = p + k - 1
    BY <1>1
  <2>2. w[k] = s[p + k - 1]
    BY <1>1, <2>1
  <2> QED
    BY <1>2, <2>2
<1>6. w \in Seq(Nat) /\ Len(w) = Len(t) /\ \A k \in 1..Len(w) : w[k] = t[k]
  BY <1>4, <1>5 DEF n
<1> HIDE DEF w
<1>7. w = t
  BY <1>6, SeqEqual
<1> QED
  BY <1>7 DEF w, Reads

\* Three texts may be put together in either order.
Grouped(a, b, c) == (a \o b) \o c = a \o (b \o c)

\* They always may.
LEMMA Regroup ==
  ASSUME NEW a \in Seq(Nat), NEW b \in Seq(Nat), NEW c \in Seq(Nat)
  PROVE  Grouped(a, b, c)
BY ConcatAssociative DEF Grouped

\* The length of two texts one after the other.
LEMMA Joined ==
  ASSUME NEW a \in Seq(Nat), NEW b \in Seq(Nat)
  PROVE  a \o b \in Seq(Nat) /\ Len(a \o b) = Len(a) + Len(b)
BY ConcatProperties

\* Two characters one after the other.
LEMMA PairJoined ==
  ASSUME NEW c \in Nat, NEW q \in Nat
  PROVE  <<c>> \o <<q>> = <<c, q>>
<1> DEFINE x == <<c>> \o <<q>>
           y == <<c, q>>
<1>1. x \in Seq(Nat) /\ Len(x) = 2 /\ x[1] = c /\ x[2] = q
  OBVIOUS
<1>2. y \in Seq(Nat) /\ Len(y) = 2 /\ y[1] = c /\ y[2] = q
  OBVIOUS
<1> HIDE DEF x, y
<1>3. \A i \in 1..Len(x) : x[i] = y[i]
  BY <1>1, <1>2
<1>4. x = y
  BY <1>1, <1>2, <1>3, SeqEqual
<1> QED
  BY <1>4 DEF x, y

\* Quotes around e, behind x.
Moved(x, q, e) == ((x \o q) \o e) \o q = x \o ((q \o e) \o q) /\ (q \o e) \o q \in Seq(Nat)

\* A quote at the end of a text may as well begin the next one.
LEMMA QuotesMove ==
  ASSUME NEW x \in Seq(Nat), NEW q \in Seq(Nat), NEW e \in Seq(Nat)
  PROVE  Moved(x, q, e)
<1> DEFINE y == q \o e
<1>1. (x \o q) \o e = x \o y
  BY Regroup DEF Grouped
<1>2. y \in Seq(Nat)
  BY Joined
<1> HIDE DEF y
<1>3. Grouped(x, y, q)
  BY <1>2, Regroup
<1>4. y \o q \in Seq(Nat)
  BY <1>2, Joined
<1> QED
  BY <1>1, <1>3, <1>4 DEF y, Moved, Grouped

\* The parts of the request body: twice a key with its colon and a quoted string.
Written(up, j, k, q, cq, d, e) == up = ((((((j \o cq) \o d) \o q) \o k) \o cq) \o e) \o q

\* The request body, as the key and colon, the model as EscapeJsonString spells it, and
\* the same again for the content.
Parts(up, jc, kc, q, d, e) == up = ((jc \o ((q \o d) \o q)) \o kc) \o ((q \o e) \o q)

\* RequestBody has these four parts.
LEMMA Assembled ==
  ASSUME NEW j \in Seq(Nat), NEW k \in Seq(Nat), NEW c \in Seq(Nat), NEW q \in Seq(Nat),
         NEW d \in Seq(Nat), NEW e \in Seq(Nat), NEW cq, cq = c \o q, NEW up,
         Written(up, j, k, q, cq, d, e)
  PROVE  Parts(up, j \o c, k \o c, q, d, e)
<1> DEFINE jc == j \o c
           kc == k \o c
           dq == (q \o d) \o q
           eq == (q \o e) \o q
<1>1. jc \in Seq(Nat) /\ kc \in Seq(Nat)
  BY Joined
<1>2. j \o cq = jc \o q /\ k \o cq = kc \o q
  <2>1. Grouped(j, c, q) /\ Grouped(k, c, q)
    BY Regroup
  <2> QED
    BY <2>1 DEF Grouped
<1> HIDE DEF jc, kc
<1>3. Moved(jc, q, d)
  BY <1>1, QuotesMove
<1>4. ((jc \o q) \o d) \o q = jc \o dq /\ dq \in Seq(Nat)
  BY <1>3 DEF Moved
<1> HIDE DEF dq
<1> DEFINE x == jc \o dq
<1>5. x \in Seq(Nat)
  BY <1>1, <1>4, Joined
<1> HIDE DEF x
<1>6. cq \in Seq(Nat)
  BY Joined
<1>7. Grouped(x, k, cq) /\ Grouped(x, kc, q)
  BY <1>1, <1>5, <1>6, Regroup
<1>8. (x \o k) \o cq = (x \o kc) \o q
  BY <1>2, <1>7 DEF Grouped
<1> DEFINE y == x \o kc
<1>9. y \in Seq(Nat)
  BY <1>1, <1>5, Joined
<1> HIDE DEF y
<1>10. Moved(y, q, e)
  BY <1>9, QuotesMove
<1>11. ((y \o q) \o e) \o q = y \o eq
  BY <1>10 DEF Moved
<1>12. up = ((((((jc \o q) \o d) \o q) \o k) \o cq) \o e) \o q
  BY <1>2 DEF Written
<1>13. up = y \o eq
  BY <1>4, <1>8, <1>11, <1>12 DEF x, y
<1> QED
  BY <1>13 DEF y, x, jc, kc, dq, eq, Parts

\* Four texts in a row.
FourOccur(up, a, m, b, t) ==
  /\ up \in Seq(Nat) /\ Len(up) = Len(a) + Len(m) + Len(b) + Len(t)
  /\ Occurs(up, 1, a) /\ Occurs(up, Len(a) + 1, m)
  /\ Occurs(up, Len(a) + Len(m) + 1, b)
  /\ Occurs(up, Len(a) + Len(m) + Len(b) + 1, t)

\* Where four texts stand one after the other.
LEMMA FourInRow ==
  ASSUME NEW a \in Seq(Nat), NEW m \in Seq(Nat), NEW b \in Seq(Nat), NEW t \in Seq(Nat),
         NEW up, up = ((a \o m) \o b) \o t
  PROVE  FourOccur(up, a, m, b, t)
<1> DEFINE am == a \o m
           amb == am \o b
<1>1. am \in Seq(Nat) /\ Len(am) = Len(a) + Len(m)
  BY Joined
<1> HIDE DEF am
<1>2. amb \in Seq(Nat) /\ Len(amb) = Len(am) + Len(b)
  BY <1>1, Joined
<1> HIDE DEF amb
<1>3. amb \o t \in Seq(Nat) /\ Len(amb \o t) = Len(amb) + Len(t)
  BY <1>2, Joined
<1>4. Occurs(amb \o t, 1, amb \o t) /\ 1 \in Positions
  <2>1. Occurs(amb \o t, 1, amb \o t)
    BY <1>3, OccursSelf, Zenon
  <2> QED
    BY <2>1 DEF Positions
<1>5. Occurs(amb \o t, 1, amb) /\ Occurs(amb \o t, 1 + Len(amb), t)
  BY <1>2, <1>3, <1>4, OccursConcat
<1>6. Occurs(amb \o t, 1, am) /\ Occurs(amb \o t, 1 + Len(am), b)
  BY <1>1, <1>3, <1>4, <1>5, OccursConcat DEF amb
<1>7. Occurs(amb \o t, 1, a) /\ Occurs(amb \o t, 1 + Len(a), m)
  BY <1>3, <1>4, <1>6, OccursConcat DEF am
<1>8. Len(a) \in Nat /\ Len(m) \in Nat /\ Len(b) \in Nat /\ Len(t) \in Nat
  OBVIOUS
<1>9. /\ 1 + Len(amb) = Len(a) + Len(m) + Len(b) + 1 /\ 1 + Len(am) = Len(a) + Len(m) + 1
      /\ 1 + Len(a) = Len(a) + 1 /\ Len(amb) + Len(t) = Len(a) + Len(m) + Len(b) + Len(t)
  BY <1>1, <1>2, <1>8
<1>10. up = amb \o t
  BY DEF amb, am
<1> QED
  BY <1>3, <1>5, <1>6, <1>7, <1>9, <1>10 DEF FourOccur

\* The keys and the strings that a parser reads from left to right.
BothRead(up, a, b, model, prompt, n) ==
  /\ SubSeq(up, 1, 4) = a
  /\ ParseString(up, 5) = [ok |-> TRUE, value |-> model, next |-> n]
  /\ SubSeq(up, n, n + 3) = b
  /\ ParseString(up, n + 4) = [ok |-> TRUE, value |-> prompt, next |-> Len(up) + 1]

\* A request body that holds two strings, escaped, is read as these two strings.
LEMMA StringsInRow ==
  ASSUME NEW a \in Seq(Nat), NEW b \in Seq(Nat), NEW model \in Seq(Nat), NEW prompt \in Seq(Nat),
         Len(a) = 4, Len(b) = 4, NEW up,
         Parts(up, a, b, << 34 >>, Escaped(model), Escaped(prompt))
  PROVE  \E n \in Nat : BothRead(up, a, b, model, prompt, n)
<1> DEFINE em == Escaped(model)
           ep == Escaped(prompt)
           m == (<< 34 >> \o em) \o << 34 >>
           t == (<< 34 >> \o ep) \o << 34 >>
           x == Len(em)
           y == Len(ep)
           n == x + 7
<1>1. em \in Seq(Nat) /\ ep \in Seq(Nat) /\ << 34 >> \in Seq(Nat) /\ Len(<< 34 >>) = 1
  <2>1. em \in Seq(Nat) /\ ep \in Seq(Nat)
    BY EscapesLemma, Zenon
  <2>2. << 34 >> \in Seq(Nat) /\ Len(<< 34 >>) = 1
    BY ONLY TRUE
  <2> QED
    BY <2>1, <2>2, Zenon
<1> HIDE DEF em, ep
<1>2. x \in Nat /\ y \in Nat
  BY <1>1
<1>3. m \in Seq(Nat) /\ Len(m) = x + 2 /\ t \in Seq(Nat) /\ Len(t) = y + 2
  <2>1. m \in Seq(Nat) /\ Len(m) = 1 + x + 1
    BY ONLY <1>1, OccursBetween DEF m, x
  <2>2. t \in Seq(Nat) /\ Len(t) = 1 + y + 1
    BY ONLY <1>1, OccursBetween DEF t, y
  <2> HIDE DEF m, t, x, y
  <2> QED
    BY ONLY <1>2, <2>1, <2>2
<1>4. up = ((a \o m) \o b) \o t
  BY DEF em, ep, Parts
<1> HIDE DEF m, t, x, y
<1>5. /\ up \in Seq(Nat) /\ Len(up) = Len(a) + Len(m) + Len(b) + Len(t)
      /\ Occurs(up, 1, a) /\ Occurs(up, Len(a) + 1, m)
      /\ Occurs(up, Len(a) + Len(m) + 1, b)
      /\ Occurs(up, Len(a) + Len(m) + Len(b) + 1, t)
  <2>1. FourOccur(up, a, m, b, t)
    BY ONLY <1>3, <1>4, a \in Seq(Nat), b \in Seq(Nat), FourInRow
  <2> QED
    BY ONLY <2>1 DEF FourOccur
<1>6. /\ Len(a) + 1 = 5 /\ Len(a) + Len(m) + 1 = n /\ Len(a) + Len(m) + Len(b) + 1 = n + 4
      /\ Len(a) + Len(m) + Len(b) + Len(t) = x + y + 12
  BY ONLY <1>2, <1>3, Len(a) = 4, Len(b) = 4 DEF n
<1>7. /\ n \in Nat /\ n \in Positions /\ n + 4 \in Positions /\ n + 3 \in Nat /\ 5 \in Positions
      /\ 1 \in Positions /\ 4 \in Nat /\ 4 = 1 + 4 - 1 /\ n + 3 = n + 4 - 1
  BY ONLY <1>2 DEF Positions, n
<1>8. 5 + x + 2 = n /\ (n + 4) + y + 2 = (x + y + 12) + 1
  BY ONLY <1>2 DEF n
<1> HIDE DEF n
<1>9. SubSeq(up, 1, 4) = a
  <2>1. 4 = 1 + Len(a) - 1
    BY ONLY <1>7, Len(a) = 4
  <2>2. Reads(up, 1, 4, a)
    BY ONLY <1>5, <1>7, <2>1, a \in Seq(Nat), OccursSub
  <2> QED
    BY ONLY <2>2 DEF Reads
<1>10. SubSeq(up, n, n + 3) = b
  <2>1. n + 3 = n + Len(b) - 1
    BY ONLY <1>7, Len(b) = 4
  <2>2. Occurs(up, n, b)
    BY ONLY <1>5, <1>6
  <2>3. Reads(up, n, n + 3, b)
    BY ONLY <1>5, <1>7, <2>1, <2>2, b \in Seq(Nat), OccursSub
  <2> QED
    BY ONLY <2>3 DEF Reads
<1>11. ParseString(up, 5) = [ok |-> TRUE, value |-> model, next |-> n]
  <2>1. Occurs(up, 5, (<< 34 >> \o Escaped(model)) \o << 34 >>)
    BY ONLY <1>5, <1>6 DEF m, em
  <2>2. ParseString(up, 5) = [ok |-> TRUE, value |-> model, next |-> 5 + Len(Escaped(model)) + 2]
    BY ONLY <1>5, <1>7, <2>1, model \in Seq(Nat), EscapedRead
  <2> QED
    BY ONLY <1>8, <2>2 DEF x, em
<1>12. ParseString(up, n + 4) = [ok |-> TRUE, value |-> prompt, next |-> Len(up) + 1]
  <2>1. Occurs(up, n + 4, (<< 34 >> \o Escaped(prompt)) \o << 34 >>)
    BY ONLY <1>5, <1>6 DEF t, ep
  <2>2. ParseString(up, n + 4)
          = [ok |-> TRUE, value |-> prompt, next |-> (n + 4) + Len(Escaped(prompt)) + 2]
    BY ONLY <1>5, <1>7, <2>1, prompt \in Seq(Nat), EscapedRead, ZenonT(40)
  <2>3. (n + 4) + Len(Escaped(prompt)) + 2 = Len(up) + 1
    BY ONLY <1>5, <1>6, <1>8 DEF y, ep
  <2> QED
    BY ONLY <2>2, <2>3
<1> QED
  BY ONLY <1>7, <1>9, <1>10, <1>11, <1>12 DEF BothRead

\* A parser reads the two strings, and the keys before them.
StringsSeen(up, model, prompt) ==
  LET m == ParseString(up, 5)
      t == ParseString(up, m.next + 4)
  IN  /\ SubSeq(up, 1, 4) = Key(Model) \o <<Colon>>
      /\ m.ok /\ m.value = model
      /\ SubSeq(up, m.next, m.next + 3) = Key(Content) \o <<Colon>>
      /\ t.ok /\ t.value = prompt /\ t.next = Len(up) + 1

\* A request body of four parts is read as its model and its prompt.
LEMMA TwoStringsRead ==
  ASSUME NEW up, NEW model \in Seq(Nat), NEW prompt \in Seq(Nat),
         up = Key(Model) \o <<Colon, Quote>> \o Escaped(model) \o <<Quote>>
                \o Key(Content) \o <<Colon, Quote>> \o Escaped(prompt) \o <<Quote>>
  PROVE  StringsSeen(up, model, prompt)
<1>1. /\ Key(Model) \in Seq(Nat) /\ Key(Content) \in Seq(Nat)
      /\ <<Colon>> \in Seq(Nat) /\ <<Quote>> \in Seq(Nat) /\ <<Colon, Quote>> \in Seq(Nat)
      /\ Len(Key(Model)) = 3 /\ Len(Key(Content)) = 3 /\ Len(<<Colon>>) = 1
  BY ONLY DEF Key, Quote, Colon, Model, Content, Word
<1>2. <<Colon, Quote>> = <<Colon>> \o <<Quote>>
  <2>1. Colon \in Nat /\ Quote \in Nat
    BY ONLY DEF Colon, Quote
  <2> QED
    BY ONLY <2>1, PairJoined
<1>3. Escaped(model) \in Seq(Nat) /\ Escaped(prompt) \in Seq(Nat)
  BY ONLY model \in Seq(Nat), prompt \in Seq(Nat), EscapesLemma
<1> DEFINE j == Key(Model)
           k == Key(Content)
           c == <<Colon>>
           q == <<Quote>>
           cq == <<Colon, Quote>>
           d == Escaped(model)
           e == Escaped(prompt)
           jc == j \o c
           kc == k \o c
<1>4. /\ j \in Seq(Nat) /\ k \in Seq(Nat) /\ c \in Seq(Nat) /\ q \in Seq(Nat) /\ cq \in Seq(Nat)
      /\ d \in Seq(Nat) /\ e \in Seq(Nat) /\ cq = c \o q /\ q = << 34 >>
      /\ Len(j) = 3 /\ Len(k) = 3 /\ Len(c) = 1
  BY ONLY <1>1, <1>2, <1>3 DEF Quote, j, k, c, q, cq, d, e
<1>5. Written(up, j, k, q, cq, d, e)
  BY DEF Written
<1> HIDE DEF j, k, c, q, cq, d, e
<1>6. Parts(up, jc, kc, q, d, e)
  BY ONLY <1>4, <1>5, Assembled DEF jc, kc
<1>7. jc \in Seq(Nat) /\ kc \in Seq(Nat) /\ Len(jc) = 4 /\ Len(kc) = 4
  <2>1. /\ jc \in Seq(Nat) /\ kc \in Seq(Nat)
        /\ Len(jc) = Len(j) + Len(c) /\ Len(kc) = Len(k) + Len(c)
    BY ONLY <1>4, Joined, Zenon DEF jc, kc
  <2> QED
    BY ONLY <1>4, <2>1
<1> HIDE DEF jc, kc
<1>8. PICK n \in Nat : BothRead(up, jc, kc, model, prompt, n)
  <2>1. Parts(up, jc, kc, << 34 >>, Escaped(model), Escaped(prompt))
    BY ONLY <1>4, <1>6 DEF d, e
  <2> QED
    BY ONLY <1>7, <2>1, model \in Seq(Nat), prompt \in Seq(Nat), StringsInRow
<1>9. jc = Key(Model) \o <<Colon>> /\ kc = Key(Content) \o <<Colon>>
  BY ONLY DEF jc, kc, j, k, c
<1> DEFINE m == ParseString(up, 5)
           t == ParseString(up, m.next + 4)
<1>10. m.ok /\ m.value = model /\ m.next = n
  BY ONLY <1>8 DEF m, BothRead
<1> HIDE DEF m
<1>11. t = [ok |-> TRUE, value |-> prompt, next |-> Len(up) + 1]
  BY ONLY <1>8, <1>10 DEF t, BothRead
<1> HIDE DEF t
<1>12. t.ok /\ t.value = prompt /\ t.next = Len(up) + 1
  BY ONLY <1>11
<1>13. SubSeq(up, m.next, m.next + 3) = kc /\ SubSeq(up, 1, 4) = jc
  BY ONLY <1>8, <1>10 DEF BothRead
<1> QED
  BY ONLY <1>9, <1>10, <1>12, <1>13 DEF m, t, StringsSeen

-----------------------------------------------------------------------------
(***************************************************************************)
(* The invariant.                                                          *)
(***************************************************************************)
(***************************************************************************)
(* The inductive invariant: what each stage has established.               *)
(***************************************************************************)
Stages == {"create", "failed", "parse", "generate", "write", "read", "respond", "responded"}

\* The runtime and the request of a call that has got that far.
CallInv ==
  /\ scenario \in Scenarios /\ stage \in Stages
  /\ stage # "create" => runtime = CreateFromConfig(scenario.file)
  /\ stage \in {"generate", "write", "read", "respond"} => ParseRequest(root)
  /\ stage \in {"write", "read"} => scenario.runtime = "DeepSeek"

\* What went over the connection.
ConnectionInv ==
  /\ upstream \in Seq(Nat) /\ got \in 0..Len(scenario.response)
  /\ stage = "read" => upstream = RequestBody

\* A result is one of the runtime's, or none.
Received == SubSeq(scenario.response, 1, got)

\* A result is that of the runtime, made of what has been received, or none.
ResultInv ==
  /\ stage \notin {"respond", "responded"} => result = NoResult
  /\ \/ result = NoResult
     \/ scenario.runtime = "DeepSeek" /\ result = ResultOf(Received)
     \/ /\ scenario.runtime \in GenerateStatuses
        /\ result = [NoResult EXCEPT !.status = scenario.runtime]

\* The model that a completion names.
ModelNamed == IF Given(root.model) THEN root.model.chars ELSE LocalModel

\* A response with status 200 is made of a result that is Ok.
ResponseInv ==
  /\ stage # "responded" => response = ErrorResponse(0, "")
  /\ stage = "responded" =>
       \/ response.status \in {400, 500, 503}
       \/ result.status = "Ok" /\ response = CompletionResponse(ModelNamed, result)

\* The inductive invariant.  Its parts name where each piece of a response comes from:
\* the properties compare the response with the scenario, which no single step sees.
CompletionInv == CallInv /\ ConnectionInv /\ ResultInv /\ ResponseInv

\* A scenario's parts are what is assumed of them.
LEMMA ScenarioTypes ==
  ASSUME NEW s \in Scenarios
  PROVE  /\ IsAnswer(s.answer) /\ s.response = Response(s.answer)
         /\ s.response \in Seq(Nat)
         /\ s.file \in Seq(Nat) /\ IsRequest(s.root)
         /\ s.runtime \in {"DeepSeek", "throws"} \cup GenerateStatuses
<1>1. /\ IsAnswer(s.answer) /\ s.response = Response(s.answer)
      /\ s.file \in Seq(Nat) /\ IsRequest(s.root)
      /\ s.runtime \in {"DeepSeek", "throws"} \cup GenerateStatuses
  BY ONLY ScenariosAssumption, CompletionAssumption, s \in Scenarios, Zenon
<1>2. Response(s.answer) \in Seq(Nat)
  BY ONLY <1>1, ResponseType
<1> QED
  BY ONLY <1>1, <1>2

\* The first n characters of a text are a text.
LEMMA CutType ==
  ASSUME NEW s \in Seq(Nat), NEW n \in Nat, n \leq Len(s)
  PROVE  SubSeq(s, 1, n) \in Seq(Nat) /\ Len(SubSeq(s, 1, n)) = n
OBVIOUS

\* The request body is a text.
LEMMA RequestBodyType ==
  ASSUME runtime.model \in Seq(Nat), Prompt(root) \in Seq(Nat)
  PROVE  RequestBody \in Seq(Nat)
<1>1. /\ Key(Model) \in Seq(Nat) /\ Key(Content) \in Seq(Nat)
      /\ <<Quote>> \in Seq(Nat) /\ <<Colon, Quote>> \in Seq(Nat)
  BY ONLY DEF Key, Quote, Colon, Model, Content, Word
<1>2. EscapeJson(runtime.model) \in Seq(Nat) /\ EscapeJson(Prompt(root)) \in Seq(Nat)
  BY ONLY runtime.model \in Seq(Nat), Prompt(root) \in Seq(Nat), EscapesLemma DEF EscapeJson
<1> DEFINE d == EscapeJson(runtime.model)
           e == EscapeJson(Prompt(root))
           j == Key(Model)
           k == Key(Content)
           q == <<Quote>>
           cq == <<Colon, Quote>>
<1>3. RequestBody = ((((((j \o cq) \o d) \o q) \o k) \o cq) \o e) \o q
  BY ONLY DEF RequestBody, j, k, q, cq, d, e
<1>4. /\ j \in Seq(Nat) /\ k \in Seq(Nat) /\ q \in Seq(Nat) /\ cq \in Seq(Nat)
      /\ d \in Seq(Nat) /\ e \in Seq(Nat)
  BY ONLY <1>1, <1>2 DEF j, k, q, cq, d, e
<1> HIDE DEF j, k, q, cq, d, e
<1>5. \A x, y \in Seq(Nat) : x \o y \in Seq(Nat)
  BY ONLY Joined
<1> DEFINE x1 == j \o cq
           x2 == x1 \o d
           x3 == x2 \o q
           x4 == x3 \o k
           x5 == x4 \o cq
           x6 == x5 \o e
<1>6. x1 \in Seq(Nat)
  BY ONLY <1>4, <1>5
<1> HIDE DEF x1
<1>7. x2 \in Seq(Nat)
  BY ONLY <1>4, <1>5, <1>6
<1> HIDE DEF x2
<1>8. x3 \in Seq(Nat)
  BY ONLY <1>4, <1>5, <1>7
<1> HIDE DEF x3
<1>9. x4 \in Seq(Nat)
  BY ONLY <1>4, <1>5, <1>8
<1> HIDE DEF x4
<1>10. x5 \in Seq(Nat)
  BY ONLY <1>4, <1>5, <1>9
<1> HIDE DEF x5
<1>11. x6 \in Seq(Nat)
  BY ONLY <1>4, <1>5, <1>10
<1> HIDE DEF x6
<1>12. x6 \o q \in Seq(Nat)
  BY ONLY <1>4, <1>5, <1>11
<1> QED
  BY ONLY <1>3, <1>12 DEF x1, x2, x3, x4, x5, x6

\* What the runtime sends is text, once the call is accepted.
LEMMA SendsText ==
  ASSUME CallInv, stage \in {"generate", "write", "read"}
  PROVE  /\ runtime.model \in Seq(Nat) /\ Prompt(root) \in Seq(Nat)
         /\ RequestBody \in Seq(Nat)
<1>1. scenario \in Scenarios /\ runtime = CreateFromConfig(scenario.file) /\ ParseRequest(root)
  BY DEF CallInv
<1>2. scenario.file \in Seq(Nat) /\ IsRequest(root)
  BY ONLY <1>1, ScenarioTypes DEF root
<1>3. runtime.model \in Seq(Nat)
  BY ONLY <1>1, <1>2, ConfigType
<1>4. Prompt(root) \in Seq(Nat)
  BY ONLY <1>1, <1>2, PromptType
<1>5. RequestBody \in Seq(Nat)
  BY ONLY <1>3, <1>4, RequestBodyType
<1> QED
  BY ONLY <1>3, <1>4, <1>5

-----------------------------------------------------------------------------
\* A call begins so.
LEMMA InitInv == Init => CompletionInv
<1> SUFFICES ASSUME Init PROVE CompletionInv
  OBVIOUS
<1>1. CallInv
  BY DEF Init, CallInv, Stages
<1>2. ConnectionInv
  <2>1. scenario.response \in Seq(Nat)
    BY ScenarioTypes DEF Init
  <2>2. 0 \in 0..Len(scenario.response)
    BY ONLY <2>1
  <2>3. upstream = <<>> /\ got = 0 /\ stage = "create"
    BY DEF Init
  <2> QED
    BY ONLY <2>2, <2>3 DEF ConnectionInv
<1>3. ResultInv /\ ResponseInv
  BY DEF Init, ResultInv, ResponseInv
<1> QED
  BY <1>1, <1>2, <1>3 DEF CompletionInv

\* The parts of the state that a step leaves alone, with the parts of the
\* invariant about them.
LEMMA CallStep == CallInv /\ [Next]_vars => CallInv'
<1> SUFFICES ASSUME CallInv, [Next]_vars PROVE CallInv'
  OBVIOUS
<1> USE DEF CallInv, Stages, root
<1>1. CASE Create
  BY <1>1 DEF Create
<1>2. CASE Parse
  BY <1>2 DEF Parse
<1>3. CASE OtherRuntimeGenerates
  BY <1>3 DEF OtherRuntimeGenerates
<1>4. CASE Connect
  BY <1>4 DEF Connect, Throw
<1>5. CASE Write
  BY <1>5 DEF Write, Throw
<1>6. CASE Read
  BY <1>6 DEF Read
<1>7. CASE ReadEnds
  BY <1>7 DEF ReadEnds, Throw
<1>8. CASE Respond
  BY <1>8 DEF Respond
<1>9. CASE UNCHANGED vars
  BY <1>9 DEF vars
<1>10. Done => UNCHANGED vars
  BY DEF Done
<1> QED
  BY <1>1, <1>2, <1>3, <1>4, <1>5, <1>6, <1>7, <1>8, <1>9, <1>10 DEF Next

\* Each step keeps the connection: the request body is complete when reading begins.
LEMMA ConnectionStep == CallInv /\ ConnectionInv /\ [Next]_vars => ConnectionInv'
<1> SUFFICES ASSUME CallInv, ConnectionInv, [Next]_vars PROVE ConnectionInv'
  OBVIOUS
<1>1. scenario \in Scenarios
  BY DEF CallInv
<1>2. scenario.response \in Seq(Nat)
  BY <1>1, ScenarioTypes
<1>3. scenario' = scenario
  BY DEF Next, vars, Create, Parse, OtherRuntimeGenerates, Connect, Write, Read, ReadEnds,
         Respond, Done
<1>4. CASE Write
  <2>1. RequestBody \in Seq(Nat)
    BY <1>4, SendsText DEF Write
  <2>2. runtime' = runtime /\ RequestBody' = RequestBody
    BY <1>3, <1>4 DEF Write, RequestBody, root
  <2>3. upstream' \in Seq(Nat)
    <3>1. CASE UNCHANGED upstream
      BY <3>1 DEF ConnectionInv
    <3>2. ASSUME NEW n \in 1..Pieces, Len(upstream) + n \leq Len(RequestBody),
                 upstream' = SubSeq(RequestBody, 1, Len(upstream) + n)
          PROVE  upstream' \in Seq(Nat)
      <4> DEFINE b == RequestBody
                 m == Len(upstream) + n
      <4>1. m \in Nat
        <5>1. n \in Nat /\ Len(upstream) \in Nat
          BY CompletionAssumption DEF ConnectionInv
        <5> QED
          BY ONLY <5>1 DEF m
      <4> HIDE DEF m
      <4> QED
        BY <2>1, <3>2, <4>1, CutType DEF m
    <3> QED
      BY <1>4, <3>1, <3>2 DEF Write
  <2>4. stage' = "read" => upstream' = RequestBody
    BY <1>4 DEF Write, Throw
  <2>5. got' = got
    BY <1>4 DEF Write
  <2> QED
    BY <1>3, <2>2, <2>3, <2>4, <2>5 DEF ConnectionInv
<1>5. CASE Read
  <2>1. \E n \in 1..Pieces : got' = got + n
    BY <1>5 DEF Read
  <2>2. got' \leq Len(scenario.response) /\ UNCHANGED <<runtime, upstream, stage>>
    BY <1>5 DEF Read
  <2>3. got \in Nat /\ Len(scenario.response) \in Nat
    BY <1>2 DEF ConnectionInv
  <2>4. got' \in 0..Len(scenario.response)
    <3>1. Pieces \in Nat
      BY CompletionAssumption
    <3> QED
      BY ONLY <2>1, <2>2, <2>3, <3>1
  <2> QED
    BY <1>3, <2>2, <2>4 DEF ConnectionInv, RequestBody, root
<1>6. CASE ~Write /\ ~Read
  <2>1. upstream' = upstream /\ got' = got /\ (stage' = "read" => stage = "read" /\ runtime' = runtime)
    BY <1>6 DEF Next, vars, Create, Parse, OtherRuntimeGenerates, Connect, Throw, ReadEnds,
         Respond, Done
  <2> QED
    BY <1>3, <2>1 DEF ConnectionInv, RequestBody, root
<1> QED
  BY <1>4, <1>5, <1>6

\* Each step keeps the result: only ReadEnds and another runtime make one.
LEMMA ResultStep == CallInv /\ ResultInv /\ [Next]_vars => ResultInv'
<1> SUFFICES ASSUME CallInv, ResultInv, [Next]_vars PROVE ResultInv'
  OBVIOUS
<1>1. scenario \in Scenarios
  BY DEF CallInv
<1>2. scenario.runtime \in {"DeepSeek", "throws"} \cup GenerateStatuses
  BY <1>1, ScenarioTypes
<1> USE DEF ResultInv, Received
<1>3. CASE Create
  BY <1>3 DEF Create
<1>4. CASE Parse
  BY <1>4 DEF Parse
<1>5. CASE OtherRuntimeGenerates
  BY <1>2, <1>5 DEF OtherRuntimeGenerates
<1>6. CASE Connect
  BY <1>6 DEF Connect, Throw
<1>7. CASE Write
  BY <1>7 DEF Write, Throw
<1>8. CASE Read
  BY <1>8 DEF Read
<1>9. CASE ReadEnds
  BY <1>9 DEF ReadEnds, Throw, CallInv
<1>10. CASE Respond
  BY <1>10 DEF Respond
<1>11. CASE UNCHANGED vars
  BY <1>11 DEF vars
<1>12. Done => UNCHANGED vars
  BY DEF Done
<1> QED
  BY <1>3, <1>4, <1>5, <1>6, <1>7, <1>8, <1>9, <1>10, <1>11, <1>12 DEF Next

\* The status of an error.
LEMMA ErrorStatus ==
  ASSUME NEW status, NEW code
  PROVE  ErrorResponse(status, code).status = status
BY DEF ErrorResponse

\* The statuses of the errors of a runtime.
LEMMA ErrorStatuses ==
  ASSUME NEW status
  PROVE  RuntimeErrorResponse(status).status \in {400, 500, 503}
<1>1. CASE status \in {"InvalidArgument", "ContextTooLong"}
  BY ONLY <1>1, ErrorStatus DEF RuntimeErrorResponse
<1>2. CASE status = "OutOfMemory"
  BY ONLY <1>2, ErrorStatus DEF RuntimeErrorResponse
<1>3. CASE status \notin {"InvalidArgument", "ContextTooLong", "OutOfMemory"}
  BY ONLY <1>3, ErrorStatus DEF RuntimeErrorResponse
<1> QED
  BY ONLY <1>1, <1>2, <1>3

\* Each step keeps the response: only Respond makes a completion.
LEMMA ResponseStep == ResultInv /\ ResponseInv /\ [Next]_vars => ResponseInv'
<1> SUFFICES ASSUME ResultInv, ResponseInv, [Next]_vars PROVE ResponseInv'
  OBVIOUS
<1> USE DEF ResponseInv
<1>1. CASE Create
  BY <1>1 DEF Create
<1>2. CASE Parse
  <2>1. \/ stage' = "generate" /\ response' = response
        \/ stage' = "responded" /\ response' = ErrorResponse(400, "invalid_request")
    BY <1>2 DEF Parse
  <2>2. stage = "parse"
    BY <1>2 DEF Parse
  <2>3. ErrorResponse(400, "invalid_request").status = 400
    BY ONLY DEF ErrorResponse
  <2>4. response = ErrorResponse(0, "")
    BY <2>2
  <2>5. CASE stage' = "generate" /\ response' = response
    BY ONLY <2>4, <2>5 DEF ResponseInv
  <2>6. CASE stage' = "responded" /\ response' = ErrorResponse(400, "invalid_request")
    <3>1. response'.status = 400
      BY ONLY <2>3, <2>6
    <3> QED
      BY ONLY <2>6, <3>1 DEF ResponseInv
  <2> QED
    BY ONLY <2>1, <2>5, <2>6
<1>3. CASE OtherRuntimeGenerates
  <2>1. \/ stage' = "respond" /\ response' = response
        \/ stage' = "responded" /\ response' = ErrorResponse(500, "internal_error")
    BY <1>3 DEF OtherRuntimeGenerates, Caught
  <2>2. stage = "generate"
    BY <1>3 DEF OtherRuntimeGenerates
  <2>3. ErrorResponse(500, "internal_error").status = 500
    BY ONLY DEF ErrorResponse
  <2>4. response = ErrorResponse(0, "")
    BY <2>2
  <2>5. CASE stage' = "respond" /\ response' = response
    BY ONLY <2>4, <2>5 DEF ResponseInv
  <2>6. CASE stage' = "responded" /\ response' = ErrorResponse(500, "internal_error")
    <3>1. response'.status = 500
      BY ONLY <2>3, <2>6
    <3> QED
      BY ONLY <2>6, <3>1 DEF ResponseInv
  <2> QED
    BY ONLY <2>1, <2>5, <2>6
<1>4. CASE Connect
  BY <1>4 DEF Connect, Throw
<1>5. CASE Write
  BY <1>5 DEF Write, Throw
<1>6. CASE Read
  BY <1>6 DEF Read
<1>7. CASE ReadEnds
  BY <1>7 DEF ReadEnds, Throw
<1>8. CASE Respond
  <2>1. stage' = "responded" /\ result' = result
    BY <1>8 DEF Respond
  <2>2. CASE result.status = "Ok"
    <3>1. response' = CompletionResponse(ModelNamed, result) /\ scenario' = scenario
      BY <1>8, <2>2 DEF Respond, ModelNamed
    <3>2. ModelNamed' = ModelNamed
      BY ONLY <3>1 DEF ModelNamed, root
    <3> QED
      BY ONLY <2>1, <2>2, <3>1, <3>2 DEF ResponseInv
  <2>3. CASE result.status # "Ok"
    <3>1. response' = RuntimeErrorResponse(result.status)
      BY <1>8, <2>3 DEF Respond
    <3>2. RuntimeErrorResponse(result.status).status \in {400, 500, 503}
      BY ErrorStatuses, ZenonT(40)
    <3> QED
      BY <2>1, <3>1, <3>2
  <2> QED
    BY <2>2, <2>3
<1>9. CASE UNCHANGED vars
  BY <1>9, ZenonT(40) DEF vars, ModelNamed, root
<1>10. Done => UNCHANGED vars
  BY DEF Done
<1> QED
  BY <1>1, <1>2, <1>3, <1>4, <1>5, <1>6, <1>7, <1>8, <1>9, <1>10 DEF Next

\* CompletionInv holds in every state of the specification.
THEOREM InductiveInvariant == Spec => []CompletionInv
<1>1. Init => CompletionInv
  BY InitInv
<1>2. CompletionInv /\ [Next]_vars => CompletionInv'
  BY CallStep, ConnectionStep, ResultStep, ResponseStep DEF CompletionInv
<1> QED
  BY <1>1, <1>2, PTL DEF Spec

-----------------------------------------------------------------------------
\* What has been received is a text of that length.
LEMMA ReceivedText ==
  ASSUME CallInv, ConnectionInv
  PROVE  Received \in Seq(Nat) /\ Len(Received) = got
<1>1. scenario \in Scenarios /\ got \in 0..Len(scenario.response)
  BY DEF CallInv, ConnectionInv
<1>2. scenario.response \in Seq(Nat)
  BY <1>1, ScenarioTypes
<1>3. got \in Nat /\ got \leq Len(scenario.response)
  BY ONLY <1>1, <1>2
<1> QED
  BY ONLY <1>2, <1>3, CutType DEF Received

\* Types of what changes; a call is answered exactly when it has a status.
THEOREM TypesCorrect == Spec => []TypeOK
<1>1. CompletionInv => TypeOK
  <2> SUFFICES ASSUME CompletionInv PROVE TypeOK
    OBVIOUS
  <2> USE DEF CompletionInv
  <2>1. /\ stage \in {"create", "failed", "parse", "generate", "write", "read", "respond",
                      "responded"}
        /\ upstream \in Seq(Nat) /\ got \in 0..Len(scenario.response)
    BY DEF CallInv, ConnectionInv, Stages
  <2>2. result.status \in GenerateStatuses /\ result.text \in Seq(Nat)
    <3>1. CASE result = NoResult
      BY <3>1 DEF NoResult, GenerateStatuses
    <3>2. CASE result = ResultOf(Received)
      <4>1. Received \in Seq(Nat)
        BY ReceivedText
      <4> QED
        BY ONLY <3>2, <4>1, ResultType DEF GenerateStatuses
    <3>3. CASE /\ scenario.runtime \in GenerateStatuses
               /\ result = [NoResult EXCEPT !.status = scenario.runtime]
      BY <3>3 DEF NoResult
    <3> QED
      BY <3>1, <3>2, <3>3 DEF ResultInv
  <2>3. /\ response.status \in {0, 200, 400, 500, 503}
        /\ stage = "responded" <=> response.status # 0
    <3>1. CASE stage # "responded"
      BY <3>1, ErrorStatus DEF ResponseInv
    <3>2. CASE stage = "responded" /\ response.status \in {400, 500, 503}
      BY ONLY <3>2
    <3>3. CASE stage = "responded" /\ response = CompletionResponse(ModelNamed, result)
      <4>1. response.status = 200
        BY ONLY <3>3 DEF CompletionResponse
      <4> QED
        BY ONLY <3>3, <4>1
    <3> QED
      BY <3>1, <3>2, <3>3 DEF ResponseInv
  <2> QED
    BY <2>1, <2>2, <2>3 DEF TypeOK
<1> QED
  BY <1>1, InductiveInvariant, PTL

\* UpstreamSeesPrompt: what the upstream has received when the program begins to read
\* is JSON for the configured model and the prompt, whatever characters they hold.
THEOREM RequestFaithful == Spec => []UpstreamSeesPrompt
<1>1. CompletionInv => UpstreamSeesPrompt
  <2> SUFFICES ASSUME CompletionInv, stage = "read" PROVE UpstreamSeesPrompt
    BY DEF UpstreamSeesPrompt
  <2>1. upstream = RequestBody
    BY DEF CompletionInv, ConnectionInv
  <2>2. runtime.model \in Seq(Nat) /\ Prompt(root) \in Seq(Nat)
    BY SendsText DEF CompletionInv
  <2>3. upstream = Key(Model) \o <<Colon, Quote>> \o Escaped(runtime.model) \o <<Quote>>
                     \o Key(Content) \o <<Colon, Quote>> \o Escaped(Prompt(root)) \o <<Quote>>
    BY ONLY <2>1 DEF RequestBody, EscapeJson
  <2>4. StringsSeen(upstream, runtime.model, Prompt(root))
    BY ONLY <2>2, <2>3, TwoStringsRead
  <2> QED
    BY ONLY <2>4 DEF UpstreamSeesPrompt, StringsSeen
<1> QED
  BY <1>1, InductiveInvariant, PTL

\* StringsAreUnicode: ParseString and its lenient copy accept exactly the strings whose
\* surrogates are paired and whose escapes are complete, give their UTF-8, and accept
\* no text cut off before the closing quote.
THEOREM StringsFaithful == Spec => []StringsAreUnicode
<1>1. CompletionInv => StringsAreUnicode
  <2> SUFFICES ASSUME CompletionInv PROVE StringsAreUnicode
    OBVIOUS
  <2>1. scenario \in Scenarios
    BY DEF CompletionInv, CallInv
  <2>2. answer.units \in Seq(Spellings)
    BY ONLY <2>1, ScenarioTypes DEF IsAnswer, answer
  <2> QED
    BY ONLY <2>2, SpelledUnicode DEF StringsAreUnicode
<1> QED
  BY <1>1, InductiveInvariant, PTL

-----------------------------------------------------------------------------
(***************************************************************************)
(* Searches.                                                               *)
(***************************************************************************)
\* What holds of no characters and of two texts one after the other holds of
\* parts put together.
LEMMA ConcatClosed ==
  ASSUME NEW parts \in Seq(Seq(Nat)), NEW S, <<>> \in S,
         \A i \in 1..Len(parts) : parts[i] \in S,
         \A a, b \in Seq(Nat) : a \in S /\ b \in S => a \o b \in S
  PROVE  Concat(parts) \in S
<1> DEFINE N == Len(parts)
<1>1. PICK c : Joins(c, parts) /\ Concat(parts) = c[N]
  BY ConcatLemma
<1>2. N \in Nat /\ c \in [0..N -> Seq(Nat)] /\ c[0] = <<>>
      /\ \A n \in 1..N : c[n] = c[n-1] \o parts[n]
  <2>1. N \in Nat
    BY ONLY parts \in Seq(Seq(Nat)) DEF N
  <2> QED
    BY ONLY <1>1, <2>1 DEF Joins, N
<1> DEFINE T == {n \in 0..N : c[n] \in S}
<1>3. 0 \in T
  BY <1>2
<1>4. ASSUME NEW n \in 1..N, n - 1 \in T PROVE n \in T
  <2>1. n - 1 \in 0..N /\ n \in 0..N
    BY <1>2
  <2>2. c[n-1] \in Seq(Nat) /\ c[n-1] \in S
    BY ONLY <1>2, <1>4, <2>1 DEF T
  <2>3. parts[n] \in Seq(Nat) /\ parts[n] \in S
    <3>1. n \in 1..Len(parts)
      BY ONLY n \in 1..N DEF N
    <3>2. parts[n] \in Seq(Nat)
      BY ONLY <3>1, parts \in Seq(Seq(Nat))
    <3> QED
      BY <3>1, <3>2, Zenon
  <2>4. c[n] = c[n-1] \o parts[n]
    BY ONLY <1>2, n \in 1..N
  <2>5. c[n-1] \o parts[n] \in S
    BY <2>2, <2>3, Zenon
  <2> QED
    BY ONLY <2>1, <2>4, <2>5 DEF T
<1> HIDE DEF T
<1>5. 0..N \subseteq T
  BY <1>2, <1>3, <1>4, IntervalInduction
<1>6. N \in 0..N
  BY <1>2
<1> QED
  BY <1>1, <1>5, <1>6 DEF T

\* Each quote in the text stands behind a backslash.
QuotesEscaped(raw) == \A j \in 1..Len(raw) : raw[j] = 34 => j > 1 /\ raw[j - 1] = 92

\* Two such texts one after the other are one.
LEMMA QuotesConcat ==
  ASSUME NEW a \in Seq(Nat), NEW b \in Seq(Nat), QuotesEscaped(a), QuotesEscaped(b)
  PROVE  QuotesEscaped(a \o b)
<1> DEFINE m == Len(a)
           n == Len(b)
           c == a \o b
<1>1. m \in Nat /\ n \in Nat /\ c \in Seq(Nat) /\ Len(c) = m + n
      /\ (\A i \in 1..m : c[i] = a[i]) /\ (\A i \in 1..n : c[m + i] = b[i])
  BY NatSequences
<1>2. /\ \A j \in 1..m : a[j] = 34 => j > 1 /\ a[j - 1] = 92
      /\ \A j \in 1..n : b[j] = 34 => j > 1 /\ b[j - 1] = 92
  BY DEF QuotesEscaped
<1> HIDE DEF m, n, c
<1>3. ASSUME NEW j \in 1..Len(c), c[j] = 34 PROVE j > 1 /\ c[j - 1] = 92
  <2>1. CASE j \leq m
    <3>1. j \in 1..m
      BY <1>1, <2>1
    <3>2. j > 1 /\ a[j-1] = 92
      <4>1. a[j] = 34
        BY ONLY <1>1, <1>3, <3>1
      <4> QED
        BY ONLY <1>2, <3>1, <4>1
    <3>3. j - 1 \in 1..m
      BY ONLY <1>1, <3>1, <3>2
    <3> QED
      BY ONLY <1>1, <3>2, <3>3
  <2>2. CASE j > m
    <3>1. j - m \in 1..n /\ m + (j - m) = j
      BY <1>1, <2>2
    <3>2. j - m > 1 /\ b[(j - m) - 1] = 92
      <4>1. b[j - m] = 34
        BY ONLY <1>1, <1>3, <3>1
      <4> QED
        BY ONLY <1>2, <3>1, <4>1
    <3>3. (j - m) - 1 \in 1..n /\ m + ((j - m) - 1) = j - 1 /\ j > 1
      BY ONLY <1>1, <3>1, <3>2, j \in 1..Len(c)
    <3>4. c[m + ((j - m) - 1)] = b[(j - m) - 1]
      BY ONLY <1>1, <3>3
    <3> QED
      BY ONLY <3>2, <3>3, <3>4
  <2> QED
    BY <1>1, <2>1, <2>2
<1> QED
  BY <1>3 DEF QuotesEscaped, c

\* The spelling of a unit that may be read is such a text.
LEMMA UnitQuotes ==
  ASSUME NEW u \in Spellings, u.kind \in {"plain", "control", "high", "low"}
  PROVE  QuotesEscaped(u.raw)
<1> DEFINE raw == u.raw
<1>1. raw \in Seq(Nat)
  BY UnitFacts
<1>2. \/ Len(raw) = 1 /\ raw[1] # 34
      \/ Len(raw) = 2 /\ raw[1] = 92
      \/ Len(raw) = 3 /\ raw[1] = 92 /\ raw[2] = 117 /\ raw[3] # 34
  <2>1. CASE u.kind = "plain"
    <3>1. Spells(raw, u.bytes)
      BY <2>1, UnitFacts
    <3>2. Len(raw) = 3 /\ IsQuad(raw[3]) => raw[3] # 34
      BY ONLY <1>1 DEF IsQuad, FirstQuad
    <3> QED
      BY ONLY <1>1, <3>1, <3>2 DEF Spells
  <2>2. CASE u.kind = "control"
    <3>1. u.bytes[1] \in Nat /\ u.bytes[1] < 32 /\ raw = <<u.bytes[1]>>
      BY <2>2, UnitFacts
    <3> QED
      BY <3>1
  <2>3. CASE u.kind \in {"high", "low"}
    <3>1. u.bytes[1] \in Nat /\ raw = <<92, 117, Quad(u.bytes[1])>>
      BY <2>3, UnitFacts
    <3>2. raw[3] = Quad(u.bytes[1]) /\ Len(raw) = 3 /\ raw[1] = 92 /\ raw[2] = 117
      BY <3>1
    <3>3. raw[3] # 34
      BY <3>1, <3>2 DEF Quad, FirstQuad
    <3> QED
      BY <3>2, <3>3
  <2> QED
    BY <2>1, <2>2, <2>3
<1> HIDE DEF raw
<1>3. QuotesEscaped(raw)
  BY <1>1, <1>2 DEF QuotesEscaped
<1> QED
  BY <1>3 DEF raw

\* So is a readable content: a quote in it never ends it.
LEMMA RawQuotes ==
  ASSUME NEW us \in Seq(Spellings), NEW strict \in BOOLEAN, Readable(us, strict)
  PROVE  QuotesEscaped(Raw(us))
<1> DEFINE parts == RawParts(us)
           S == {a \in Seq(Nat) : QuotesEscaped(a)}
<1>1. parts \in Seq(Seq(Nat)) /\ Len(parts) = Len(us) /\ Raw(us) = Concat(parts)
  BY PartsType
<1>2. ASSUME NEW i \in 1..Len(us) PROVE parts[i] \in S
  <2>1. us[i] \in Spellings /\ parts[i] = us[i].raw /\ i \in DOMAIN us
    BY DEF RawParts
  <2>2. us[i].kind \in {"plain", "control", "high", "low"}
    BY <2>1 DEF Readable, IsFirst, IsSecond
  <2>3. QuotesEscaped(us[i].raw) /\ us[i].raw \in Seq(Nat)
    BY <2>1, <2>2, UnitQuotes, UnitFacts
  <2> QED
    BY <2>1, <2>3
<1> HIDE DEF parts
<1>3. <<>> \in S
  BY DEF QuotesEscaped
<1>4. \A a, b \in Seq(Nat) : a \in S /\ b \in S => a \o b \in S
  BY QuotesConcat, NatSequences
<1> HIDE DEF S
<1>5. Concat(parts) \in S
  BY <1>1, <1>2, <1>3, <1>4, ConcatClosed
<1> QED
  BY <1>1, <1>5 DEF S

-----------------------------------------------------------------------------
\* Three characters are a key.
LEMMA KeyAt ==
  ASSUME NEW s \in Seq(Nat), NEW i \in Nat, i \geq 1, i + 2 \leq Len(s), NEW k \in Nat
  PROVE  SubSeq(s, i, i + 2) = Key(k) <=> s[i] = Quote /\ s[i + 1] = k /\ s[i + 2] = Quote
<1> DEFINE w == SubSeq(s, i, i + 2)
           x == Key(k)
<1>1. x \in Seq(Nat) /\ Len(x) = 3 /\ x[1] = Quote /\ x[2] = k /\ x[3] = Quote
  BY DEF Key, Quote
<1>2. w \in Seq(Nat) /\ Len(w) = 3 /\ w[1] = s[i] /\ w[2] = s[i + 1] /\ w[3] = s[i + 2]
  <2>1. Len(s) \in Nat /\ i + 2 \in Nat /\ (i + 2) - i + 1 = 3 /\ i \leq i + 2
    OBVIOUS
  <2>2. \A j \in i..(i+2) : s[j] \in Nat
    OBVIOUS
  <2>3. w \in Seq(Nat) /\ Len(w) = 3
    BY <2>1, <2>2
  <2>4. \A j \in 1..3 : w[j] = s[i + j - 1]
    BY <2>1
  <2>5. i + 1 - 1 = i /\ i + 2 - 1 = i + 1 /\ i + 3 - 1 = i + 2
    OBVIOUS
  <2> HIDE DEF w
  <2> QED
    BY <2>3, <2>4, <2>5
<1> HIDE DEF w, x
<1>3. ASSUME w[1] = x[1], w[2] = x[2], w[3] = x[3] PROVE w = x
  <2>1. \A j \in 1..Len(w) : w[j] = x[j]
    BY <1>1, <1>2, <1>3
  <2> QED
    BY <1>1, <1>2, <2>1, SeqEqual
<1>4. w = x <=> s[i] = Quote /\ s[i + 1] = k /\ s[i + 2] = Quote
  BY <1>1, <1>2, <1>3
<1> QED
  BY <1>4 DEF w, x

\* The key k begins at none of these positions of s.
KeyFree(s, k, from, to) ==
  \A j \in from..to : ~(s[j] = Quote /\ s[j + 1] = k /\ s[j + 2] = Quote)

\* FindKey finds the first place of the key, if there is one.
LEMMA FoundKey ==
  ASSUME NEW s \in Seq(Nat), NEW k \in Nat, NEW from \in Nat, from \geq 1,
         NEW i \in Nat, i \geq from, i + 2 \leq Len(s),
         s[i] = Quote, s[i + 1] = k, s[i + 2] = Quote,
         NEW m, m = i - 1, KeyFree(s, k, from, m)
  PROVE  FindKey(s, k, from) = i
<1> DEFINE S == {j \in from..(Len(s) - 2) : SubSeq(s, j, j + 2) = Key(k)}
<1>1. S \subseteq Nat /\ FindKey(s, k, from) = First(S) /\ Len(s) \in Nat
  BY DEF FindKey
<1>2. i \in S
  <2>1. i \in from..(Len(s) - 2)
    BY <1>1
  <2>2. SubSeq(s, i, i + 2) = Key(k)
    BY KeyAt
  <2> QED
    BY <2>1, <2>2
<1>3. ASSUME NEW j \in S PROVE i \leq j
  <2>1. j \in from..(Len(s) - 2) /\ SubSeq(s, j, j + 2) = Key(k)
    OBVIOUS
  <2>2. j \in Nat /\ j \geq 1 /\ j + 2 \leq Len(s)
    BY <1>1, <2>1
  <2>3. s[j] = Quote /\ s[j + 1] = k /\ s[j + 2] = Quote
    BY ONLY <2>1, <2>2, s \in Seq(Nat), k \in Nat, KeyAt
  <2>4. j < i => j \in from..m
    BY ONLY <2>1, <2>2, from \in Nat, i \in Nat, m = i - 1
  <2> QED
    BY ONLY <2>2, <2>3, <2>4, i \in Nat, KeyFree(s, k, from, m), SMTT(30) DEF KeyFree
<1> HIDE DEF S
<1>4. First(S) = i
  BY <1>1, <1>2, <1>3, FirstLemma
<1> QED
  BY <1>1, <1>4

\* FindKey returns npos when the key is nowhere.
LEMMA NoKey ==
  ASSUME NEW s \in Seq(Nat), NEW k \in Nat, NEW from \in Nat, from \geq 1,
         NEW m, m = Len(s) - 2, KeyFree(s, k, from, m)
  PROVE  FindKey(s, k, from) = 0
<1> DEFINE S == {j \in from..(Len(s) - 2) : SubSeq(s, j, j + 2) = Key(k)}
<1>1. FindKey(s, k, from) = First(S) /\ Len(s) \in Nat
  BY DEF FindKey
<1>2. ASSUME NEW j \in S PROVE FALSE
  <2>1. j \in from..(Len(s) - 2) /\ SubSeq(s, j, j + 2) = Key(k)
    OBVIOUS
  <2>2. j \in Nat /\ j \geq 1 /\ j + 2 \leq Len(s)
    BY <1>1, <2>1
  <2>3. s[j] = Quote /\ s[j + 1] = k /\ s[j + 2] = Quote
    BY <2>1, <2>2, KeyAt
  <2>4. j \in from..m
    BY ONLY <2>1, m = Len(s) - 2
  <2> QED
    BY ONLY <2>3, <2>4, KeyFree(s, k, from, m) DEF KeyFree
<1>3. S = {}
  BY <1>2
<1> QED
  BY <1>1, <1>3, FirstNone

\* Find finds the first c at its only place.
LEMMA FoundCharacter ==
  ASSUME NEW s \in Seq(Nat), NEW c \in Nat, NEW from \in Nat, from \geq 1, NEW i \in Nat,
         i \geq from, \A j \in from..(i-1) : j \leq Len(s) => s[j] # c,
         i \leq Len(s) => s[i] = c
  PROVE  Find(s, c, from) = IF i \leq Len(s) THEN i ELSE 0
<1> DEFINE S == {j \in from..Len(s) : s[j] = c}
<1>1. S \subseteq Nat /\ Find(s, c, from) = First(S) /\ Len(s) \in Nat
  BY DEF Find
<1>2. CASE i \leq Len(s)
  <2>1. i \in S /\ \A j \in S : i \leq j
    BY <1>1, <1>2
  <2> HIDE DEF S
  <2>2. First(S) = i
    BY <1>1, <2>1, FirstLemma
  <2> QED
    BY <1>1, <1>2, <2>2
<1>3. CASE ~(i \leq Len(s))
  <2>1. S = {}
    BY <1>1, <1>3
  <2> QED
    BY <1>1, <1>3, <2>1, FirstNone
<1> QED
  BY <1>2, <1>3

\* The value of a key begins behind the colon at c.
LEMMA ValueBehind ==
  ASSUME NEW s \in Seq(Nat), NEW k \in Nat, NEW c \in Nat, c \geq k + 3,
         \A j \in (k+3)..(c-1) : j \leq Len(s) => s[j] # Colon,
         c \leq Len(s) => s[c] = Colon, c + 1 \leq Len(s) => s[c + 1] # Space
  PROVE  ValueStart(s, k) = IF c \leq Len(s) THEN c + 1 ELSE 0
<1>1. Find(s, Colon, k + 3) = IF c \leq Len(s) THEN c ELSE 0
  <2>1. k + 3 \in Nat /\ k + 3 \geq 1 /\ Colon \in Nat
    BY DEF Colon
  <2> DEFINE from == k + 3
  <2>2. from \in Nat /\ from \geq 1 /\ c \geq from
        /\ \A j \in from..(c-1) : j \leq Len(s) => s[j] # Colon
    BY <2>1
  <2> HIDE DEF from
  <2>3. Find(s, Colon, from) = IF c \leq Len(s) THEN c ELSE 0
    BY <2>1, <2>2, FoundCharacter
  <2> QED
    BY <2>3 DEF from
<1>2. CASE c \leq Len(s)
  <2> DEFINE S == {j \in (c+1)..(Len(s) + 1) : ~Is(s, j, Space)}
  <2>1. SkipSpace(s, c + 1) = First(S)
    BY DEF SkipSpace
  <2>2. c + 1 \in S /\ S \subseteq Nat /\ \A j \in S : c + 1 \leq j
    BY <1>2 DEF Is
  <2> HIDE DEF S
  <2>3. First(S) = c + 1
    BY <2>2, FirstLemma
  <2>4. c # 0
    OBVIOUS
  <2> QED
    BY <1>1, <1>2, <2>1, <2>3, <2>4 DEF ValueStart
<1>3. CASE ~(c \leq Len(s))
  BY <1>1, <1>3 DEF ValueStart
<1> QED
  BY <1>2, <1>3

-----------------------------------------------------------------------------
\* The digits that strtoul takes.
IsDigit(c) == c \in 48..57

\* Digits reads at most two digits.
LEMMA DigitsRead ==
  ASSUME NEW s \in Seq(Nat), NEW i \in Nat, i \geq 1, NEW n \in 0..2,
         \A j \in i..(i + n - 1) : j \leq Len(s) /\ IsDigit(s[j]),
         i + n \leq Len(s) + 1, i + n \leq Len(s) => ~IsDigit(s[i + n])
  PROVE  Digits(s, i) = IF n = 0 THEN 0 ELSE IF n = 1 THEN s[i] - 48
                        ELSE 10 * (s[i] - 48) + (s[i + 1] - 48)
<1> DEFINE S == {j \in i..(Len(s) + 1) : j > Len(s) \/ s[j] \notin 48..57}
           Value(u, k) == IF k = 0 THEN 0 ELSE 10 * u[k-1] + (s[i + k - 1] - 48)
           Eq(u, m) == u = [k \in 0..m |-> Value(u, k)]
           d == s[i] - 48
           e == s[i + 1] - 48
           g == [k \in 0..n |-> IF k = 0 THEN 0 ELSE IF k = 1 THEN d ELSE 10 * d + e]
<1>1. First(S) = i + n
  <2>1. i + n \in S /\ S \subseteq Nat
    BY DEF IsDigit
  <2>2. \A j \in S : i + n \leq j
    BY DEF IsDigit
  <2> HIDE DEF S
  <2> QED
    BY <2>1, <2>2, FirstLemma
<1>2. (i + n) - i = n
  OBVIOUS
<1>3. n \geq 1 => d \in Int
  OBVIOUS
<1>4. n = 2 => e \in Int
  OBVIOUS
<1>5. Eq(g, n)
  <2>1. \A k \in 0..n : g[k] = Value(g, k)
    <3>1. i + 1 - 1 = i /\ i + 2 - 1 = i + 1 /\ 1 - 1 = 0 /\ 2 - 1 = 1
      OBVIOUS
    <3>2. g[0] = 0 /\ (n \geq 1 => g[1] = d) /\ (n = 2 => g[2] = 10 * d + e)
      OBVIOUS
    <3> HIDE DEF g
    <3>3. \A k \in 0..n : k = 0 \/ (k = 1 /\ n \geq 1) \/ (k = 2 /\ n = 2)
      OBVIOUS
    <3>4. Value(g, 0) = 0
      OBVIOUS
    <3>5. n \geq 1 => Value(g, 1) = d
      <4>1. Value(g, 1) = 10 * g[0] + d
        BY <3>1
      <4> HIDE DEF d, Value
      <4> QED
        BY <1>3, <3>2, <4>1
    <3>6. n = 2 => Value(g, 2) = 10 * d + e
      <4>1. Value(g, 2) = 10 * g[1] + e
        BY <3>1
      <4> HIDE DEF d, e, Value
      <4> QED
        BY <3>2, <4>1
    <3> HIDE DEF Value, d, e
    <3> QED
      BY <3>2, <3>3, <3>4, <3>5, <3>6
  <2>2. g = [k \in 0..n |-> g[k]]
    OBVIOUS
  <2> HIDE DEF g, Value
  <2> QED
    BY <2>1, <2>2
<1> DEFINE u == CHOOSE f : Eq(f, n)
<1>6. Eq(u, n)
  <2> HIDE DEF Eq
  <2> QED
    BY <1>5
<1>7. Digits(s, i) = u[n]
  <2> DEFINE end == First(S)
  <2>1. Digits(s, i) = (CHOOSE f : Eq(f, end - i))[end - i]
    BY DEF Digits
  <2>2. end - i = n
    BY <1>1, <1>2
  <2> HIDE DEF end, Eq
  <2> QED
    BY <2>1, <2>2
<1> HIDE DEF u
<1>8. \A k \in 0..n : u[k] = Value(u, k)
  <2> HIDE DEF Value
  <2> QED
    BY <1>6
<1>9. i + 1 - 1 = i /\ i + 2 - 1 = i + 1 /\ 1 - 1 = 0 /\ 2 - 1 = 1
  OBVIOUS
<1>10. u[0] = 0 /\ (n \geq 1 => u[1] = d) /\ (n = 2 => u[2] = 10 * d + e)
  <2>1. u[0] = 0
    BY <1>8
  <2>2. n \geq 1 => u[1] = 10 * u[0] + d
    BY <1>8, <1>9
  <2>3. n = 2 => u[2] = 10 * u[1] + e
    BY <1>8, <1>9
  <2> QED
    BY <1>3, <2>1, <2>2, <2>3, SMTT(30)
<1> QED
  BY <1>7, <1>10

-----------------------------------------------------------------------------
(***************************************************************************)
(* The content of a reply.                                                 *)
(***************************************************************************)
\* What stands in a text stands in a prefix of it that is long enough.
LEMMA OccursPrefix ==
  ASSUME NEW t \in Seq(Nat), NEW b \in Seq(Nat), IsPrefix(t, b), NEW p \in Positions,
         NEW x \in Seq(Nat), Occurs(b, p, x), p + Len(x) \leq Len(t) + 1
  PROVE  Occurs(t, p, x)
<1>1. p \in Nat /\ p \geq 1 /\ Len(x) \in Nat /\ Len(t) \in Nat
  BY DEF Positions
<1>2. ASSUME NEW k \in 1..Len(x) PROVE t[p + k - 1] = x[k]
  <2>1. p + k - 1 \in 1..Len(t)
    BY <1>1
  <2>2. b[p + k - 1] = x[k]
    BY DEF Occurs
  <2> QED
    BY <2>1, <2>2 DEF IsPrefix
<1> QED
  BY <1>2 DEF Occurs

\* The parts of a body, where q is the position of the quote behind its content.
LaidOut(b, raw, finish, q) ==
  /\ b \in Seq(Nat) /\ raw \in Seq(Nat) /\ q \in Nat /\ q = 12 + Len(raw)
  /\ Len(b) = q + 28
  /\ Occurs(b, 1, BodyHead) /\ Occurs(b, 12, raw) /\ Occurs(b, q, BodyRest(finish))

\* A body consists of these parts.
LEMMA BodyLaidOut ==
  ASSUME NEW a, a.units \in Seq(Spellings)
  PROVE  \E q \in Nat : LaidOut(Body(a), Raw(a.units), a.finish, q)
<1> DEFINE raw == Raw(a.units)
           rest == BodyRest(a.finish)
           b == Body(a)
           x == BodyHead \o raw
           q == 12 + Len(raw)
<1>1. /\ raw \in Seq(Nat) /\ rest \in Seq(Nat) /\ BodyHead \in Seq(Nat) /\ Len(BodyHead) = 11
      /\ b \in Seq(Nat) /\ Len(b) = 40 + Len(raw)
  <2>1. BodyHead \in Seq(Nat) /\ Len(BodyHead) = 11
    BY DEF BodyHead, Quote, Choices, Colon, Other, Content, Space, Word
  <2>2. raw \in Seq(Nat) /\ rest \in Seq(Nat)
    BY PartsType, RestType
  <2>3. b \in Seq(Nat) /\ Len(b) = 40 + Len(raw)
    BY BodyType
  <2> QED
    BY <2>1, <2>2, <2>3
<1>2. b = x \o rest
  BY DEF Body
<1> HIDE DEF raw, rest, b
<1>3. x \in Seq(Nat) /\ Len(x) = 11 + Len(raw) /\ Len(raw) \in Nat
  <2>1. x \in Seq(Nat) /\ Len(x) = Len(BodyHead) + Len(raw)
    BY <1>1, Joined
  <2> QED
    BY <1>1, <2>1
<1> HIDE DEF x
<1>4. Occurs(b, 1, b) /\ 1 \in Positions
  <2>1. Occurs(b, 1, b)
    BY <1>1, OccursSelf
  <2> QED
    BY <2>1 DEF Positions
<1>5. Occurs(b, 1, x) /\ Occurs(b, 1 + Len(x), rest)
  BY <1>1, <1>2, <1>3, <1>4, OccursConcat
<1>6. Occurs(b, 1, BodyHead) /\ Occurs(b, 1 + Len(BodyHead), raw)
  BY <1>1, <1>4, <1>5, OccursConcat DEF x
<1>7. 1 + Len(x) = q /\ 1 + Len(BodyHead) = 12 /\ q \in Nat /\ Len(b) = q + 28
  BY <1>1, <1>3
<1>8. LaidOut(b, raw, a.finish, q)
  BY <1>1, <1>5, <1>6, <1>7 DEF LaidOut, rest
<1> HIDE DEF q
<1> QED
  BY <1>7, <1>8 DEF b, raw

-----------------------------------------------------------------------------
\* What stands in the first eleven places of a reply.
LEMMA ReplyHead ==
  ASSUME NEW b, NEW t \in Seq(Nat), IsPrefix(t, b), NEW raw, NEW finish, NEW q,
         LaidOut(b, raw, finish, q)
  PROVE  /\ Len(t) \in Nat
         /\ 1 \leq Len(t) => t[1] = Quote
         /\ 2 \leq Len(t) => t[2] = Choices
         /\ 3 \leq Len(t) => t[3] = Quote
         /\ 4 \leq Len(t) => t[4] = Colon
         /\ 5 \leq Len(t) => t[5] = Other
         /\ 6 \leq Len(t) => t[6] = Quote
         /\ 7 \leq Len(t) => t[7] = Content
         /\ 8 \leq Len(t) => t[8] = Quote
         /\ 9 \leq Len(t) => t[9] = Colon
         /\ 10 \leq Len(t) => t[10] = Space
         /\ 11 \leq Len(t) => t[11] = Quote
<1>1. /\ b[1] = Quote /\ b[2] = Choices /\ b[3] = Quote /\ b[4] = Colon /\ b[5] = Other
      /\ b[6] = Quote /\ b[7] = Content /\ b[8] = Quote /\ b[9] = Colon /\ b[10] = Space
      /\ b[11] = Quote
  BY HeadAt DEF LaidOut
<1>2. \A k \in 1..Len(t) : t[k] = b[k]
  BY DEF IsPrefix
<1>3. Len(t) \in Nat
  OBVIOUS
<1>4. \A k \in 1..11 : k \leq Len(t) => t[k] = b[k]
  BY ONLY <1>2, <1>3
<1>5. 1 \leq Len(t) => t[1] = Quote
  BY ONLY <1>1, <1>3, <1>4
<1>6. 2 \leq Len(t) => t[2] = Choices
  BY ONLY <1>1, <1>3, <1>4
<1>7. 3 \leq Len(t) => t[3] = Quote
  BY ONLY <1>1, <1>3, <1>4
<1>8. 4 \leq Len(t) => t[4] = Colon
  BY ONLY <1>1, <1>3, <1>4
<1>9. 5 \leq Len(t) => t[5] = Other
  BY ONLY <1>1, <1>3, <1>4
<1>10. 6 \leq Len(t) => t[6] = Quote
  BY ONLY <1>1, <1>3, <1>4
<1>11. 7 \leq Len(t) => t[7] = Content
  BY ONLY <1>1, <1>3, <1>4
<1>12. 8 \leq Len(t) => t[8] = Quote
  BY ONLY <1>1, <1>3, <1>4
<1>13. 9 \leq Len(t) => t[9] = Colon
  BY ONLY <1>1, <1>3, <1>4
<1>14. 10 \leq Len(t) => t[10] = Space
  BY ONLY <1>1, <1>3, <1>4
<1>15. 11 \leq Len(t) => t[11] = Quote
  BY ONLY <1>1, <1>3, <1>4
<1> QED
  BY ONLY <1>3, <1>5, <1>6, <1>7, <1>8, <1>9, <1>10, <1>11, <1>12, <1>13, <1>14, <1>15

\* The words and characters of a reply are different.
LEMMA WordsDiffer ==
  /\ Choices = 256 /\ Content = 257 /\ FinishReason = 258 /\ PromptTokens = 259
  /\ CompletionTokens = 260 /\ StopWord = 261 /\ LengthWord = 262
  /\ Other = 296 /\ Null = 297 /\ Quote = 34 /\ Colon = 58 /\ Space = 32 /\ Backslash = 92
BY DEF Choices, Content, FinishReason, PromptTokens, CompletionTokens, StopWord, LengthWord,
       Other, Null, Quote, Colon, Space, Backslash, Word

\* Where CompletionContent begins to read.
LEMMA ContentBegins ==
  ASSUME NEW b, NEW t \in Seq(Nat), IsPrefix(t, b), NEW raw, NEW finish, NEW q,
         LaidOut(b, raw, finish, q)
  PROVE  CompletionContent(t) = IF 11 \leq Len(t) THEN StringLoop(t, 12, FALSE) ELSE Fail
<1> DEFINE n == Len(t)
           choices == FindKey(t, Choices, 1)
           content == FindKey(t, Content, choices)
           start   == ValueStart(t, content)
<1>1. /\ n \in Nat
      /\ 1 \leq n => t[1] = 34
      /\ 2 \leq n => t[2] = 256
      /\ 3 \leq n => t[3] = 34
      /\ 4 \leq n => t[4] = 58
      /\ 5 \leq n => t[5] = 296
      /\ 6 \leq n => t[6] = 34
      /\ 7 \leq n => t[7] = 257
      /\ 8 \leq n => t[8] = 34
      /\ 9 \leq n => t[9] = 58
      /\ 10 \leq n => t[10] = 32
      /\ 11 \leq n => t[11] = 34
  BY ONLY ReplyHead, WordsDiffer, t \in Seq(Nat), IsPrefix(t, b), LaidOut(b, raw, finish, q)
     DEF n
<1>2. CompletionContent(t) =
        IF choices # 0 /\ content # 0 /\ start # 0 /\ Is(t, start, Quote)
        THEN StringLoop(t, start + 1, FALSE) ELSE Fail
  BY DEF CompletionContent, DecodeJsonStringAt
<1>3. 3 \leq n => choices = 1
  <2> SUFFICES ASSUME 3 \leq n PROVE FindKey(t, Choices, 1) = 1
    OBVIOUS
  <2>1. /\ 1 \geq 1 /\ 1 + 2 \leq Len(t) /\ t[1] = Quote /\ t[1 + 1] = Choices
        /\ t[1 + 2] = Quote /\ 1 \in Nat /\ Choices \in Nat /\ 0 = 1 - 1
    BY <1>1, WordsDiffer
  <2>2. KeyFree(t, Choices, 1, 0)
    BY ONLY DEF KeyFree
  <2> QED
    BY ONLY <2>1, <2>2, t \in Seq(Nat), FoundKey
<1>4. n < 3 => choices = 0
  <2> SUFFICES ASSUME n < 3 PROVE FindKey(t, Choices, 1) = 0
    OBVIOUS
  <2> DEFINE m == Len(t) - 2
  <2>1. KeyFree(t, Choices, 1, m)
    BY ONLY <1>1, n < 3 DEF KeyFree, m, n
  <2>2. 1 \in Nat /\ 1 \geq 1 /\ Choices \in Nat
    BY WordsDiffer
  <2> QED
    BY ONLY <2>1, <2>2, t \in Seq(Nat), NoKey DEF m
<1> HIDE DEF choices
<1>5. 8 \leq n => content = 6
  <2> SUFFICES ASSUME 8 \leq n PROVE FindKey(t, Content, 1) = 6
    BY <1>1, <1>3
  <2>1. /\ 6 \geq 1 /\ 6 + 2 \leq Len(t) /\ t[6] = Quote /\ t[6 + 1] = Content
        /\ t[6 + 2] = Quote /\ 6 \in Nat /\ Content \in Nat /\ 1 \in Nat /\ 1 \geq 1
        /\ 5 = 6 - 1
    BY <1>1, WordsDiffer
  <2>2. KeyFree(t, Content, 1, 5)
    <3>1. \A j \in 1..5 : j + 1 \in 2..6
      OBVIOUS
    <3>2. t[2] # 257 /\ t[3] # 257 /\ t[4] # 257 /\ t[5] # 257 /\ t[6] # 257
      <4>1. 2 \leq n /\ 3 \leq n /\ 4 \leq n /\ 5 \leq n /\ 6 \leq n
        BY ONLY <1>1, 8 \leq n, SMTT(30)
      <4>2. t[2] = 256 /\ t[3] = 34 /\ t[4] = 58 /\ t[5] = 296 /\ t[6] = 34
        BY ONLY <1>1, <4>1
      <4> QED
        BY ONLY <4>2
    <3>3. \A k \in 2..6 : t[k] # 257
      BY ONLY <3>2
    <3>4. Content = 257
      BY WordsDiffer
    <3> QED
      BY ONLY <3>1, <3>3, <3>4 DEF KeyFree
  <2> QED
    BY ONLY <2>1, <2>2, t \in Seq(Nat), FoundKey
<1>6. 3 \leq n /\ n < 8 => content = 0
  <2> SUFFICES ASSUME 3 \leq n, n < 8 PROVE FindKey(t, Content, 1) = 0
    BY <1>3
  <2> DEFINE m == Len(t) - 2
  <2>1. KeyFree(t, Content, 1, m)
    <3>1. \A j \in 1..m : j + 1 \in 2..6 /\ j + 1 \leq n
      BY <1>1
    <3>2. \A k \in 2..6 : k \leq n => t[k] # 257
      BY ONLY <1>1, SMTT(30)
    <3>3. Content = 257
      BY WordsDiffer
    <3>4. \A j \in 1..m : t[j + 1] # 257
      BY ONLY <3>1, <3>2, SMTT(30)
    <3> QED
      BY ONLY <3>3, <3>4 DEF KeyFree
  <2>2. 1 \in Nat /\ 1 \geq 1 /\ Content \in Nat
    BY WordsDiffer
  <2> QED
    BY ONLY <2>1, <2>2, t \in Seq(Nat), NoKey DEF m
<1> HIDE DEF content
<1>7. 8 \leq n => Find(t, Colon, 9) = IF 9 \leq n THEN 9 ELSE 0
  <2>1. /\ 9 \in Nat /\ 9 \geq 1 /\ Colon \in Nat /\ 9 \geq 9
        /\ \A j \in 9..(9-1) : j \leq Len(t) => t[j] # Colon
        /\ 9 \leq Len(t) => t[9] = Colon
    BY <1>1, WordsDiffer
  <2> QED
    BY ONLY <2>1, t \in Seq(Nat), FoundCharacter DEF n
<1>8. 9 \leq n => SkipSpace(t, 10) = IF 10 \leq n THEN 11 ELSE 10
  <2> SUFFICES ASSUME 9 \leq n PROVE SkipSpace(t, 10) = IF 10 \leq n THEN 11 ELSE 10
    OBVIOUS
  <2> DEFINE S == {j \in 10..(Len(t) + 1) : ~Is(t, j, Space)}
             m == IF 10 \leq n THEN 11 ELSE 10
  <2>1. m \in S /\ S \subseteq Nat /\ \A j \in S : m \leq j
    <3>1. \A j \in S : j \in 10..(n + 1) /\ ~(j \leq n /\ t[j] = 32)
      BY WordsDiffer DEF Is
    <3>2. \A j \in 10..(n+1) : ~(j \leq n /\ t[j] = 32) => j \in S
      BY WordsDiffer DEF Is
    <3> HIDE DEF S
    <3>3. m \in 10..(n+1) /\ ~(m \leq n /\ t[m] = 32)
      BY <1>1, SMTT(30)
    <3>4. \A j \in S : m \leq j
      BY <1>1, <3>1
    <3> QED
      BY <3>1, <3>2, <3>3, <3>4
  <2> HIDE DEF S
  <2>2. First(S) = m
    BY <2>1, FirstLemma
  <2> QED
    BY <2>2 DEF SkipSpace, S
<1>9. 8 \leq n => start = IF 9 \leq n THEN (IF 10 \leq n THEN 11 ELSE 10) ELSE 0
  <2> SUFFICES ASSUME 8 \leq n PROVE start = IF 9 \leq n THEN (IF 10 \leq n THEN 11 ELSE 10) ELSE 0
    OBVIOUS
  <2>1. content + 3 = 9 /\ 9 + 1 = 10 /\ 9 # 0
    BY <1>5
  <2> QED
    BY <1>7, <1>8, <2>1 DEF ValueStart
<1> HIDE DEF start
<1>10. CASE 11 \leq n
  <2>1. choices # 0 /\ content # 0 /\ start = 11
    <3>1. 3 \leq n /\ 8 \leq n /\ 9 \leq n /\ 10 \leq n
      BY ONLY <1>1, <1>10
    <3> QED
      BY ONLY <1>3, <1>5, <1>9, <3>1
  <2>2. Is(t, 11, Quote) /\ 11 + 1 = 12 /\ 11 # 0
    BY <1>1, <1>10, WordsDiffer DEF Is
  <2> QED
    BY <1>2, <1>10, <2>1, <2>2
<1>11. CASE n < 11
  <2>1. ~(choices # 0 /\ content # 0 /\ start # 0 /\ Is(t, start, Quote))
    <3>1. CASE n < 8
      BY <1>1, <1>4, <1>6, <3>1
    <3>2. CASE 8 \leq n
      <4>1. CASE n = 8
        <5>1. start = 0
          BY ONLY <1>9, <4>1
        <5> QED
          BY <5>1
      <4>2. CASE n = 9
        <5>1. start = 10 /\ ~(10 \leq n)
          BY ONLY <1>9, <4>2
        <5> QED
          BY ONLY <5>1 DEF Is, n
      <4>3. CASE n = 10
        <5>1. start = 11 /\ ~(11 \leq n)
          BY ONLY <1>9, <4>3
        <5> QED
          BY ONLY <5>1 DEF Is, n
      <4>4. n = 8 \/ n = 9 \/ n = 10
        <5>1. n \in Nat
          BY ONLY <1>1
        <5>2. \A k \in Nat : 8 \leq k /\ k < 11 => k = 8 \/ k = 9 \/ k = 10
          BY ONLY TRUE
        <5> QED
          BY ONLY <1>11, <3>2, <5>1, <5>2
      <4> QED
        BY <4>1, <4>2, <4>3, <4>4
    <3> QED
      BY <1>1, <3>1, <3>2
  <2>2. ~(11 \leq n)
    BY <1>1, <1>11
  <2> QED
    BY <1>2, <2>1, <2>2
<1>12. 11 \leq n \/ n < 11
  BY ONLY <1>1
<1> QED
  BY <1>10, <1>11, <1>12

\* The content of a reply that may have been cut is read exactly when its closing
\* quote has arrived and its text can be read, and then it is what that denotes.
LEMMA ContentRead ==
  ASSUME NEW us \in Seq(Spellings), NEW b, NEW t \in Seq(Nat), IsPrefix(t, b), NEW finish, NEW q,
         LaidOut(b, Raw(us), finish, q)
  PROVE  CompletionContent(t) = IF q \leq Len(t) /\ Lenient(us)
                                THEN [ok |-> TRUE, value |-> Denoted(us), next |-> q + 1]
                                ELSE Fail
<1> DEFINE raw == Raw(us)
           n == Len(t)
           end == [ok |-> TRUE, value |-> Denoted(us), next |-> q + 1]
<1>1. /\ b \in Seq(Nat) /\ raw \in Seq(Nat) /\ q \in Nat /\ q = 12 + Len(raw)
      /\ Len(b) = q + 28 /\ Occurs(b, 12, raw) /\ Occurs(b, q, BodyRest(finish))
  BY DEF LaidOut
<1>2. n \in Nat /\ Len(raw) \in Nat /\ 12 \in Positions /\ q \in Positions
      /\ FALSE \in BOOLEAN /\ << 34 >> \in Seq(Nat) /\ Len(<< 34 >>) = 1
  BY <1>1 DEF Positions
<1>3. Occurs(b, 12, raw \o << 34 >>) /\ raw \o << 34 >> \in Seq(Nat)
      /\ Len(raw \o << 34 >>) = Len(raw) + 1
  <2>1. b[q] = Quote
    BY <1>1, RestAt, ZenonT(40)
  <2>2. Occurs(b, q, << 34 >>)
    <3>1. q + 1 \leq Len(b) + 1
      BY <1>1
    <3>2. \A k \in 1..1 : b[q + k - 1] = << 34 >>[k]
      <4>1. q + 1 - 1 = q /\ b[q] = 34 /\ << 34 >>[1] = 34
        BY <1>1, <2>1, WordsDiffer
      <4> QED
        BY <4>1
    <3> QED
      BY <1>2, <3>1, <3>2 DEF Occurs
  <2>3. Occurs(b, 12, raw \o << 34 >>)
    BY <1>1, <1>2, <2>2, OccursJoined
  <2>4. raw \o << 34 >> \in Seq(Nat) /\ Len(raw \o << 34 >>) = Len(raw) + Len(<< 34 >>)
    BY <1>1, <1>2, Joined
  <2> QED
    BY <1>2, <2>3, <2>4
<1> HIDE DEF raw, end
<1>4. 12 + Len(raw) + 1 = q + 1
  BY <1>1, <1>2
<1>5. CASE q \leq n
  <2>1. Occurs(t, 12, raw \o << 34 >>)
    <3>1. 12 + Len(raw \o << 34 >>) \leq Len(t) + 1
      BY <1>1, <1>2, <1>3, <1>5
    <3> QED
      BY <1>1, <1>2, <1>3, <3>1, OccursPrefix
  <2>2. StringLoop(t, 12, FALSE) = IF Readable(us, FALSE) THEN end ELSE Fail
    BY <1>2, <1>4, <2>1, SpelledRead DEF raw, end
  <2>3. CompletionContent(t) = StringLoop(t, 12, FALSE)
    <3>1. 11 \leq n
      BY <1>1, <1>2, <1>5
    <3> QED
      BY <3>1, ContentBegins
  <2> QED
    BY <1>5, <2>2, <2>3 DEF Lenient, end
<1>6. CASE ~(q \leq n)
  <2>1. StringLoop(b, 12, FALSE) = IF Readable(us, FALSE) THEN end ELSE Fail
    BY <1>1, <1>2, <1>3, <1>4, SpelledRead DEF raw, end
  <2>2. StringLoop(t, 12, FALSE).ok =>
          /\ StringLoop(b, 12, FALSE) = StringLoop(t, 12, FALSE)
          /\ StringLoop(t, 12, FALSE).next \leq n + 1
    BY <1>1, <1>2, StringPrefix
  <2>3. ~StringLoop(t, 12, FALSE).ok
    <3> SUFFICES ASSUME StringLoop(t, 12, FALSE).ok PROVE FALSE
      OBVIOUS
    <3>1. StringLoop(b, 12, FALSE) = StringLoop(t, 12, FALSE)
      BY <2>2
    <3>2. StringLoop(b, 12, FALSE) # Fail
      <4>1. StringLoop(b, 12, FALSE).ok = TRUE
        BY <3>1
      <4>2. Fail.ok = FALSE
        BY ONLY DEF Fail
      <4> QED
        BY ONLY <4>1, <4>2
    <3>3. StringLoop(t, 12, FALSE) = end
      BY ONLY <2>1, <3>1, <3>2
    <3>4. StringLoop(t, 12, FALSE).next = q + 1
      <4>1. end.next = q + 1
        BY DEF end
      <4> QED
        BY ONLY <3>3, <4>1
    <3>5. q + 1 \leq n + 1
      BY <2>2, <3>4
    <3> QED
      BY ONLY <1>1, <1>2, <1>6, <3>5
  <2>4. StringLoop(t, 12, FALSE) = Fail
    BY <1>2, <2>3, StringLoopEquation DEF Parsed
  <2>5. CompletionContent(t) = Fail
    BY <2>4, ContentBegins
  <2> QED
    BY <1>6, <2>5
<1> QED
  BY <1>5, <1>6

-----------------------------------------------------------------------------
(***************************************************************************)
(* The keys of a reply.                                                    *)
(***************************************************************************)
\* The end of a body, as numbers.
TailChars(r, w) ==
  /\ r[1] = 34 /\ r[2] = 296 /\ r[3] = 34 /\ r[4] = 296 /\ r[5] = 34 /\ r[6] = 58 /\ r[7] = 297
  /\ r[8] = 34 /\ r[9] = 258 /\ r[10] = 34 /\ r[11] = 58 /\ r[12] = 34 /\ r[13] = w /\ r[14] = 34
  /\ r[15] = 296
  /\ r[16] = 34 /\ r[17] = 259 /\ r[18] = 34 /\ r[19] = 58 /\ r[20] = 57 /\ r[21] = 57
  /\ r[22] = 296
  /\ r[23] = 34 /\ r[24] = 260 /\ r[25] = 34 /\ r[26] = 58 /\ r[27] = 49 /\ r[28] = 50
  /\ r[29] = 296

\* These are the characters of the end of a body.
LEMMA TailValues ==
  ASSUME NEW finish
  PROVE  /\ TailChars(BodyRest(finish), FinishWord(finish))
         /\ FinishWord(finish) = IF finish = "Length" THEN 262 ELSE 261
<1> DEFINE w == FinishWord(finish)
<1>1. w = IF finish = "Length" THEN 262 ELSE 261
  BY WordsDiffer DEF FinishWord
<1>2. BodyRest(finish) =
        <<34, 296, 34, 296, 34, 58, 297, 34, 258, 34, 58, 34, w, 34, 296,
          34, 259, 34, 58, 57, 57, 296, 34, 260, 34, 58, 49, 50, 296>>
  BY WordsDiffer DEF BodyRest
<1> HIDE DEF w
<1>3. TailChars(<<34, 296, 34, 296, 34, 58, 297, 34, 258, 34, 58, 34, w, 34, 296,
          34, 259, 34, 58, 57, 57, 296, 34, 260, 34, 58, 49, 50, 296>>, w)
  BY DEF TailChars
<1> QED
  BY <1>1, <1>2, <1>3 DEF w

\* The key k stands only at place d of the end of a body; d+1, d+2, d+3 hold its
\* letters, its closing quote and the colon.
KeyPlace(r, k, d) ==
  /\ d \in Nat /\ k \in {258, 259, 260}
  /\ r[d + 1] = 34 /\ r[d + 2] = k /\ r[d + 3] = 34 /\ r[d + 4] = 58 /\ r[d + 5] # 32
  /\ d + 5 \leq 28
  /\ \A e \in 1..29 : r[e] = k => e = d + 2

\* The places of the three keys behind the content.
LEMMA KeyPlaces ==
  ASSUME NEW r, NEW w \in {261, 262}, TailChars(r, w)
  PROVE  KeyPlace(r, 258, 7) /\ KeyPlace(r, 259, 15) /\ KeyPlace(r, 260, 22)
<1>1. \A e \in 1..29 : e \in {1, 2, 3, 4, 5, 6, 7, 8, 9, 10, 11, 12, 13, 14, 15, 16, 17, 18,
                              19, 20, 21, 22, 23, 24, 25, 26, 27, 28, 29}
  OBVIOUS
<1>2. \A e \in 1..29 : /\ r[e] = 258 => e = 7 + 2
                       /\ r[e] = 259 => e = 15 + 2
                       /\ r[e] = 260 => e = 22 + 2
  BY <1>1 DEF TailChars
<1>3. /\ r[7+1] = 34 /\ r[7+2] = 258 /\ r[7+3] = 34 /\ r[7+4] = 58 /\ r[7+5] = 34
      /\ r[15+1] = 34 /\ r[15+2] = 259 /\ r[15+3] = 34 /\ r[15+4] = 58 /\ r[15+5] = 57
      /\ r[22+1] = 34 /\ r[22+2] = 260 /\ r[22+3] = 34 /\ r[22+4] = 58 /\ r[22+5] = 49
  BY ONLY TailChars(r, w) DEF TailChars
<1> QED
  BY ONLY <1>2, <1>3 DEF KeyPlace

-----------------------------------------------------------------------------
\* A reply that has arrived at least to the quote behind its content.
Reply(t, us, r, w, q) ==
  /\ t \in Seq(Nat) /\ q \in Nat /\ q = 12 + Len(Raw(us)) /\ q \leq Len(t) /\ Len(t) \leq q + 28
  /\ Raw(us) \in Seq(Nat) /\ QuotesEscaped(Raw(us)) /\ TailChars(r, w) /\ w \in {261, 262}
  /\ t[1] = 34 /\ t[2] = 256 /\ t[3] = 34 /\ t[4] = 58 /\ t[5] = 296 /\ t[6] = 34 /\ t[7] = 257
  /\ t[8] = 34 /\ t[9] = 58 /\ t[10] = 32 /\ t[11] = 34
  /\ \A e \in 1..Len(Raw(us)) : t[11 + e] = Raw(us)[e]
  /\ \A d \in 0..28 : q + d \leq Len(t) => t[q + d] = r[d + 1]

\* A prefix of a body that ends behind its content is such a reply.
LEMMA ReplyLaidOut ==
  ASSUME NEW us \in Seq(Spellings), NEW b, NEW t \in Seq(Nat), IsPrefix(t, b), NEW finish, NEW q,
         LaidOut(b, Raw(us), finish, q), q \leq Len(t), Lenient(us)
  PROVE  Reply(t, us, BodyRest(finish), FinishWord(finish), q)
<1> DEFINE raw == Raw(us)
           r == BodyRest(finish)
           w == FinishWord(finish)
           n == Len(t)
<1>1. /\ b \in Seq(Nat) /\ raw \in Seq(Nat) /\ q \in Nat /\ q = 12 + Len(raw)
      /\ Len(b) = q + 28 /\ Occurs(b, 12, raw) /\ Occurs(b, q, r)
  BY DEF LaidOut
<1>2. n \in Nat /\ n \leq q + 28 /\ q \leq n /\ Len(raw) \in Nat /\ q \geq 12
      /\ \A k \in 1..n : t[k] = b[k]
  BY <1>1 DEF IsPrefix
<1>3. TailChars(r, w) /\ w \in {261, 262} /\ Len(r) = 29
  BY TailValues, RestType
<1>4. QuotesEscaped(raw)
  BY RawQuotes DEF Lenient
<1>5. /\ t[1] = 34 /\ t[2] = 256 /\ t[3] = 34 /\ t[4] = 58 /\ t[5] = 296 /\ t[6] = 34
      /\ t[7] = 257 /\ t[8] = 34 /\ t[9] = 58 /\ t[10] = 32 /\ t[11] = 34
  <2>1. /\ 1 \leq Len(t) /\ 2 \leq Len(t) /\ 3 \leq Len(t) /\ 4 \leq Len(t) /\ 5 \leq Len(t)
        /\ 6 \leq Len(t) /\ 7 \leq Len(t) /\ 8 \leq Len(t) /\ 9 \leq Len(t) /\ 10 \leq Len(t)
        /\ 11 \leq Len(t)
    BY <1>1, <1>2
  <2>2. /\ t[1] = Quote /\ t[2] = Choices /\ t[3] = Quote /\ t[4] = Colon /\ t[5] = Other
        /\ t[6] = Quote /\ t[7] = Content /\ t[8] = Quote /\ t[9] = Colon /\ t[10] = Space
        /\ t[11] = Quote
    BY ONLY <2>1, ReplyHead, t \in Seq(Nat), IsPrefix(t, b), LaidOut(b, Raw(us), finish, q)
  <2> QED
    BY ONLY <2>2, WordsDiffer
<1> HIDE DEF raw, r, w
<1>6. ASSUME NEW e \in 1..Len(raw) PROVE t[11 + e] = raw[e]
  <2>1. b[12 + e - 1] = raw[e]
    BY <1>1 DEF Occurs
  <2>2. 12 + e - 1 = 11 + e /\ 11 + e \in 1..n
    BY <1>1, <1>2
  <2> QED
    BY <1>2, <2>1, <2>2
<1>7. ASSUME NEW d \in 0..28, q + d \leq Len(t) PROVE t[q + d] = r[d + 1]
  <2>1. d + 1 \in 1..29
    OBVIOUS
  <2>2. b[q + (d + 1) - 1] = r[d + 1]
    BY <1>1, <1>3, <2>1 DEF Occurs
  <2>3. q + (d + 1) - 1 = q + d /\ q + d \in 1..n
    BY <1>1, <1>2, <1>7
  <2> QED
    BY <1>2, <2>2, <2>3
<1> HIDE DEF n
<1>8. Reply(t, us, r, w, q)
  <2>1. q \leq Len(t) /\ Len(t) \leq q + 28
    BY ONLY <1>2 DEF n
  <2> QED
    BY ONLY <1>1, <1>3, <1>4, <1>5, <1>6, <1>7, <2>1, t \in Seq(Nat) DEF Reply, raw
<1> QED
  BY <1>8 DEF r, w

\* The sizes in such a reply, and what it consists of.
ReplyOfSize(t, us, r, q) ==
         /\ t \in Seq(Nat) /\ Raw(us) \in Seq(Nat) /\ q \in Nat /\ q = 12 + Len(Raw(us))
         /\ Len(Raw(us)) \in Nat /\ Len(t) \in Nat /\ q \leq Len(t) /\ Len(t) \leq q + 28
         /\ \A e \in 1..Len(Raw(us)) : t[11 + e] = Raw(us)[e]
         /\ \A e \in 0..28 : q + e \leq Len(t) => t[q + e] = r[e + 1]

\* A reply is one of that size.
LEMMA ReplySizes ==
  ASSUME NEW t, NEW us, NEW r, NEW w, NEW q, Reply(t, us, r, w, q)
  PROVE  ReplyOfSize(t, us, r, q)
<1>1. /\ t \in Seq(Nat) /\ Raw(us) \in Seq(Nat) /\ q \in Nat /\ q = 12 + Len(Raw(us))
      /\ q \leq Len(t) /\ Len(t) \leq q + 28
  BY DEF Reply
<1>2. Len(t) \in Nat /\ Len(Raw(us)) \in Nat
  BY ONLY <1>1
<1>3. \A e \in 1..Len(Raw(us)) : t[11 + e] = Raw(us)[e]
  BY ONLY Reply(t, us, r, w, q) DEF Reply
<1>4. \A e \in 0..28 : q + e \leq Len(t) => t[q + e] = r[e + 1]
  BY ONLY Reply(t, us, r, w, q) DEF Reply
<1> QED
  BY ONLY <1>1, <1>2, <1>3, <1>4 DEF ReplyOfSize

\* A key is found in a reply in its own place, or at the end of a text that seems
\* to be it.
LEMMA KeySpots ==
  ASSUME NEW t, NEW us, NEW r, NEW w, NEW q, Reply(t, us, r, w, q), NEW k, NEW d,
         KeyPlace(r, k, d), NEW j \in Nat, j \geq 1, j + 2 \leq Len(t),
         t[j] = 34, t[j + 1] = k, t[j + 2] = 34
  PROVE  j = q + d \/ (j = q - 2 /\ EndsInKey(us, k))
<1> DEFINE raw == Raw(us)
           L == Len(raw)
           n == Len(t)
<1>1. t \in Seq(Nat) /\ raw \in Seq(Nat) /\ q \in Nat /\ q = 12 + L /\ L \in Nat
      /\ q \leq n /\ n \leq q + 28 /\ n \in Nat
  BY ReplySizes DEF ReplyOfSize
<1>2. /\ \A e \in 1..L : t[11 + e] = raw[e]
      /\ \A e \in 0..28 : q + e \leq n => t[q + e] = r[e + 1]
      /\ \A e \in 1..L : raw[e] = 34 => e > 1 /\ raw[e - 1] = 92
  <2>1. /\ \A e \in 1..L : t[11 + e] = raw[e]
        /\ \A e \in 0..28 : q + e \leq n => t[q + e] = r[e + 1]
    <3>1. ReplyOfSize(t, us, r, q)
      BY ReplySizes
    <3> QED
      BY ONLY <3>1 DEF ReplyOfSize, L, raw, n
  <2>2. QuotesEscaped(raw)
    BY DEF Reply
  <2>3. \A e \in 1..L : raw[e] = 34 => e > 1 /\ raw[e - 1] = 92
    BY ONLY <2>2 DEF QuotesEscaped, L
  <2> QED
    BY ONLY <2>1, <2>3
<1>3. k \in {258, 259, 260} /\ d \in Nat /\ \A e \in 1..29 : r[e] = k => e = d + 2
  BY DEF KeyPlace
<1>4. \A e \in 2..11 : t[e] \in {34, 256, 58, 296, 257, 32}
  <2>1. \A e \in 2..11 : e \in {2, 3, 4, 5, 6, 7, 8, 9, 10, 11}
    OBVIOUS
  <2>2. /\ t[2] = 256 /\ t[3] = 34 /\ t[4] = 58 /\ t[5] = 296 /\ t[6] = 34 /\ t[7] = 257
        /\ t[8] = 34 /\ t[9] = 58 /\ t[10] = 32 /\ t[11] = 34
    BY DEF Reply
  <2> QED
    BY ONLY <2>1, <2>2
<1> HIDE DEF raw, L, n
<1>5. j + 2 \leq n
  BY DEF n
<1>6. CASE j + 1 \leq 11
  <2>1. j + 1 \in 2..11
    BY <1>6
  <2>2. t[j + 1] \in {34, 256, 58, 296, 257, 32}
    BY ONLY <1>4, <2>1
  <2>3. k \notin {34, 256, 58, 296, 257, 32}
    BY ONLY <1>3
  <2>4. t[j + 1] = k
    OBVIOUS
  <2> QED
    BY ONLY <2>2, <2>3, <2>4
<1>7. CASE 11 < j + 1 /\ j + 1 < q
  <2> DEFINE e == j - 10
  <2>1. e \in 1..L /\ 11 + e = j + 1
    BY <1>1, <1>7
  <2>2. raw[e] = k
    BY <1>2, <2>1
  <2>3. e = L
    <3> SUFFICES ASSUME e # L PROVE FALSE
      OBVIOUS
    <3>1. e + 1 \in 1..L /\ 11 + (e + 1) = j + 2 /\ (e + 1) - 1 = e
      BY <1>1, <2>1
    <3>2. raw[e + 1] = 34
      <4>1. t[11 + (e + 1)] = raw[e + 1]
        BY ONLY <1>2, <3>1
      <4>2. t[j + 2] = 34
        OBVIOUS
      <4> QED
        BY ONLY <3>1, <4>1, <4>2
    <3>3. raw[e] = 92
      BY <1>2, <3>1, <3>2
    <3> QED
      BY <1>3, <2>2, <3>3
  <2>4. j = q - 2
    BY <1>1, <2>1, <2>3
  <2>5. raw # <<>>
    BY <1>1, <2>1 DEF L
  <2>6. L = 1 \/ raw[L - 1] = 34
    <3> SUFFICES ASSUME L # 1 PROVE raw[L - 1] = 34
      OBVIOUS
    <3>1. L - 1 \in 1..L /\ 11 + (L - 1) = j
      BY <1>1, <2>1, <2>3
    <3> QED
      BY <1>2, <3>1
  <2>7. EndsInKey(us, k)
    <3>1. Quote = 34
      BY WordsDiffer
    <3> QED
      BY <2>2, <2>3, <2>5, <2>6, <3>1 DEF EndsInKey, raw, L
  <2> QED
    BY <2>4, <2>7
<1>8. CASE q \leq j + 1
  <2> DEFINE e == (j + 1) - q
  <2>1. e \in 0..28 /\ q + e = j + 1 /\ q + e \leq n /\ e + 1 \in 1..29
    BY <1>1, <1>5, <1>8
  <2>2. r[e + 1] = k
    <3>1. t[q + e] = r[e + 1]
      BY ONLY <1>2, <2>1
    <3>2. t[j + 1] = k
      OBVIOUS
    <3> QED
      BY ONLY <2>1, <3>1, <3>2
  <2>3. e + 1 = d + 2
    BY <1>3, <2>1, <2>2
  <2> QED
    BY <1>1, <1>3, <2>1, <2>3
<1> QED
  BY <1>1, <1>6, <1>7, <1>8

\* FindKey finds a key behind the content in its place, once it has arrived, unless
\* the content ends in what looks like it.
LEMMA KeySearched ==
  ASSUME NEW t, NEW us, NEW r, NEW w, NEW q, Reply(t, us, r, w, q), NEW k, NEW d,
         KeyPlace(r, k, d)
  PROVE  FindKey(t, k, 1) = IF EndsInKey(us, k) THEN q - 2
                            ELSE IF q + d + 2 \leq Len(t) THEN q + d ELSE 0
<1> DEFINE raw == Raw(us)
           L == Len(raw)
           n == Len(t)
<1>1. t \in Seq(Nat) /\ raw \in Seq(Nat) /\ q \in Nat /\ q = 12 + L /\ L \in Nat
      /\ q \leq n /\ n \leq q + 28 /\ n \in Nat /\ 1 \in Nat /\ 1 \geq 1 /\ Quote = 34
  BY WordsDiffer, ReplySizes DEF ReplyOfSize
<1>2. k \in Nat /\ d \in Nat /\ d + 5 \leq 28
      /\ r[d + 1] = 34 /\ r[d + 2] = k /\ r[d + 3] = 34
  BY DEF KeyPlace
<1>3. \A j \in Nat : /\ j \geq 1 /\ j + 2 \leq n /\ t[j] = 34 /\ t[j + 1] = k /\ t[j + 2] = 34
                     => j = q + d \/ (j = q - 2 /\ EndsInKey(us, k))
  BY KeySpots
<1>4. /\ \A e \in 1..L : t[11 + e] = raw[e]
      /\ \A e \in 0..28 : q + e \leq n => t[q + e] = r[e + 1]
      /\ t[11] = 34 /\ r[1] = 34
  <2>1. /\ \A e \in 1..L : t[11 + e] = raw[e]
        /\ \A e \in 0..28 : q + e \leq n => t[q + e] = r[e + 1]
    <3>1. ReplyOfSize(t, us, r, q)
      BY ReplySizes
    <3> QED
      BY ONLY <3>1 DEF ReplyOfSize, L, raw, n
  <2>2. t[11] = 34 /\ r[1] = 34
    BY DEF Reply, TailChars
  <2> QED
    BY ONLY <2>1, <2>2
<1> HIDE DEF raw, L
<1>5. CASE EndsInKey(us, k)
  <2> DEFINE i == q - 2
             m == i - 1
  <2>1. raw # <<>> /\ raw[L] = k /\ (L = 1 \/ raw[L - 1] = 34)
    BY <1>1, <1>5 DEF EndsInKey, raw, L
  <2>2. L \geq 1
    BY ONLY <1>1, <2>1 DEF L
  <2>3. /\ i \in Nat /\ i \geq 1 /\ i + 2 \leq n /\ i + 1 = 11 + L /\ i + 2 = q + 0
        /\ m = i - 1
    BY <1>1, <2>2
  <2>4. t[i + 1] = k
    <3>1. L \in 1..L
      BY <1>1, <2>2
    <3>2. t[11 + L] = raw[L]
      BY <1>4, <3>1
    <3> QED
      BY <2>1, <2>3, <3>2
  <2>5. t[i + 2] = 34
    <3>1. 0 \in 0..28 /\ q + 0 \leq n /\ 0 + 1 = 1
      BY <1>1
    <3>2. t[q + 0] = r[1]
      BY <1>4, <3>1
    <3> QED
      BY <1>4, <2>3, <3>2
  <2>6. t[i] = 34
    <3>1. CASE L = 1
      <4>1. i = 11
        BY <1>1, <3>1
      <4> QED
        BY <1>4, <4>1
    <3>2. CASE L # 1
      <4>1. L - 1 \in 1..L /\ 11 + (L - 1) = i
        BY <1>1, <2>2, <3>2
      <4>2. t[11 + (L - 1)] = raw[L - 1]
        BY <1>4, <4>1
      <4> QED
        BY <2>1, <3>2, <4>1, <4>2
    <3> QED
      BY <3>1, <3>2
  <2>7. KeyFree(t, k, 1, m)
    <3> SUFFICES ASSUME NEW j \in 1..m, t[j] = 34, t[j + 1] = k, t[j + 2] = 34 PROVE FALSE
      BY <1>1 DEF KeyFree
    <3>1. j \in Nat /\ j \geq 1 /\ j \leq q - 3
      BY <1>1, <2>3
    <3>2. j + 2 \leq n /\ j # q + d /\ j # q - 2
      BY ONLY <1>1, <1>2, <3>1
    <3> QED
      BY <1>3, <3>1, <3>2
  <2> HIDE DEF i, m
  <2>8. FindKey(t, k, 1) = i
    <3>1. t[i] = Quote /\ t[i + 1] = k /\ t[i + 2] = Quote
      BY <1>1, <2>4, <2>5, <2>6
    <3>2. i + 2 \leq Len(t)
      BY <2>3
    <3> QED
      BY ONLY <1>1, <1>2, <2>3, <2>7, <3>1, <3>2, FoundKey
  <2> QED
    BY <1>5, <2>8 DEF i
<1>6. CASE ~EndsInKey(us, k) /\ q + d + 2 \leq n
  <2> DEFINE i == q + d
             m == i - 1
  <2>1. /\ i \in Nat /\ i \geq 1 /\ i + 2 \leq n /\ i + 1 = q + (d + 1) /\ i + 2 = q + (d + 2)
        /\ m = i - 1 /\ d \in 0..28 /\ d + 1 \in 0..28 /\ d + 2 \in 0..28
        /\ (d + 1) + 1 = d + 2 /\ (d + 2) + 1 = d + 3
    BY <1>1, <1>2, <1>6, SMTT(30)
  <2>2. t[i] = 34 /\ t[i + 1] = k /\ t[i + 2] = 34
    <3>1. q + d \leq n /\ q + (d + 1) \leq n /\ q + (d + 2) \leq n
      BY <1>1, <1>2, <2>1
    <3>2. t[q + d] = r[d + 1]
      BY <1>4, <2>1, <3>1
    <3>3. t[q + (d + 1)] = r[(d + 1) + 1]
      BY <1>4, <2>1, <3>1
    <3>4. t[q + (d + 2)] = r[(d + 2) + 1]
      BY <1>4, <2>1, <3>1
    <3> QED
      BY <1>2, <2>1, <3>2, <3>3, <3>4
  <2>3. KeyFree(t, k, 1, m)
    <3> SUFFICES ASSUME NEW j \in 1..m, t[j] = 34, t[j + 1] = k, t[j + 2] = 34 PROVE FALSE
      BY <1>1 DEF KeyFree
    <3>1. j \in Nat /\ j \geq 1 /\ j + 2 \leq n /\ j # q + d
      BY <1>1, <1>2, <2>1
    <3> QED
      BY <1>3, <1>6, <3>1
  <2> HIDE DEF i, m
  <2>4. FindKey(t, k, 1) = i
    <3>1. t[i] = Quote /\ t[i + 1] = k /\ t[i + 2] = Quote
      BY <1>1, <2>2
    <3>2. i + 2 \leq Len(t)
      BY <2>1
    <3> QED
      BY ONLY <1>1, <1>2, <2>1, <2>3, <3>1, <3>2, FoundKey
  <2> QED
    BY <1>6, <2>4 DEF i
<1>7. CASE ~EndsInKey(us, k) /\ ~(q + d + 2 \leq n)
  <2> DEFINE m == n - 2
  <2>1. KeyFree(t, k, 1, m)
    <3> SUFFICES ASSUME NEW j \in 1..m, t[j] = 34, t[j + 1] = k, t[j + 2] = 34 PROVE FALSE
      BY <1>1 DEF KeyFree
    <3>1. j \in Nat /\ j \geq 1 /\ j + 2 \leq n /\ j # q + d
      BY <1>1, <1>2, <1>7
    <3> QED
      BY <1>3, <1>7, <3>1
  <2>2. m = Len(t) - 2
    OBVIOUS
  <2> HIDE DEF m
  <2>3. FindKey(t, k, 1) = 0
    BY ONLY <1>1, <1>2, <2>1, <2>2, NoKey
  <2> QED
    BY <1>7, <2>3
<1> QED
  BY <1>5, <1>6, <1>7

\* Where the value of the key begins.
LEMMA ValueSearched ==
  ASSUME NEW t, NEW us, NEW r, NEW w, NEW q, Reply(t, us, r, w, q), NEW k, NEW d,
         KeyPlace(r, k, d)
  PROVE  /\ ValueStart(t, q - 2) = IF q + 5 \leq Len(t) THEN q + 6 ELSE 0
         /\ ValueStart(t, q + d) = IF q + d + 3 \leq Len(t) THEN q + d + 4 ELSE 0
<1> DEFINE n == Len(t)
<1>1. t \in Seq(Nat) /\ q \in Nat /\ q \geq 12 /\ n \in Nat /\ q \leq n
      /\ Colon = 58 /\ Space = 32
  BY WordsDiffer, ReplySizes DEF ReplyOfSize
<1>2. d \in Nat /\ d + 5 \leq 28 /\ r[d + 4] = 58 /\ r[d + 5] # 32
  BY DEF KeyPlace
<1>3. \A e \in 0..28 : q + e \leq n => t[q + e] = r[e + 1]
  <2>1. ReplyOfSize(t, us, r, q)
    BY ReplySizes
  <2> QED
    BY ONLY <2>1 DEF ReplyOfSize, n
<1>4. r[2] = 296 /\ r[3] = 34 /\ r[4] = 296 /\ r[5] = 34 /\ r[6] = 58 /\ r[7] = 297
  BY DEF Reply, TailChars
<1>5. ValueStart(t, q - 2) = IF q + 5 \leq Len(t) THEN q + 6 ELSE 0
  <2> DEFINE x == q - 2
             c == q + 5
  <2>1. x \in Nat /\ c \in Nat /\ c \geq x + 3 /\ x + 3 = q + 1 /\ c + 1 = q + 6
    BY <1>1
  <2>2. \A e \in 1..4 : r[e + 1] # 58
    <3>1. \A e \in 1..4 : e + 1 \in {2, 3, 4, 5}
      OBVIOUS
    <3> QED
      BY ONLY <1>4, <3>1
  <2>3. ASSUME NEW j \in (x+3)..(c-1), j \leq Len(t) PROVE t[j] # Colon
    <3>1. j - q \in 1..4 /\ j - q \in 0..28 /\ q + (j - q) = j
      BY <1>1
    <3>2. t[q + (j - q)] = r[(j - q) + 1]
      BY <1>3, <2>3, <3>1
    <3> QED
      BY <1>1, <2>2, <3>1, <3>2, SMTT(30)
  <2>4. c \leq Len(t) => t[c] = Colon
    <3>1. 5 \in 0..28 /\ 5 + 1 = 6
      OBVIOUS
    <3>2. q + 5 \leq n => t[q + 5] = r[6]
      BY <1>3, <3>1
    <3> QED
      BY <1>1, <1>4, <3>2
  <2>5. c + 1 \leq Len(t) => t[c + 1] # Space
    <3>1. 6 \in 0..28 /\ 6 + 1 = 7
      OBVIOUS
    <3>2. q + 6 \leq n => t[q + 6] = r[7]
      BY <1>3, <3>1
    <3> QED
      BY <1>1, <1>4, <2>1, <3>2
  <2> HIDE DEF x, c
  <2>6. ValueStart(t, x) = IF c \leq Len(t) THEN c + 1 ELSE 0
    BY ONLY <1>1, <2>1, <2>3, <2>4, <2>5, ValueBehind
  <2> QED
    BY <2>1, <2>6 DEF x, c
<1>6. ValueStart(t, q + d) = IF q + d + 3 \leq Len(t) THEN q + d + 4 ELSE 0
  <2> DEFINE x == q + d
             c == q + d + 3
  <2>1. x \in Nat /\ c \in Nat /\ c \geq x + 3 /\ c + 1 = q + d + 4 /\ c = q + (d + 3)
        /\ c + 1 = q + (d + 4) /\ d + 3 \in 0..28 /\ d + 4 \in 0..28
        /\ (d + 3) + 1 = d + 4 /\ (d + 4) + 1 = d + 5
    BY <1>1, <1>2
  <2>2. \A j \in (x+3)..(c-1) : j \leq Len(t) => t[j] # Colon
    BY <1>1, <1>2
  <2>3. c \leq Len(t) => t[c] = Colon
    <3>1. q + (d + 3) \leq n => t[q + (d + 3)] = r[(d + 3) + 1]
      BY <1>3, <2>1
    <3> QED
      BY <1>1, <1>2, <2>1, <3>1
  <2>4. c + 1 \leq Len(t) => t[c + 1] # Space
    <3>1. q + (d + 4) \leq n => t[q + (d + 4)] = r[(d + 4) + 1]
      BY <1>3, <2>1
    <3> QED
      BY <1>1, <1>2, <2>1, <3>1
  <2> HIDE DEF x, c
  <2>5. ValueStart(t, x) = IF c \leq Len(t) THEN c + 1 ELSE 0
    BY ONLY <1>1, <2>1, <2>2, <2>3, <2>4, ValueBehind, SMTT(30)
  <2> QED
    BY <2>1, <2>5 DEF x, c
<1> QED
  BY <1>5, <1>6

-----------------------------------------------------------------------------
(***************************************************************************)
(* The finish reason and the counts of a reply.                            *)
(***************************************************************************)
\* The finish reason of a reply that may have been cut.
LEMMA ReasonRead ==
  ASSUME NEW t, NEW us, NEW r, NEW w, NEW q, Reply(t, us, r, w, q), NEW g,
         g = JsonStringValue(t, FinishReason, <<StopWord>>)
  PROVE  /\ EndsInKey(us, FinishReason) => g.ok = FALSE
         /\ g.ok = TRUE => g.value \in {<<StopWord>>, <<w>>}
         /\ ~EndsInKey(us, FinishReason) /\ Len(t) = q + 28 => g.ok = TRUE
         /\ g.ok = TRUE /\ Len(t) = q + 28 => g.value = <<w>>
<1> DEFINE n == Len(t)
           found == FindKey(t, FinishReason, 1)
           start == ValueStart(t, found)
           stop == <<StopWord>>
           ends == EndsInKey(us, FinishReason)
<1>1. FinishReason = 258 /\ StopWord = 261 /\ Quote = 34 /\ Backslash = 92
  BY WordsDiffer
<1>2. ReplyOfSize(t, us, r, q) /\ TailChars(r, w) /\ w \in {261, 262}
  <2>1. TailChars(r, w) /\ w \in {261, 262}
    BY ONLY Reply(t, us, r, w, q) DEF Reply
  <2> QED
    BY <2>1, ReplySizes
<1>3. t \in Seq(Nat) /\ q \in Nat /\ q \geq 12 /\ n \in Nat /\ q \leq n /\ n \leq q + 28
  BY ONLY <1>2 DEF ReplyOfSize
<1>4. \A e \in 0..28 : q + e \leq n => t[q + e] = r[e + 1]
  BY ONLY <1>2 DEF ReplyOfSize
<1>5. r[7] = 297 /\ r[12] = 34 /\ r[13] = w /\ r[14] = 34
  BY ONLY <1>2 DEF TailChars
<1>6. /\ q + 6 \leq n => t[q + 6] = 297
      /\ q + 11 \leq n => t[q + 11] = 34
      /\ q + 12 \leq n => t[q + 12] = w
      /\ q + 13 \leq n => t[q + 13] = 34
  <2>1. 6 \in 0..28 /\ 11 \in 0..28 /\ 12 \in 0..28 /\ 13 \in 0..28
        /\ 6 + 1 = 7 /\ 11 + 1 = 12 /\ 12 + 1 = 13 /\ 13 + 1 = 14
    OBVIOUS
  <2>2. q + 6 \leq n => t[q + 6] = r[7]
    BY ONLY <1>4, <2>1
  <2>3. q + 11 \leq n => t[q + 11] = r[12]
    BY ONLY <1>4, <2>1
  <2>4. q + 12 \leq n => t[q + 12] = r[13]
    BY ONLY <1>4, <2>1
  <2>5. q + 13 \leq n => t[q + 13] = r[14]
    BY ONLY <1>4, <2>1
  <2> QED
    BY ONLY <1>5, <2>2, <2>3, <2>4, <2>5
<1>7. g = CASE found = 0 /\ stop # <<>> -> [Fail EXCEPT !.ok = TRUE, !.value = stop]
            [] found = 0 /\ stop = <<>> -> Fail
            [] found # 0 /\ start # 0 /\ Is(t, start, Quote) -> PlainString(t, start + 1)
            [] OTHER -> Fail
  BY ONLY g = JsonStringValue(t, FinishReason, <<StopWord>>) DEF JsonStringValue
<1>8. stop # <<>>
  OBVIOUS
<1>9. /\ found = 0 => g = [Fail EXCEPT !.ok = TRUE, !.value = stop]
      /\ found # 0 /\ start # 0 /\ Is(t, start, Quote) => g = PlainString(t, start + 1)
      /\ found # 0 /\ ~(start # 0 /\ Is(t, start, Quote)) => g = Fail
  <2> HIDE DEF found, start, stop
  <2>1. found = 0 => g = [Fail EXCEPT !.ok = TRUE, !.value = stop]
    BY ONLY <1>7, <1>8
  <2>2. found # 0 /\ start # 0 /\ Is(t, start, Quote) => g = PlainString(t, start + 1)
    BY ONLY <1>7, <1>8
  <2>3. found # 0 /\ ~(start # 0 /\ Is(t, start, Quote)) => g = Fail
    BY ONLY <1>7, <1>8
  <2> QED
    BY ONLY <2>1, <2>2, <2>3
<1>10. KeyPlace(r, 258, 7)
  BY <1>2, KeyPlaces
<1>11. found = IF ends THEN q - 2 ELSE IF q + 7 + 2 \leq n THEN q + 7 ELSE 0
  <2> DEFINE k == FinishReason
  <2>1. KeyPlace(r, k, 7)
    BY <1>1, <1>10
  <2> HIDE DEF k
  <2>2. FindKey(t, k, 1) = IF EndsInKey(us, k) THEN q - 2
                           ELSE IF q + 7 + 2 \leq Len(t) THEN q + 7 ELSE 0
    BY <2>1, KeySearched
  <2> QED
    BY ONLY <2>2 DEF k, found, ends, n
<1>12. /\ ValueStart(t, q - 2) = IF q + 5 \leq n THEN q + 6 ELSE 0
       /\ ValueStart(t, q + 7) = IF q + 7 + 3 \leq n THEN q + 7 + 4 ELSE 0
  BY <1>10, ValueSearched
<1>13. Fail.ok = FALSE
  BY DEF Fail
<1> HIDE DEF n, found, stop, ends
<1>14. CASE ends
  <2>1. found = q - 2 /\ found # 0
    BY ONLY <1>3, <1>11, <1>14
  <2>2. start = IF q + 5 \leq n THEN q + 6 ELSE 0
    BY ONLY <1>12, <2>1 DEF start
  <2>3. ~(start # 0 /\ Is(t, start, Quote))
    <3>1. ASSUME start # 0, Is(t, start, Quote) PROVE FALSE
      <4>1. start = q + 6
        BY ONLY <2>2, <3>1
      <4>2. q + 6 \leq n /\ t[q + 6] = 34
        BY ONLY <1>1, <3>1, <4>1 DEF Is, n
      <4> QED
        BY ONLY <1>6, <4>2
    <3> QED
      BY <3>1
  <2>4. g.ok = FALSE
    BY ONLY <1>9, <1>13, <2>1, <2>3
  <2> QED
    BY ONLY <1>14, <2>4 DEF ends
<1>15. CASE ~ends /\ ~(q + 7 + 2 \leq n)
  <2>1. found = 0
    BY ONLY <1>11, <1>15
  <2>2. g.ok = TRUE /\ g.value = stop
    BY ONLY <1>9, <2>1 DEF Fail
  <2>3. n # q + 28
    BY ONLY <1>3, <1>15
  <2> QED
    BY ONLY <1>15, <2>2, <2>3 DEF ends, stop, n
<1>16. CASE ~ends /\ q + 7 + 2 \leq n
  <2>1. found = q + 7 /\ found # 0
    BY ONLY <1>3, <1>11, <1>16
  <2>2. start = IF q + 7 + 3 \leq n THEN q + 7 + 4 ELSE 0
    BY ONLY <1>12, <2>1 DEF start
  <2>3. CASE ~(q + 11 \leq n)
    <3>1. ~(start # 0 /\ Is(t, start, Quote))
      <4>1. ASSUME start # 0, Is(t, start, Quote) PROVE FALSE
        <5>1. start = q + 11
          BY ONLY <1>3, <2>2, <4>1
        <5> QED
          BY ONLY <2>3, <4>1, <5>1 DEF Is, n
      <4> QED
        BY <4>1
    <3>2. g.ok = FALSE
      BY ONLY <1>9, <1>13, <2>1, <3>1
    <3>3. n # q + 28
      BY ONLY <1>3, <2>3
    <3> QED
      BY ONLY <1>16, <3>2, <3>3 DEF ends, n
  <2>4. CASE q + 11 \leq n
    <3>1. start = q + 11 /\ start # 0 /\ start + 1 = q + 12
      BY ONLY <1>3, <2>2, <2>4
    <3>2. Is(t, start, Quote)
      <4>1. t[q + 11] = 34
        BY ONLY <1>6, <2>4
      <4> QED
        BY ONLY <1>1, <2>4, <3>1, <4>1 DEF Is, n
    <3>3. g = PlainString(t, q + 12)
      BY ONLY <1>9, <2>1, <3>1, <3>2
    <3>4. q + 12 \in Positions /\ q + 13 \in Positions /\ (q + 12) + 1 = q + 13
      BY ONLY <1>3 DEF Positions
    <3> DEFINE i == q + 12
               j == q + 13
    <3>5. i \in Positions /\ j \in Positions /\ i + 1 = j
      BY ONLY <3>4 DEF i, j
    <3> HIDE DEF i, j
    <3>6. CASE ~(i \leq n)
      <4>1. i > Len(t) /\ n # q + 28
        BY ONLY <1>3, <3>6 DEF i, n
      <4>2. g = Fail
        BY ONLY <1>3, <3>3, <3>5, <4>1, PlainStringEquation DEF i
      <4> QED
        BY ONLY <1>13, <1>16, <4>1, <4>2 DEF ends, n
    <3>7. CASE i \leq n
      <4>1. t[i] = w
        BY ONLY <1>6, <3>7 DEF i
      <4>2. i \leq Len(t) /\ t[i] \notin {Quote, Backslash}
        <5>1. w \notin {Quote, Backslash}
          BY ONLY <1>1, <1>2
        <5> QED
          BY ONLY <3>7, <4>1, <5>1 DEF n
      <4>3. g = Then(<<w>>, PlainString(t, j))
        <5>1. PlainString(t, i) = Then(<<t[i]>>, PlainString(t, i + 1))
          BY ONLY <1>3, <3>5, <4>2, PlainStringEquation
        <5> QED
          BY ONLY <3>3, <3>5, <4>1, <5>1 DEF i
      <4>4. <<w>> \in Seq(Nat) /\ <<>> \in Seq(Nat) /\ PlainString(t, j) \in Parsed
        <5>1. PlainString(t, j) \in Parsed
          BY ONLY <1>3, <3>5, PlainStringEquation
        <5> QED
          BY ONLY <1>2, <5>1
      <4>5. CASE ~(j \leq n)
        <5>1. j > Len(t) /\ n # q + 28
          BY ONLY <1>3, <4>5 DEF j, n
        <5>2. PlainString(t, j) = Fail
          BY ONLY <1>3, <3>5, <5>1, PlainStringEquation
        <5>3. g = Fail
          BY ONLY <1>13, <4>3, <5>2 DEF Then
        <5> QED
          BY ONLY <1>13, <1>16, <5>1, <5>3 DEF ends, n
      <4>6. CASE j \leq n
        <5>1. t[j] = 34
          BY ONLY <1>6, <4>6 DEF j
        <5>2. Is(t, j, Quote)
          BY ONLY <1>1, <4>6, <5>1 DEF Is, n
        <5> DEFINE x == [ok |-> TRUE, value |-> <<>>, next |-> j + 1]
        <5>3. PlainString(t, j) = x
          BY ONLY <1>3, <3>5, <5>2, PlainStringEquation
        <5>4. x.ok = TRUE /\ x.value = <<>>
          OBVIOUS
        <5> HIDE DEF x
        <5>5. g.ok = TRUE /\ g.value = <<w>> \o <<>>
          <6>1. x \in Parsed
            BY ONLY <4>4, <5>3
          <6>2. Then(<<w>>, x).ok = TRUE /\ Then(<<w>>, x).value = <<w>> \o x.value
            BY ONLY <4>4, <5>4, <6>1, ThenLemma
          <6> QED
            BY ONLY <4>3, <5>3, <5>4, <6>2
        <5>6. <<w>> \o <<>> = <<w>>
          BY ONLY <4>4, NatSequences
        <5> QED
          BY ONLY <1>16, <5>5, <5>6 DEF ends, n
      <4> QED
        BY ONLY <4>5, <4>6
    <3> QED
      BY ONLY <3>6, <3>7
  <2> QED
    BY ONLY <2>3, <2>4
<1> QED
  BY ONLY <1>14, <1>15, <1>16

-----------------------------------------------------------------------------
\* The digits of a count stand behind its key and colon.
Counted(r, d, x, y) ==
  /\ x \in 0..9 /\ y \in 0..9 /\ d + 7 \leq 29
  /\ r[d + 5] = 48 + x /\ r[d + 6] = 48 + y /\ ~IsDigit(r[d + 7])

\* The digits of the two counts.
LEMMA CountsKept ==
  ASSUME NEW r, NEW w, TailChars(r, w)
  PROVE  Counted(r, 15, 9, 9) /\ Counted(r, 22, 1, 2)
<1>1. /\ r[20] = 57 /\ r[21] = 57 /\ r[22] = 296 /\ r[27] = 49 /\ r[28] = 50 /\ r[29] = 296
  BY ONLY TailChars(r, w) DEF TailChars
<1>2. ~IsDigit(296)
  BY DEF IsDigit
<1>3. 15 + 5 = 20 /\ 15 + 6 = 21 /\ 15 + 7 = 22 /\ 22 + 5 = 27 /\ 22 + 6 = 28 /\ 22 + 7 = 29
      /\ 48 + 9 = 57 /\ 48 + 1 = 49 /\ 48 + 2 = 50 /\ 9 \in 0..9 /\ 1 \in 0..9 /\ 2 \in 0..9
      /\ 22 \leq 29 /\ 29 \leq 29
  OBVIOUS
<1> QED
  BY ONLY <1>1, <1>2, <1>3 DEF Counted

\* A count of a reply that may have been cut.
LEMMA CountRead ==
  ASSUME NEW t, NEW us, NEW r, NEW w, NEW q, Reply(t, us, r, w, q), NEW k, NEW d,
         KeyPlace(r, k, d), NEW x, NEW y, Counted(r, d, x, y)
  PROVE  JsonUnsignedValue(t, k) =
           IF EndsInKey(us, k) \/ Len(t) < q + d + 4 THEN 0
           ELSE IF Len(t) = q + d + 4 THEN x ELSE 10 * x + y
<1> DEFINE n == Len(t)
           found == FindKey(t, k, 1)
           start == ValueStart(t, found)
           value == IF found = 0 \/ start = 0 THEN 0 ELSE Digits(t, start)
           ends == EndsInKey(us, k)
           p == q + d + 4
<1>1. ReplyOfSize(t, us, r, q) /\ r[7] = 297
  <2>1. TailChars(r, w)
    BY ONLY Reply(t, us, r, w, q) DEF Reply
  <2>2. r[7] = 297
    BY ONLY <2>1 DEF TailChars
  <2> QED
    BY <2>2, ReplySizes
<1>2. t \in Seq(Nat) /\ q \in Nat /\ q \geq 12 /\ n \in Nat /\ q \leq n /\ n \leq q + 28
  BY ONLY <1>1 DEF ReplyOfSize
<1>3. \A e \in 0..28 : q + e \leq n => t[q + e] = r[e + 1]
  BY ONLY <1>1 DEF ReplyOfSize
<1>4. d \in Nat /\ x \in Nat /\ y \in Nat /\ x \leq 9 /\ y \leq 9 /\ d + 7 \leq 29
      /\ r[d + 5] = 48 + x /\ r[d + 6] = 48 + y /\ ~IsDigit(r[d + 7])
  <2>1. d \in Nat
    BY ONLY KeyPlace(r, k, d) DEF KeyPlace
  <2>2. x \in 0..9 /\ y \in 0..9 /\ d + 7 \leq 29
        /\ r[d + 5] = 48 + x /\ r[d + 6] = 48 + y /\ ~IsDigit(r[d + 7])
    BY ONLY Counted(r, d, x, y) DEF Counted
  <2> QED
    BY ONLY <2>1, <2>2
<1>5. p \in Nat /\ p \geq 1 /\ p + 1 = q + d + 5 /\ p + 2 = q + d + 6
  BY ONLY <1>2, <1>4
<1>6. /\ p \leq n => t[p] = 48 + x
      /\ p + 1 \leq n => t[p + 1] = 48 + y
      /\ p + 2 \leq n => ~IsDigit(t[p + 2])
  <2>1. /\ d + 4 \in 0..28 /\ d + 5 \in 0..28 /\ d + 6 \in 0..28
        /\ q + (d + 4) = p /\ q + (d + 5) = p + 1 /\ q + (d + 6) = p + 2
        /\ (d + 4) + 1 = d + 5 /\ (d + 5) + 1 = d + 6 /\ (d + 6) + 1 = d + 7
    BY ONLY <1>2, <1>4 DEF p
  <2> HIDE DEF p, n
  <2>2. p \leq n => t[p] = r[d + 5]
    BY ONLY <1>3, <2>1
  <2>3. p + 1 \leq n => t[p + 1] = r[d + 6]
    BY ONLY <1>3, <2>1
  <2>4. p + 2 \leq n => t[p + 2] = r[d + 7]
    BY ONLY <1>3, <2>1
  <2> QED
    BY ONLY <1>4, <2>2, <2>3, <2>4
<1>7. found = IF ends THEN q - 2 ELSE IF q + d + 2 \leq n THEN q + d ELSE 0
  BY KeySearched
<1>8. /\ ValueStart(t, q - 2) = IF q + 5 \leq n THEN q + 6 ELSE 0
      /\ ValueStart(t, q + d) = IF q + d + 3 \leq n THEN p ELSE 0
  BY ValueSearched
<1>9. 99 \leq CountMax /\ CountMax \in Nat
  BY ScenariosAssumption, RuntimeAssumption
<1>10. JsonUnsignedValue(t, k) = IF value \leq CountMax THEN value ELSE 0
  BY ONLY DEF JsonUnsignedValue, value, start, found
<1> HIDE DEF found, ends, p, value
<1>11. value = IF ends \/ n < p THEN 0 ELSE IF n = p THEN x ELSE 10 * x + y
  <2>1. CASE ends
    <3>1. found = q - 2
      BY ONLY <1>7, <2>1
    <3>2. start = IF q + 5 \leq n THEN q + 6 ELSE 0
      BY ONLY <1>8, <3>1 DEF start
    <3>3. CASE q + 5 \leq n
      <4> DEFINE i == q + 6
                 z == 0
      <4>1. start = i
        BY ONLY <3>2, <3>3 DEF i
      <4>2. i \in Nat /\ i \geq 1 /\ i \leq n + 1 /\ z \in 0..2
        BY ONLY <1>2, <3>3 DEF i, z
      <4>3. i \leq n => ~IsDigit(t[i])
        <5>1. 6 \in 0..28 /\ 6 + 1 = 7
          OBVIOUS
        <5>2. q + 6 \leq n => t[q + 6] = r[7]
          BY ONLY <1>3, <5>1
        <5>3. ~IsDigit(297)
          BY ONLY DEF IsDigit
        <5> QED
          BY ONLY <1>1, <5>2, <5>3 DEF i
      <4> HIDE DEF i
      <4>4. /\ \A j \in i..(i + z - 1) : j \leq Len(t) /\ IsDigit(t[j])
            /\ i + z \leq Len(t) + 1
            /\ i + z \leq Len(t) => ~IsDigit(t[i + z])
        <5>1. i + z = i /\ i + z - 1 < i
          BY ONLY <4>2 DEF z
        <5>2. \A j \in i..(i + z - 1) : FALSE
          BY ONLY <4>2, <5>1 DEF z
        <5> QED
          BY ONLY <4>2, <4>3, <5>1, <5>2 DEF n
      <4> HIDE DEF z
      <4>5. Digits(t, i) = IF z = 0 THEN 0 ELSE IF z = 1 THEN t[i] - 48
                           ELSE 10 * (t[i] - 48) + (t[i + 1] - 48)
        BY ONLY <1>2, <4>2, <4>4, DigitsRead
      <4>6. Digits(t, start) = 0
        BY ONLY <4>1, <4>5 DEF z
      <4> QED
        BY ONLY <2>1, <4>6 DEF value
    <3>4. CASE ~(q + 5 \leq n)
      BY ONLY <2>1, <3>2, <3>4 DEF value
    <3> QED
      BY ONLY <3>3, <3>4
  <2>2. CASE ~ends /\ ~(q + d + 2 \leq n)
    <3>1. found = 0 /\ n < p
      BY ONLY <1>2, <1>4, <1>7, <2>2 DEF p
    <3> QED
      BY ONLY <3>1 DEF value
  <2>3. CASE ~ends /\ q + d + 2 \leq n
    <3>1. found = q + d /\ found # 0
      BY ONLY <1>2, <1>4, <1>7, <2>3
    <3>2. start = IF q + d + 3 \leq n THEN p ELSE 0
      BY ONLY <1>8, <3>1 DEF start
    <3>3. CASE ~(q + d + 3 \leq n)
      <4>1. n < p /\ start = 0
        BY ONLY <1>2, <1>4, <3>2, <3>3 DEF p
      <4> QED
        BY ONLY <4>1 DEF value
    <3>4. CASE q + d + 3 \leq n
      <4> DEFINE z == IF n < p THEN 0 ELSE IF n = p THEN 1 ELSE 2
      <4>1. start = p /\ p \leq n + 1 /\ start # 0
        BY ONLY <1>2, <1>4, <1>5, <3>2, <3>4 DEF p
      <4>2. z \in 0..2
        OBVIOUS
      <4>3. \A j \in p..(p + z - 1) : j \leq Len(t) /\ IsDigit(t[j])
        <5> SUFFICES ASSUME NEW j \in p..(p + z - 1) PROVE j \leq Len(t) /\ IsDigit(t[j])
          OBVIOUS
        <5>1. (j = p \/ j = p + 1) /\ (j = p => p \leq n) /\ (j = p + 1 => p + 1 \leq n)
          BY ONLY <1>2, <1>5, <4>1, j \in p..(p + z - 1) DEF z
        <5>2. IsDigit(48 + x) /\ IsDigit(48 + y)
          BY ONLY <1>4 DEF IsDigit
        <5>3. CASE j = p
          BY ONLY <1>6, <5>1, <5>2, <5>3 DEF n
        <5>4. CASE j = p + 1
          BY ONLY <1>6, <5>1, <5>2, <5>4 DEF n
        <5> QED
          BY ONLY <5>1, <5>3, <5>4
      <4>4. p + z \leq Len(t) + 1
        BY ONLY <1>2, <1>5, <4>1 DEF z, n
      <4>5. p + z \leq Len(t) => ~IsDigit(t[p + z])
        <5>1. ASSUME p + z \leq Len(t) PROVE ~IsDigit(t[p + z])
          <6>1. p + z = p + 2 /\ p + 2 \leq n
            BY ONLY <1>2, <1>5, <5>1 DEF z, n
          <6> QED
            BY ONLY <1>6, <6>1
        <5> QED
          BY <5>1
      <4> HIDE DEF z
      <4>6. Digits(t, p) = IF z = 0 THEN 0 ELSE IF z = 1 THEN t[p] - 48
                           ELSE 10 * (t[p] - 48) + (t[p + 1] - 48)
        BY ONLY <1>2, <1>5, <4>2, <4>3, <4>4, <4>5, DigitsRead
      <4>7. value = Digits(t, p)
        BY ONLY <3>1, <4>1 DEF value
      <4>8. CASE n < p
        BY ONLY <4>6, <4>7, <4>8 DEF z
      <4>9. CASE n = p
        <5>1. z = 1 /\ ~(n < p)
          BY ONLY <1>2, <4>9 DEF z
        <5>2. t[p] - 48 = x
          BY ONLY <1>4, <1>5, <1>6, <4>9
        <5> QED
          BY ONLY <2>3, <4>6, <4>7, <4>9, <5>1, <5>2
      <4>10. CASE n > p
        <5>1. z = 2 /\ ~(n < p) /\ n # p
          BY ONLY <1>2, <1>5, <4>10 DEF z
        <5>2. t[p] - 48 = x /\ t[p + 1] - 48 = y
          <6>1. p \leq n /\ p + 1 \leq n
            BY ONLY <1>2, <1>5, <4>10
          <6>2. t[p] = 48 + x /\ t[p + 1] = 48 + y
            BY ONLY <1>6, <6>1
          <6> QED
            BY ONLY <1>4, <6>2
        <5> QED
          BY ONLY <2>3, <4>6, <4>7, <5>1, <5>2
      <4> QED
        BY ONLY <1>2, <1>5, <4>8, <4>9, <4>10
    <3> QED
      BY ONLY <3>3, <3>4
  <2> QED
    BY ONLY <2>1, <2>2, <2>3
<1>12. value \in Nat /\ value \leq 99
  BY ONLY <1>4, <1>11
<1>13. JsonUnsignedValue(t, k) = value
  BY ONLY <1>9, <1>10, <1>12
<1> QED
  BY ONLY <1>11, <1>13 DEF n, p, ends

-----------------------------------------------------------------------------
(***************************************************************************)
(* Chunks that are cut.                                                    *)
(***************************************************************************)
\* As much of x as has arrived stands in c from position p on.
Visible(c, p, x) == \A k \in 1..Len(x) : p + k - 1 \leq Len(c) => c[p + k - 1] = x[k]

\* What stands in a text is visible in a prefix as far as it has arrived.
LEMMA VisibleOccurs ==
  ASSUME NEW X \in Seq(Nat), NEW c \in Seq(Nat), IsPrefix(c, X), NEW p \in Positions,
         NEW x \in Seq(Nat), Occurs(X, p, x)
  PROVE  Visible(c, p, x)
<1>1. /\ \A k \in 1..Len(x) : X[p + k - 1] = x[k]
      /\ \A k \in 1..Len(c) : c[k] = X[k]
  BY ONLY Occurs(X, p, x), IsPrefix(c, X) DEF Occurs, IsPrefix
<1> SUFFICES ASSUME NEW k \in 1..Len(x), p + k - 1 \leq Len(c) PROVE c[p + k - 1] = x[k]
  BY DEF Visible
<1>2. p + k - 1 \in 1..Len(c)
  BY DEF Positions
<1> QED
  BY <1>1, <1>2

\* The characters of a chunk.
LEMMA ChunkChars ==
  ASSUME NEW x \in Seq(Nat)
  PROVE  /\ Chunk(x) \in Seq(Nat) /\ Len(Chunk(x)) = Len(x) + 3
         /\ Chunk(x)[1] = ChunkSize(Len(x)) /\ Chunk(x)[2] = CRLF
         /\ \A k \in 1..Len(x) : Chunk(x)[k + 2] = x[k]
         /\ Chunk(x)[Len(x) + 3] = CRLF
<1> DEFINE h == <<ChunkSize(Len(x)), CRLF>>
           e == <<CRLF>>
           y == h \o x
           z == y \o e
           n == Len(x)
<1>1. h \in Seq(Nat) /\ Len(h) = 2 /\ h[1] = ChunkSize(n) /\ h[2] = CRLF
      /\ e \in Seq(Nat) /\ Len(e) = 1 /\ e[1] = CRLF /\ n \in Nat
  BY SymbolTypes
<1>2. Chunk(x) = z
  BY DEF Chunk
<1> HIDE DEF h, e
<1>3. /\ y \in Seq(Nat) /\ Len(y) = Len(h) + Len(x)
      /\ \A i \in 1..Len(h) : y[i] = h[i]
      /\ \A i \in 1..Len(x) : y[Len(h) + i] = x[i]
  BY <1>1, NatSequences, ZenonT(40)
<1> HIDE DEF y
<1>4. /\ z \in Seq(Nat) /\ Len(z) = Len(y) + Len(e)
      /\ \A i \in 1..Len(y) : z[i] = y[i]
      /\ \A i \in 1..Len(e) : z[Len(y) + i] = e[i]
  BY <1>1, <1>3, NatSequences, ZenonT(40)
<1> HIDE DEF z, n
<1>5. /\ Len(y) = n + 2 /\ Len(z) = n + 3
  BY <1>1, <1>3, <1>4 DEF n
<1>6. z[1] = ChunkSize(n) /\ z[2] = CRLF
  <2>1. 1 \in 1..Len(h) /\ 2 \in 1..Len(h) /\ 1 \in 1..Len(y) /\ 2 \in 1..Len(y)
    BY <1>1, <1>5
  <2> QED
    BY ONLY <1>1, <1>3, <1>4, <2>1
<1>7. \A k \in 1..n : z[k + 2] = x[k]
  <2> TAKE k \in 1..n
  <2>1. Len(h) + k = k + 2 /\ k + 2 \in 1..Len(y) /\ k \in 1..Len(x)
    BY <1>1, <1>5 DEF n
  <2> QED
    BY ONLY <1>3, <1>4, <2>1
<1>8. z[n + 3] = CRLF
  <2>1. 1 \in 1..Len(e) /\ Len(y) + 1 = n + 3
    BY <1>1, <1>5
  <2> QED
    BY ONLY <1>1, <1>4, <2>1
<1> QED
  BY <1>2, <1>4, <1>5, <1>6, <1>7, <1>8 DEF n

\* The end of the line that names the size of a chunk.
LEMMA ChunkHead ==
  ASSUME NEW c \in Seq(Nat), NEW p \in Positions, NEW n \in Nat,
         p \leq Len(c) => c[p] = ChunkSize(n), p + 1 \leq Len(c) => c[p + 1] = CRLF
  PROVE  Find(c, CRLF, p) = IF p + 1 \leq Len(c) THEN p + 1 ELSE 0
<1> DEFINE i == p + 1
<1>1. CRLF \in Nat /\ ChunkSize(n) # CRLF
  BY DEF CRLF, ChunkSize, Word, FirstQuad
<1>2. p \in Nat /\ p \geq 1 /\ i \in Nat /\ i \geq p /\ i - 1 = p
  BY DEF Positions
<1>3. \A j \in p..(i-1) : j \leq Len(c) => c[j] # CRLF
  <2>1. \A j \in p..(i-1) : j = p
    BY ONLY <1>2
  <2> QED
    BY ONLY <1>1, <2>1, p \leq Len(c) => c[p] = ChunkSize(n)
<1> HIDE DEF i
<1>4. Find(c, CRLF, p) = IF i \leq Len(c) THEN i ELSE 0
  <2>1. i \leq Len(c) => c[i] = CRLF
    BY DEF i
  <2> QED
    BY ONLY <1>1, <1>2, <1>3, <2>1, c \in Seq(Nat), FoundCharacter
<1> QED
  BY <1>4 DEF i

\* A chunk is taken when all of it has arrived.
LEMMA ChunkStep ==
  ASSUME NEW c \in Seq(Nat), NEW u \in [Positions -> Parsed], NEW p \in Positions,
         ChunkRead(c, u, p), NEW x \in Seq(Nat), Len(x) \geq 1, Visible(c, p, Chunk(x))
  PROVE  u[p] = IF p + Len(x) + 2 \leq Len(c) THEN Then(x, u[p + Len(x) + 3]) ELSE Fail
<1> DEFINE n == Len(x)
           m == Len(c)
           y == Chunk(x)
<1>1. n \in Nat /\ n \geq 1 /\ m \in Nat /\ p \in Nat /\ p \geq 1
  <2>1. n \in Nat /\ m \in Nat
    BY ONLY c \in Seq(Nat), x \in Seq(Nat) DEF n, m
  <2>2. n \geq 1
    BY ONLY Len(x) \geq 1 DEF n
  <2> QED
    BY ONLY <2>1, <2>2, p \in Positions DEF Positions
<1>2. /\ Len(y) = n + 3 /\ y[1] = ChunkSize(n) /\ y[2] = CRLF
      /\ \A k \in 1..n : y[k + 2] = x[k]
      /\ y[n + 3] = CRLF
  BY ChunkChars
<1> HIDE DEF y
<1>3. \A k \in 1..(n + 3) : p + k - 1 \leq m => c[p + k - 1] = y[k]
  BY ONLY <1>2, Visible(c, p, Chunk(x)) DEF Visible, y, m
<1> HIDE DEF n, m
<1>4. /\ p \leq m => c[p] = ChunkSize(n)
      /\ p + 1 \leq m => c[p + 1] = CRLF
      /\ p + n + 2 \leq m => c[p + n + 2] = CRLF
  <2>1. /\ 1 \in 1..(n + 3) /\ 2 \in 1..(n + 3) /\ n + 3 \in 1..(n + 3)
        /\ p + 1 - 1 = p /\ p + 2 - 1 = p + 1 /\ p + (n + 3) - 1 = p + n + 2
    BY ONLY <1>1
  <2>2. p \leq m => c[p] = y[1]
    BY ONLY <1>3, <2>1
  <2>3. p + 1 \leq m => c[p + 1] = y[2]
    BY ONLY <1>3, <2>1
  <2>4. p + n + 2 \leq m => c[p + n + 2] = y[n + 3]
    BY ONLY <1>3, <2>1
  <2> QED
    BY ONLY <1>2, <2>2, <2>3, <2>4
<1>5. Find(c, CRLF, p) = IF p + 1 \leq m THEN p + 1 ELSE 0
  BY ONLY <1>1, <1>4, ChunkHead, c \in Seq(Nat), p \in Positions DEF m
<1>6. CASE ~(p + n + 2 \leq m)
  <2>1. CASE ~(p + 1 \leq m)
    <3>1. Find(c, CRLF, p) # p + 1
      BY ONLY <1>1, <1>5, <2>1
    <3>2. u[p] = Fail
      BY ONLY <3>1, ChunkRead(c, u, p) DEF ChunkRead
    <3> QED
      BY ONLY <1>6, <3>2 DEF n, m
  <2>2. CASE p + 1 \leq m
    <3>1. Find(c, CRLF, p) = p + 1 /\ c[p] = ChunkSize(n)
      BY ONLY <1>1, <1>4, <1>5, <2>2
    <3>2. u[p] = IF Is(c, p + n + 2, CRLF)
                 THEN Then(SubSeq(c, p + 2, p + n + 1), u[p + n + 3]) ELSE Fail
      BY ONLY <1>1, <3>1, ChunkRead(c, u, p) DEF ChunkRead
    <3>3. ~Is(c, p + n + 2, CRLF)
      BY ONLY <1>6 DEF Is, m
    <3> QED
      BY ONLY <1>6, <3>2, <3>3 DEF n, m
  <2> QED
    BY ONLY <2>1, <2>2
<1>7. CASE p + n + 2 \leq m
  <2>1. p \leq m /\ p + 1 \leq m
    BY ONLY <1>1, <1>7
  <2>2. Find(c, CRLF, p) = p + 1 /\ c[p] = ChunkSize(n)
    BY ONLY <1>4, <1>5, <2>1
  <2>3. u[p] = IF Is(c, p + n + 2, CRLF)
               THEN Then(SubSeq(c, p + 2, p + n + 1), u[p + n + 3]) ELSE Fail
    BY ONLY <1>1, <2>2, ChunkRead(c, u, p) DEF ChunkRead
  <2>4. Is(c, p + n + 2, CRLF)
    BY ONLY <1>4, <1>7 DEF Is, m
  <2>5. SubSeq(c, p + 2, p + n + 1) = x
    <3> DEFINE v == SubSeq(c, p + 2, p + n + 1)
    <3>1. /\ v \in Seq(Nat) /\ Len(v) = n /\ \A k \in 1..n : v[k] = c[p + 2 + k - 1]
      <4>1. p + 2 \in 1..Len(c) /\ p + n + 1 \in 1..Len(c) /\ (p + n + 1) - (p + 2) + 1 = n
        BY ONLY <1>1, <1>7 DEF m
      <4>2. v \in Seq(Nat) /\ Len(v) = n
        BY ONLY <1>1, <4>1, c \in Seq(Nat) DEF v
      <4>3. \A k \in 1..n : v[k] = c[p + 2 + k - 1]
        BY ONLY <1>1, <4>1, c \in Seq(Nat) DEF v
      <4> QED
        BY ONLY <4>2, <4>3
    <3> HIDE DEF v
    <3>2. \A k \in 1..n : v[k] = x[k]
      <4> TAKE k \in 1..n
      <4>1. k + 2 \in 1..(n + 3) /\ p + (k + 2) - 1 = p + 2 + k - 1 /\ p + (k + 2) - 1 \leq m
        BY ONLY <1>1, <1>7, k \in 1..n
      <4>2. c[p + (k + 2) - 1] = y[k + 2]
        BY ONLY <1>3, <4>1
      <4> QED
        BY ONLY <1>2, <3>1, <4>1, <4>2, k \in 1..n
    <3>3. Len(x) = n
      BY ONLY DEF n
    <3>4. v = x
      BY ONLY <3>1, <3>2, <3>3, x \in Seq(Nat), SeqEqual
    <3> QED
      BY ONLY <3>4 DEF v
  <2> QED
    BY ONLY <1>7, <2>3, <2>4, <2>5 DEF n, m
<1> QED
  BY ONLY <1>6, <1>7

\* The empty chunk ends the body when its own line has arrived.
LEMMA ChunkLast ==
  ASSUME NEW c \in Seq(Nat), NEW u \in [Positions -> Parsed], NEW p \in Positions,
         ChunkRead(c, u, p), Visible(c, p, <<ChunkSize(0), CRLF, CRLF>>)
  PROVE  u[p] = IF p + 1 \leq Len(c) THEN [ok |-> TRUE, value |-> <<>>, next |-> p + 2] ELSE Fail
<1> DEFINE y == <<ChunkSize(0), CRLF, CRLF>>
           m == Len(c)
<1>1. Len(y) = 3 /\ y[1] = ChunkSize(0) /\ y[2] = CRLF
  OBVIOUS
<1> HIDE DEF y
<1>2. \A k \in 1..3 : p + k - 1 \leq m => c[p + k - 1] = y[k]
  BY ONLY <1>1, Visible(c, p, <<ChunkSize(0), CRLF, CRLF>>) DEF Visible, y, m
<1>3. m \in Nat /\ p \in Nat /\ p \geq 1 /\ 0 \in Nat
  BY DEF Positions
<1> HIDE DEF m
<1>4. /\ p \leq m => c[p] = ChunkSize(0)
      /\ p + 1 \leq m => c[p + 1] = CRLF
  <2>1. 1 \in 1..3 /\ 2 \in 1..3 /\ p + 1 - 1 = p /\ p + 2 - 1 = p + 1
    BY ONLY <1>3
  <2>2. p \leq m => c[p] = y[1]
    BY ONLY <1>2, <2>1
  <2>3. p + 1 \leq m => c[p + 1] = y[2]
    BY ONLY <1>2, <2>1
  <2> QED
    BY ONLY <1>1, <2>2, <2>3
<1>5. Find(c, CRLF, p) = IF p + 1 \leq m THEN p + 1 ELSE 0
  BY ONLY <1>3, <1>4, ChunkHead, c \in Seq(Nat), p \in Positions DEF m
<1>6. CASE p + 1 \leq m
  <2>1. p \leq m
    BY ONLY <1>3, <1>6
  <2>2. Find(c, CRLF, p) = p + 1 /\ c[p] = ChunkSize(0)
    BY ONLY <1>4, <1>5, <1>6, <2>1
  <2>3. u[p] = [ok |-> TRUE, value |-> <<>>, next |-> p + 2]
    BY ONLY <2>2, ChunkRead(c, u, p) DEF ChunkRead
  <2> QED
    BY ONLY <1>6, <2>3 DEF m
<1>7. CASE ~(p + 1 \leq m)
  <2>1. Find(c, CRLF, p) # p + 1
    BY ONLY <1>3, <1>5, <1>7
  <2>2. u[p] = Fail
    BY ONLY <2>1, ChunkRead(c, u, p) DEF ChunkRead
  <2> QED
    BY ONLY <1>7, <2>2 DEF m
<1> QED
  BY ONLY <1>6, <1>7

\* Two chunks are decoded when they have arrived to the end of the line of the
\* empty one, and are then the two texts.
LEMMA ChunksRead ==
  ASSUME NEW x \in Seq(Nat), NEW y \in Seq(Nat), Len(x) \geq 1, Len(y) \geq 1,
         NEW c \in Seq(Nat), IsPrefix(c, (Chunk(x) \o Chunk(y)) \o <<ChunkSize(0), CRLF, CRLF>>)
  PROVE  IF Len(x) + Len(y) + 8 \leq Len(c)
         THEN DecodeChunkedBody(c).ok = TRUE /\ DecodeChunkedBody(c).value = x \o y
         ELSE DecodeChunkedBody(c) = Fail
<1> DEFINE a == Chunk(x)
           b == Chunk(y)
           e == <<ChunkSize(0), CRLF, CRLF>>
           ab == a \o b
           X == ab \o e
           m == Len(x)
           n == Len(y)
           k == Len(c)
<1>1. m \in Nat /\ n \in Nat /\ k \in Nat /\ m \geq 1 /\ n \geq 1
  <2>1. m \in Nat /\ n \in Nat /\ k \in Nat
    BY ONLY c \in Seq(Nat), x \in Seq(Nat), y \in Seq(Nat) DEF m, n, k
  <2>2. m \geq 1 /\ n \geq 1
    BY ONLY Len(x) \geq 1, Len(y) \geq 1 DEF m, n
  <2> QED
    BY ONLY <2>1, <2>2
<1>2. a \in Seq(Nat) /\ b \in Seq(Nat) /\ Len(a) = m + 3 /\ Len(b) = n + 3
  BY ChunkChars
<1>3. e \in Seq(Nat)
  BY SymbolTypes
<1> HIDE DEF a, b, e, m, n, k
<1>4. ab \in Seq(Nat) /\ Len(ab) = Len(a) + Len(b)
  BY ONLY <1>2, Joined DEF ab
<1> HIDE DEF ab
<1>5. X \in Seq(Nat)
  BY ONLY <1>3, <1>4, Joined DEF X
<1>6. X = ab \o e /\ ab = a \o b
  BY DEF X, ab
<1> HIDE DEF X
<1> DEFINE q == m + 4
           p == m + n + 7
<1>7. 1 \in Positions /\ q \in Positions /\ p \in Positions /\ 1 + Len(a) = q /\ 1 + Len(ab) = p
      /\ q = 1 + m + 3 /\ p = q + n + 3 /\ p + 1 = m + n + 8 /\ q + n + 2 = m + n + 6
      /\ 1 + m + 2 = m + 3
  BY ONLY <1>1, <1>2, <1>4 DEF Positions, q, p
<1> HIDE DEF p, q
<1>8. Occurs(X, 1, ab) /\ Occurs(X, p, e)
  <2>1. Occurs(X, 1, ab \o e)
    BY ONLY <1>5, <1>6, OccursSelf
  <2>2. Occurs(X, 1, ab) /\ Occurs(X, 1 + Len(ab), e)
    BY ONLY <1>3, <1>4, <1>5, <1>7, <2>1, OccursConcat
  <2> QED
    BY ONLY <1>7, <2>2
<1>9. Occurs(X, 1, a) /\ Occurs(X, q, b)
  <2>1. Occurs(X, 1, a \o b)
    BY ONLY <1>6, <1>8
  <2>2. Occurs(X, 1, a) /\ Occurs(X, 1 + Len(a), b)
    BY ONLY <1>2, <1>5, <1>7, <2>1, OccursConcat
  <2> QED
    BY ONLY <1>7, <2>2
<1>10. IsPrefix(c, X)
  BY ONLY <1>6, IsPrefix(c, (Chunk(x) \o Chunk(y)) \o <<ChunkSize(0), CRLF, CRLF>>) DEF a, b, e
<1>11. Visible(c, 1, a) /\ Visible(c, q, b) /\ Visible(c, p, e)
  BY ONLY <1>2, <1>3, <1>5, <1>7, <1>8, <1>9, <1>10, c \in Seq(Nat), VisibleOccurs
<1>12. PICK u \in [Positions -> Parsed] :
         DecodeChunkedBody(c) = u[1] /\ \A i \in Positions : ChunkRead(c, u, i)
  BY ONLY c \in Seq(Nat), ChunkedEquation
<1>13. ChunkRead(c, u, 1) /\ ChunkRead(c, u, q) /\ ChunkRead(c, u, p)
  BY ONLY <1>7, <1>12
<1>14. u[1] = IF 1 + m + 2 \leq k THEN Then(x, u[q]) ELSE Fail
  <2>1. u[1] = IF 1 + Len(x) + 2 \leq Len(c) THEN Then(x, u[1 + Len(x) + 3]) ELSE Fail
    BY ONLY <1>7, <1>11, <1>12, <1>13, c \in Seq(Nat), x \in Seq(Nat), Len(x) \geq 1,
            ChunkStep DEF a
  <2> QED
    BY ONLY <1>7, <2>1 DEF m, k
<1>15. u[q] = IF q + n + 2 \leq k THEN Then(y, u[p]) ELSE Fail
  <2>1. u[q] = IF q + Len(y) + 2 \leq Len(c) THEN Then(y, u[q + Len(y) + 3]) ELSE Fail
    <3>1. q \in Positions /\ ChunkRead(c, u, q) /\ Visible(c, q, Chunk(y))
      BY ONLY <1>7, <1>11, <1>13 DEF b
    <3> QED
      BY ONLY <1>12, <3>1, c \in Seq(Nat), y \in Seq(Nat), Len(y) \geq 1, ChunkStep, ZenonT(40)
  <2> QED
    BY ONLY <1>7, <2>1 DEF n, k
<1> DEFINE end == [ok |-> TRUE, value |-> <<>>, next |-> p + 2]
<1>16. u[p] = IF p + 1 \leq k THEN end ELSE Fail
  <2>1. u[p] = IF p + 1 \leq Len(c) THEN [ok |-> TRUE, value |-> <<>>, next |-> p + 2] ELSE Fail
    BY ONLY <1>7, <1>11, <1>12, <1>13, c \in Seq(Nat), ChunkLast DEF e
  <2> QED
    BY ONLY <2>1 DEF k, end
<1>17. end.ok = TRUE /\ end.value = <<>>
  OBVIOUS
<1>18. u[1] \in Parsed /\ u[q] \in Parsed /\ u[p] \in Parsed
  BY ONLY <1>7, <1>12
<1>19. \A v : Then(v, Fail) = Fail
  BY DEF Then, Fail
<1> HIDE DEF end
<1>20. CASE m + n + 8 \leq k
  <2>1. u[p] = end
    BY ONLY <1>7, <1>16, <1>20
  <2>2. u[q] = Then(y, u[p])
    BY ONLY <1>1, <1>7, <1>15, <1>20
  <2>3. u[1] = Then(x, u[q])
    BY ONLY <1>1, <1>7, <1>14, <1>20
  <2>4. u[q].ok = TRUE /\ u[q].value = y \o <<>>
    <3>1. Then(y, u[p]).ok = u[p].ok
          /\ (u[p].ok => Then(y, u[p]).value = y \o u[p].value)
      BY ONLY <1>18, y \in Seq(Nat), ThenLemma
    <3>2. u[p].ok = TRUE /\ u[p].value = <<>>
      BY ONLY <1>17, <2>1
    <3> QED
      BY ONLY <2>2, <3>1, <3>2
  <2>5. y \o <<>> = y
    BY ONLY y \in Seq(Nat), NatSequences
  <2>6. u[1].ok = TRUE /\ u[1].value = x \o u[q].value
    <3>1. Then(x, u[q]).ok = u[q].ok
          /\ (u[q].ok => Then(x, u[q]).value = x \o u[q].value)
      BY ONLY <1>18, x \in Seq(Nat), ThenLemma
    <3> QED
      BY ONLY <2>3, <2>4, <3>1
  <2> QED
    BY ONLY <1>12, <1>20, <2>4, <2>5, <2>6 DEF m, n, k
<1>21. CASE ~(m + n + 8 \leq k)
  <2>1. u[p] = Fail
    BY ONLY <1>7, <1>16, <1>21
  <2>2. u[q] = Fail
    BY ONLY <1>15, <1>19, <2>1
  <2>3. u[1] = Fail
    BY ONLY <1>14, <1>19, <2>2
  <2> QED
    BY ONLY <1>12, <1>21, <2>3 DEF m, n, k
<1> QED
  BY ONLY <1>20, <1>21

-----------------------------------------------------------------------------
(***************************************************************************)
(* Responses that are cut.                                                 *)
(***************************************************************************)
\* The lines of a response before its body, which may come in chunks.
Framed(R, st, kind, rest) ==
  /\ R \in Seq(Nat) /\ rest \in Seq(Nat) /\ st \in Nat /\ Len(R) = 5 + Len(rest)
  /\ R[1] = Status(st) /\ R[2] = CRLF /\ R[3] = kind /\ R[4] = CRLF /\ R[5] = CRLF
  /\ Occurs(R, 6, rest)

\* A response is a status line, one more line, an empty one, and the rest.
LEMMA FramedResponse ==
  ASSUME NEW st \in Nat, NEW kind \in Nat, NEW rest \in Seq(Nat)
  PROVE  Framed(<<Status(st), CRLF>> \o (<<kind, CRLF, CRLF>> \o rest), st, kind, rest)
<1> DEFINE h == <<Status(st), CRLF>>
           l == <<kind, CRLF, CRLF>>
           y == l \o rest
           R == h \o y
<1>1. /\ h \in Seq(Nat) /\ Len(h) = 2 /\ h[1] = Status(st) /\ h[2] = CRLF
      /\ l \in Seq(Nat) /\ Len(l) = 3 /\ l[1] = kind /\ l[2] = CRLF /\ l[3] = CRLF
  <2>1. Status(st) \in Nat /\ CRLF \in Nat
    BY SymbolTypes
  <2>2. h \in Seq(Nat) /\ l \in Seq(Nat)
    BY ONLY <2>1, kind \in Nat DEF h, l
  <2>3. Len(h) = 2 /\ h[1] = Status(st) /\ h[2] = CRLF
    BY ONLY DEF h
  <2>4. Len(l) = 3 /\ l[1] = kind /\ l[2] = CRLF /\ l[3] = CRLF
    BY ONLY DEF l
  <2> QED
    BY ONLY <2>2, <2>3, <2>4
<1> HIDE DEF h, l
<1>2. y \in Seq(Nat) /\ Len(y) = Len(l) + Len(rest)
  BY ONLY <1>1, rest \in Seq(Nat), Joined DEF y
<1>3. y = l \o rest
  BY ONLY DEF y
<1> HIDE DEF y
<1>4. R \in Seq(Nat) /\ Len(R) = Len(h) + Len(y)
  BY ONLY <1>1, <1>2, Joined DEF R
<1>5. R = h \o y
  BY ONLY DEF R
<1> HIDE DEF R
<1>6. Occurs(R, 1, h) /\ Occurs(R, 1 + Len(h), y)
  <2>1. 1 \in Positions /\ Occurs(R, 1, h \o y)
    <3>1. Occurs(R, 1, R)
      BY ONLY <1>4, OccursSelf
    <3> QED
      BY ONLY <1>5, <3>1 DEF Positions
  <2> QED
    BY ONLY <1>1, <1>2, <1>4, <2>1, OccursConcat
<1>7. Occurs(R, 3, l) /\ Occurs(R, 6, rest)
  <2>1. 1 + Len(h) = 3 /\ 3 \in Positions /\ 3 + Len(l) = 6
    BY ONLY <1>1 DEF Positions
  <2>2. Occurs(R, 3, l \o rest)
    BY ONLY <1>3, <1>6, <2>1
  <2>3. Occurs(R, 3, l) /\ Occurs(R, 3 + Len(l), rest)
    BY ONLY <1>1, <1>4, <2>1, <2>2, rest \in Seq(Nat), OccursConcat
  <2> QED
    BY ONLY <2>1, <2>3
<1>8. R[1] = Status(st) /\ R[2] = CRLF
  <2>1. \A j \in 1..2 : R[1 + j - 1] = h[j]
    BY ONLY <1>1, <1>6 DEF Occurs
  <2>2. 1 \in 1..2 /\ 2 \in 1..2 /\ 1 + 1 - 1 = 1 /\ 1 + 2 - 1 = 2
    OBVIOUS
  <2> QED
    BY ONLY <1>1, <2>1, <2>2
<1>9. R[3] = kind /\ R[4] = CRLF /\ R[5] = CRLF
  <2>1. \A j \in 1..3 : R[3 + j - 1] = l[j]
    BY ONLY <1>1, <1>7 DEF Occurs
  <2>2. 1 \in 1..3 /\ 2 \in 1..3 /\ 3 \in 1..3 /\ 3 + 1 - 1 = 3 /\ 3 + 2 - 1 = 4 /\ 3 + 3 - 1 = 5
    OBVIOUS
  <2> QED
    BY ONLY <1>1, <2>1, <2>2
<1>10. Len(R) = 5 + Len(rest)
  <2>1. Len(rest) \in Nat
    OBVIOUS
  <2> QED
    BY ONLY <1>1, <1>2, <1>4, <2>1
<1> QED
  BY ONLY <1>4, <1>5, <1>7, <1>8, <1>9, <1>10, st \in Nat, rest \in Seq(Nat) DEF Framed, h, l, y

\* The rest of a response that may have been cut behind its lines.
LEMMA FramedRest ==
  ASSUME NEW R, NEW st, NEW kind, NEW rest, Framed(R, st, kind, rest),
         NEW cut \in Nat, 5 \leq cut, cut \leq Len(R),
         NEW r, r = SubSeq(R, 1, cut), NEW c, c = SubSeq(r, 6, Len(r))
  PROVE  c \in Seq(Nat) /\ IsPrefix(c, rest) /\ Len(c) = cut - 5
<1>1. R \in Seq(Nat) /\ rest \in Seq(Nat) /\ Len(R) = 5 + Len(rest) /\ Occurs(R, 6, rest)
  BY ONLY Framed(R, st, kind, rest) DEF Framed
<1> DEFINE n == Len(rest)
<1>2. n \in Nat
  BY ONLY <1>1 DEF n
<1>3. r \in Seq(Nat) /\ Len(r) = cut /\ \A j \in 1..cut : r[j] = R[j]
  <2>1. cut \in 0..Len(R)
    BY ONLY cut \in Nat, cut \leq Len(R), <1>1, <1>2 DEF n
  <2>2. r \in Seq(Nat) /\ Len(r) = cut /\ IsPrefix(r, R)
    BY ONLY <1>1, <2>1, r = SubSeq(R, 1, cut), CutLemma
  <2> QED
    BY ONLY <2>2 DEF IsPrefix
<1>4. c \in Seq(Nat) /\ Len(c) = cut - 5 /\ \A j \in 1..(cut - 5) : c[j] = r[6 + j - 1]
  <2>1. c = SubSeq(r, 6, cut)
    BY ONLY <1>3, c = SubSeq(r, 6, Len(r))
  <2>2. CASE cut = 5
    BY ONLY <1>3, <2>1, <2>2
  <2>3. CASE cut > 5
    <3>1. 6 \in 1..Len(r) /\ cut \in 1..Len(r)
      BY ONLY <1>3, <2>3, cut \in Nat
    <3>2. c \in Seq(Nat) /\ Len(c) = cut - 5
      BY ONLY <1>3, <2>1, <2>3, <3>1, cut \in Nat
    <3>3. \A j \in 1..(cut - 5) : c[j] = r[6 + j - 1]
      BY ONLY <1>3, <2>1, <2>3, <3>1, cut \in Nat
    <3> QED
      BY ONLY <3>2, <3>3
  <2> QED
    BY ONLY <2>2, <2>3, cut \in Nat, 5 \leq cut
<1>5. cut - 5 \leq n /\ cut - 5 \in Nat
  BY ONLY <1>1, <1>2, cut \in Nat, 5 \leq cut, cut \leq Len(R) DEF n
<1>6. \A j \in 1..n : R[6 + j - 1] = rest[j]
  BY ONLY <1>1 DEF Occurs, n
<1>7. ASSUME NEW j \in 1..(cut - 5) PROVE c[j] = rest[j]
  <2>1. j \in 1..n /\ 6 + j - 1 \in 1..cut
    BY ONLY <1>2, <1>5, cut \in Nat, j \in 1..(cut - 5)
  <2>2. c[j] = r[6 + j - 1]
    BY ONLY <1>4, j \in 1..(cut - 5)
  <2>3. r[6 + j - 1] = R[6 + j - 1]
    BY ONLY <1>3, <2>1
  <2>4. R[6 + j - 1] = rest[j]
    BY ONLY <1>6, <2>1
  <2> QED
    BY ONLY <2>2, <2>3, <2>4
<1>8. IsPrefix(c, rest)
  BY ONLY <1>4, <1>5, <1>7 DEF IsPrefix, n
<1> QED
  BY ONLY <1>4, <1>8

\* What arrived of R is r, and c behind its first lines; body is what is made of c.
CutOff(R, cut, r, c) ==
  cut \in Nat /\ cut \leq Len(R) /\ r = SubSeq(R, 1, cut) /\ c = SubSeq(r, 6, Len(r))

\* What HttpBody makes of c.
TakenFor(kind, c, body) ==
  kind \in {Chunked, Other}
  /\ body = IF kind = Chunked THEN DecodeChunkedBody(c)
             ELSE [ok |-> TRUE, value |-> c, next |-> 0]

\* HttpBody finds the end of the lines when they have arrived.
LEMMA HttpRead ==
  ASSUME NEW R, NEW st, NEW kind, NEW rest, Framed(R, st, kind, rest),
         NEW cut, NEW r, NEW c, CutOff(R, cut, r, c), NEW body, TakenFor(kind, c, body)
  PROVE  HttpBody(r) = IF 5 \leq cut /\ st \in 200..299 /\ body.ok THEN body ELSE Fail
<1>1. /\ R \in Seq(Nat) /\ rest \in Seq(Nat) /\ st \in Nat /\ Len(R) = 5 + Len(rest)
      /\ R[1] = Status(st) /\ R[2] = CRLF /\ R[3] = kind /\ R[4] = CRLF /\ R[5] = CRLF
  BY ONLY Framed(R, st, kind, rest) DEF Framed
<1>0. /\ cut \in Nat /\ cut \leq Len(R) /\ r = SubSeq(R, 1, cut) /\ c = SubSeq(r, 6, Len(r))
      /\ kind \in {Chunked, Other}
      /\ body = IF kind = Chunked THEN DecodeChunkedBody(c)
                ELSE [ok |-> TRUE, value |-> c, next |-> 0]
  BY ONLY CutOff(R, cut, r, c), TakenFor(kind, c, body) DEF CutOff, TakenFor
<1>2. CRLF # Chunked /\ CRLF # Other /\ Chunked # Other /\ Status(st) # CRLF /\ Status(st) # Chunked
      /\ Status(st) - Status(0) = st
  BY ONLY <1>1 DEF CRLF, Chunked, Other, Status, Word
<1>3. r \in Seq(Nat) /\ Len(r) = cut /\ \A j \in 1..cut : r[j] = R[j]
  <2>1. Len(rest) \in Nat
    BY ONLY <1>1
  <2>2. cut \in 0..Len(R)
    BY ONLY <1>0, <1>1, <2>1
  <2>3. r \in Seq(Nat) /\ Len(r) = cut /\ IsPrefix(r, R)
    BY ONLY <1>1, <2>2, <1>0, CutLemma
  <2> QED
    BY ONLY <2>3 DEF IsPrefix
<1> DEFINE S == {i \in 1..(Len(r) - 1) : r[i] = CRLF /\ r[i + 1] = CRLF}
           chunked(e) == \E i \in 1..e : r[i] = Chunked
           tail(e) == SubSeq(r, e + 2, Len(r))
           read(e) == IF chunked(e) THEN DecodeChunkedBody(tail(e))
                      ELSE [ok |-> TRUE, value |-> tail(e), next |-> 0]
           e == First(S)
<1>4. HttpBody(r) = IF e # 0 /\ read(e).ok /\ HttpOk(r[1] - Status(0)) THEN read(e) ELSE Fail
  BY ONLY DEF HttpBody, e, read, tail, chunked, S
<1>5. \A i \in 1..3 : ~(i + 1 \leq cut /\ r[i] = CRLF /\ r[i + 1] = CRLF)
  <2>1. 1 \leq cut => r[1] = Status(st)
    BY ONLY <1>1, <1>3, <1>0
  <2>2. 3 \leq cut => r[3] = kind
    BY ONLY <1>1, <1>3, <1>0
  <2>3. \A i \in 1..3 : i = 1 \/ i = 2 \/ i = 3
    OBVIOUS
  <2>4. kind # CRLF
    BY ONLY <1>2, <1>0
  <2> QED
    BY ONLY <1>2, <2>1, <2>2, <2>3, <2>4, <1>0
<1>6. CASE ~(5 \leq cut)
  <2>1. S = {}
    <3>1. ASSUME NEW i \in S PROVE FALSE
      <4>1. i \in 1..3 /\ i + 1 \leq cut /\ r[i] = CRLF /\ r[i + 1] = CRLF
        BY ONLY <1>3, <1>6, <1>0, i \in S DEF S
      <4> QED
        BY ONLY <1>5, <4>1
    <3> QED
      BY ONLY <3>1
  <2>2. e = 0
    BY ONLY <2>1, FirstNone DEF e
  <2> QED
    BY ONLY <1>4, <1>6, <2>2
<1>7. CASE 5 \leq cut
  <2>1. r[1] = Status(st) /\ r[2] = CRLF /\ r[3] = kind /\ r[4] = CRLF /\ r[5] = CRLF
    <3>1. 1 \in 1..cut /\ 2 \in 1..cut /\ 3 \in 1..cut /\ 4 \in 1..cut /\ 5 \in 1..cut
      BY ONLY <1>7, <1>0
    <3> QED
      BY ONLY <1>1, <1>3, <3>1
  <2>2. 4 \in S
    BY ONLY <1>3, <1>7, <2>1, <1>0 DEF S
  <2>3. \A i \in S : 4 \leq i
    <3>1. ASSUME NEW i \in S, ~(4 \leq i) PROVE FALSE
      <4>1. i \in 1..3 /\ i + 1 \leq cut /\ r[i] = CRLF /\ r[i + 1] = CRLF
        BY ONLY <1>3, <3>1, <1>0, i \in S DEF S
      <4> QED
        BY ONLY <1>5, <4>1
    <3> QED
      BY ONLY <3>1
  <2>4. S \subseteq Nat
    BY ONLY DEF S
  <2>5. e = 4
    BY ONLY <2>2, <2>3, <2>4, FirstLemma DEF e
  <2>6. chunked(4) <=> kind = Chunked
    <3>1. \A i \in 1..4 : i = 1 \/ i = 2 \/ i = 3 \/ i = 4
      OBVIOUS
    <3>2. chunked(4) => kind = Chunked
      BY ONLY <1>2, <2>1, <3>1 DEF chunked
    <3>3. kind = Chunked => chunked(4)
      <4>1. 3 \in 1..4
        OBVIOUS
      <4> QED
        BY ONLY <2>1, <4>1 DEF chunked
    <3> QED
      BY ONLY <3>2, <3>3
  <2>7. tail(4) = c
    BY ONLY <1>0 DEF tail
  <2>8. read(4) = body
    BY ONLY <2>6, <2>7, <1>0 DEF read
  <2>9. HttpOk(r[1] - Status(0)) <=> st \in 200..299
    BY ONLY <1>2, <2>1 DEF HttpOk
  <2> HIDE DEF read, e, S
  <2>10. HttpBody(r) = IF e # 0 /\ body.ok /\ HttpOk(r[1] - Status(0)) THEN body ELSE Fail
    BY ONLY <1>4, <2>5, <2>8
  <2> QED
    BY ONLY <1>7, <2>5, <2>9, <2>10
<1> QED
  BY ONLY <1>6, <1>7

\* What reaches the program of an answer that goes on over the connection: the
\* body of a whole or cut response, if it is one of a 2xx status, and whole chunks.
Delivered(a, cut, h) ==
  /\ h.ok = TRUE => /\ a.status \in 200..299
                    /\ h.value \in Seq(Nat) /\ IsPrefix(h.value, Body(a))
                    /\ a.split # 0 => h.value = Body(a) /\ cut \geq Len(Response(a)) - 1
                    /\ cut = Len(Response(a)) => Len(h.value) = Len(Body(a))
  /\ cut = Len(Response(a)) /\ a.status \in 200..299 => h.ok = TRUE

\* That is what HttpBody makes of a whole or cut response.
LEMMA ResponseRead ==
  ASSUME NEW a, IsAnswer(a), NEW cut \in 0..Len(Response(a))
  PROVE  Delivered(a, cut, HttpBody(SubSeq(Response(a), 1, cut)))
<1> DEFINE b == Body(a)
           R == Response(a)
           st == a.status
           r == SubSeq(R, 1, cut)
           c == SubSeq(r, 6, Len(r))
           n == Len(b)
           h == HttpBody(r)
<1>1. b \in Seq(Nat) /\ st \in Nat /\ R \in Seq(Nat) /\ a.split \in Nat
  <2>1. st \in Nat /\ a.split \in Nat /\ a.units \in Seq(Spellings)
    BY ONLY IsAnswer(a) DEF IsAnswer
  <2> QED
    BY ONLY <2>1, IsAnswer(a), BodyType, ResponseType DEF b, R, st
<1>2. n \in Nat /\ Len(R) \in Nat /\ cut \in Nat /\ cut \leq Len(R)
  BY <1>1
<1>3. Other \in Nat /\ Chunked \in Nat /\ CRLF \in Nat /\ Other # Chunked
  BY ONLY SymbolTypes DEF Other, Chunked, Word
<1>4. r = SubSeq(R, 1, cut) /\ c = SubSeq(r, 6, Len(r))
  OBVIOUS
<1>5. CASE a.split = 0
  <2>1. R = <<Status(st), CRLF>> \o (<<Other, CRLF, CRLF>> \o b)
    BY ONLY <1>5 DEF Response, R, b, st
  <2> HIDE DEF b, R, st, c, r
  <2>2. Framed(R, st, Other, b)
    BY ONLY <1>1, <1>3, <2>1, FramedResponse
  <2>3. Len(R) = 5 + n
    BY ONLY <2>2 DEF Framed, n
  <2> DEFINE body == [ok |-> TRUE, value |-> c, next |-> 0]
  <2>4. body = IF Other = Chunked THEN DecodeChunkedBody(c)
               ELSE [ok |-> TRUE, value |-> c, next |-> 0]
    BY ONLY <1>3 DEF body
  <2>5. body.ok = TRUE /\ body.value = c
    BY ONLY DEF body
  <2> HIDE DEF body, n
  <2>6. h = IF 5 \leq cut /\ st \in 200..299 /\ body.ok THEN body ELSE Fail
    <3>1. TakenFor(Other, c, body)
      BY ONLY <2>4 DEF TakenFor
    <3>2. CutOff(R, cut, r, c)
      BY ONLY <1>2, <1>4 DEF CutOff
    <3> QED
      BY ONLY <2>2, <3>1, <3>2, HttpRead DEF h
  <2>7. 5 \leq cut => c \in Seq(Nat) /\ IsPrefix(c, b) /\ Len(c) = cut - 5
    BY ONLY <1>2, <1>4, <2>2, FramedRest
  <2>8. Fail.ok = FALSE
    BY ONLY DEF Fail
  <2> HIDE DEF h
  <2>9. h.ok = TRUE => 5 \leq cut /\ st \in 200..299 /\ h = body
    BY ONLY <2>6, <2>8
  <2>10. cut = Len(R) /\ st \in 200..299 => h.ok = TRUE
    BY ONLY <1>2, <2>3, <2>5, <2>6
  <2>11. 5 \leq cut /\ cut = Len(R) => Len(c) = n
    BY ONLY <1>2, <2>3, <2>7
  <2>12. /\ h.ok = TRUE => /\ st \in 200..299
                           /\ h.value \in Seq(Nat) /\ IsPrefix(h.value, b)
                           /\ cut = Len(R) => Len(h.value) = n
         /\ cut = Len(R) /\ st \in 200..299 => h.ok = TRUE
    BY ONLY <2>5, <2>7, <2>9, <2>10, <2>11
  <2> QED
    BY ONLY <1>5, <2>12 DEF Delivered, h, r, R, b, n, st
<1>6. CASE a.split # 0
  <2> DEFINE x == SubSeq(b, 1, a.split)
             y == SubSeq(b, a.split + 1, Len(b))
             last == <<ChunkSize(0), CRLF, CRLF>>
             rest == (Chunk(x) \o Chunk(y)) \o last
             k == <<Chunked, CRLF, CRLF>>
  <2>1. R = <<Status(st), CRLF>> \o (((k \o Chunk(x)) \o Chunk(y)) \o last)
    BY ONLY <1>6 DEF Response, R, b, st, k, x, y, last
  <2> DEFINE s == a.split
  <2>2. s \in Nat /\ s # 0 /\ s < n
    BY ONLY <1>6, IsAnswer(a) DEF IsAnswer, b, s, n
  <2> DEFINE d == n - s
  <2>3. s \in Nat /\ d \in Nat /\ s \geq 1 /\ d \geq 1 /\ s + d = n
    <3> HIDE DEF n, s
    <3> QED
      BY ONLY <1>2, <2>2 DEF d
  <2> HIDE DEF d, n, s, b, R, st, c, r
  <2>4. /\ x \in Seq(Nat) /\ Len(x) = s /\ \A j \in 1..s : x[j] = b[j]
        /\ y \in Seq(Nat) /\ Len(y) = d /\ \A j \in 1..d : y[j] = b[s + j]
    <3>1. s \in 0..Len(b) /\ s + 1 \in 1..Len(b) /\ Len(b) \in 1..Len(b) /\ Len(b) = n
          /\ n - (s + 1) + 1 = d
      BY ONLY <1>2, <2>3 DEF n
    <3>2. x \in Seq(Nat) /\ Len(x) = s /\ IsPrefix(x, b)
      BY ONLY <1>1, <3>1, CutLemma DEF x, s
    <3>3. \A j \in 1..s : x[j] = b[j]
      BY ONLY <3>2 DEF IsPrefix
    <3>4. y = SubSeq(b, s + 1, n)
      BY ONLY DEF y, s, n
    <3> HIDE DEF y, x
    <3>5. y \in Seq(Nat) /\ Len(y) = n - s /\ \A j \in 1..(n - s) : y[j] = b[s + j]
      <4>1. s \in 0..Len(b) /\ n = Len(b) /\ b \in Seq(Nat)
        BY ONLY <1>1, <3>1
      <4>2. s \in Nat /\ n \in Nat /\ s \leq n
        BY ONLY <4>1
      <4>3. y \in Seq(Nat) /\ Len(y) = n - s
        BY ONLY <3>4, <4>1, <4>2
      <4>4. \A j \in 1..(n - s) : y[j] = b[s + 1 + j - 1]
        BY ONLY <3>4, <4>1, <4>2
      <4>5. \A j \in 1..(n - s) : s + 1 + j - 1 = s + j
        BY ONLY <4>2
      <4> QED
        BY ONLY <4>3, <4>4, <4>5
    <3>6. n - s = d
      BY ONLY DEF d
    <3> QED
      BY ONLY <3>2, <3>3, <3>5, <3>6
  <2>5. x \o y = b
    <3>1. /\ x \o y \in Seq(Nat) /\ Len(x \o y) = Len(x) + Len(y)
          /\ \A j \in 1..Len(x) : (x \o y)[j] = x[j]
          /\ \A j \in 1..Len(y) : (x \o y)[Len(x) + j] = y[j]
      BY ONLY <2>4, NatSequences
    <3> DEFINE z == x \o y
    <3> HIDE DEF x, y, z
    <3>2. z \in Seq(Nat) /\ Len(z) = n
      BY ONLY <2>3, <2>4, <3>1 DEF z
    <3>3. \A j \in 1..n : z[j] = b[j]
      <4> TAKE j \in 1..n
      <4>1. CASE j \leq s
        <5>1. j \in 1..s
          BY ONLY <2>3, <4>1, j \in 1..n
        <5> QED
          BY ONLY <2>4, <3>1, <5>1 DEF z
      <4>2. CASE ~(j \leq s)
        <5>1. j - s \in 1..d /\ s + (j - s) = j
          BY ONLY <2>3, <4>2, j \in 1..n
        <5>2. z[s + (j - s)] = y[j - s]
          BY ONLY <2>4, <3>1, <5>1 DEF z
        <5>3. y[j - s] = b[s + (j - s)]
          BY ONLY <2>4, <5>1
        <5> QED
          BY ONLY <5>1, <5>2, <5>3
      <4> QED
        BY ONLY <4>1, <4>2
    <3>4. Len(b) = n
      BY ONLY DEF n
    <3>5. z = b
      BY ONLY <1>1, <3>2, <3>3, <3>4, SeqEqual
    <3> QED
      BY ONLY <3>5 DEF z
  <2> DEFINE p == Chunk(x)
             q == Chunk(y)
  <2>6. /\ p \in Seq(Nat) /\ q \in Seq(Nat) /\ last \in Seq(Nat) /\ Len(last) = 3 /\ k \in Seq(Nat)
        /\ Len(p) = s + 3 /\ Len(q) = d + 3
    <3>1. p \in Seq(Nat) /\ q \in Seq(Nat) /\ Len(p) = s + 3 /\ Len(q) = d + 3
      <4> HIDE DEF x, y
      <4> QED
        BY ONLY <2>4, ChunkChars DEF p, q
    <3>2. last \in Seq(Nat) /\ Len(last) = 3 /\ k \in Seq(Nat)
      BY ONLY <1>3, SymbolTypes DEF last, k
    <3> QED
      BY ONLY <3>1, <3>2
  <2>7. rest = (p \o q) \o last
    BY ONLY DEF rest, p, q
  <2>8. R = <<Status(st), CRLF>> \o (((k \o p) \o q) \o last)
    BY ONLY <2>1 DEF p, q
  <2> HIDE DEF x, y, p, q, last, k, rest
  <2>9. ((k \o p) \o q) \o last = k \o rest
    <3> DEFINE pq == p \o q
    <3>1. pq \in Seq(Nat) /\ (k \o p) \o q = k \o pq
      <4>1. pq \in Seq(Nat)
        BY ONLY <2>6, Joined DEF pq
      <4>2. (k \o p) \o q = k \o (p \o q)
        BY ONLY <2>6, Regroup DEF Grouped
      <4> QED
        BY ONLY <4>1, <4>2 DEF pq
    <3>2. rest = pq \o last
      BY ONLY <2>7 DEF pq
    <3> HIDE DEF pq
    <3>3. (k \o pq) \o last = k \o (pq \o last)
      BY ONLY <2>6, <3>1, Regroup DEF Grouped
    <3> QED
      BY ONLY <3>1, <3>2, <3>3
  <2>10. rest \in Seq(Nat) /\ Len(rest) = n + 9
    <3> DEFINE pq == p \o q
    <3>1. pq \in Seq(Nat) /\ Len(pq) = Len(p) + Len(q)
      BY ONLY <2>6, Joined DEF pq
    <3>2. rest = pq \o last
      BY ONLY <2>7 DEF pq
    <3> HIDE DEF pq
    <3>3. rest \in Seq(Nat) /\ Len(rest) = Len(pq) + Len(last)
      BY ONLY <2>6, <3>1, <3>2, Joined
    <3> QED
      BY ONLY <2>3, <2>6, <3>1, <3>3
  <2>11. Framed(R, st, Chunked, rest)
    <3>1. R = <<Status(st), CRLF>> \o (<<Chunked, CRLF, CRLF>> \o rest)
      BY ONLY <2>8, <2>9 DEF k
    <3> QED
      BY ONLY <1>1, <1>3, <2>10, <3>1, FramedResponse
  <2>12. Len(R) = n + 14
    <3>1. Len(R) = 5 + Len(rest)
      BY ONLY <2>11 DEF Framed
    <3> QED
      BY ONLY <1>2, <2>10, <3>1
  <2> DEFINE body == DecodeChunkedBody(c)
  <2>13. body = IF Chunked = Chunked THEN DecodeChunkedBody(c)
                ELSE [ok |-> TRUE, value |-> c, next |-> 0]
    BY ONLY DEF body
  <2>14. 5 \leq cut => /\ c \in Seq(Nat) /\ IsPrefix(c, rest) /\ Len(c) = cut - 5
    BY ONLY <1>2, <1>4, <2>11, FramedRest
  <2>15. 5 \leq cut => IF n + 8 \leq cut - 5 THEN body.ok = TRUE /\ body.value = b
                       ELSE body = Fail
    <3>1. ASSUME 5 \leq cut
          PROVE  IF Len(x) + Len(y) + 8 \leq Len(c)
                 THEN DecodeChunkedBody(c).ok = TRUE /\ DecodeChunkedBody(c).value = x \o y
                 ELSE DecodeChunkedBody(c) = Fail
      <4>1. IsPrefix(c, (Chunk(x) \o Chunk(y)) \o <<ChunkSize(0), CRLF, CRLF>>) /\ c \in Seq(Nat)
        BY ONLY <2>7, <2>14, <3>1 DEF p, q, last
      <4>2. Len(x) \geq 1 /\ Len(y) \geq 1
        BY ONLY <2>3, <2>4
      <4> QED
        BY ONLY <2>4, <4>1, <4>2, ChunksRead
    <3>2. Len(x) + Len(y) + 8 = n + 8
      BY ONLY <2>3, <2>4
    <3> QED
      BY ONLY <2>5, <2>14, <3>1, <3>2 DEF body
  <2> HIDE DEF body
  <2>16. h = IF 5 \leq cut /\ st \in 200..299 /\ body.ok THEN body ELSE Fail
    <3>1. TakenFor(Chunked, c, body)
      BY ONLY <2>13 DEF TakenFor
    <3>2. CutOff(R, cut, r, c)
      BY ONLY <1>2, <1>4 DEF CutOff
    <3> QED
      BY ONLY <2>11, <3>1, <3>2, HttpRead DEF h
  <2>17. Fail.ok = FALSE
    BY ONLY DEF Fail
  <2> HIDE DEF h
  <2>18. h.ok = TRUE => 5 \leq cut /\ st \in 200..299 /\ h.value = b /\ cut \geq Len(R) - 1
    <3>1. ASSUME h.ok = TRUE
          PROVE  5 \leq cut /\ st \in 200..299 /\ h.value = b /\ cut \geq Len(R) - 1
      <4>1. 5 \leq cut /\ st \in 200..299 /\ h = body
        BY ONLY <2>16, <2>17, <3>1
      <4>2. n + 8 \leq cut - 5
        BY ONLY <2>15, <2>17, <3>1, <4>1
      <4>3. body.value = b
        BY ONLY <2>15, <4>1, <4>2
      <4>4. cut \geq Len(R) - 1
        BY ONLY <1>2, <2>12, <4>2
      <4> QED
        BY ONLY <4>1, <4>3, <4>4
    <3> QED
      BY ONLY <3>1
  <2>19. cut = Len(R) /\ st \in 200..299 => h.ok = TRUE
    <3>1. cut = Len(R) => 5 \leq cut /\ n + 8 \leq cut - 5
      BY ONLY <1>2, <2>12
    <3> QED
      BY ONLY <2>15, <2>16, <3>1
  <2>20. IsPrefix(b, b)
    BY ONLY DEF IsPrefix
  <2>21. /\ h.ok = TRUE => /\ st \in 200..299
                           /\ h.value \in Seq(Nat) /\ IsPrefix(h.value, b)
                           /\ h.value = b /\ cut \geq Len(R) - 1 /\ Len(h.value) = n
         /\ cut = Len(R) /\ st \in 200..299 => h.ok = TRUE
    BY ONLY <1>1, <2>18, <2>19, <2>20 DEF n
  <2> QED
    BY ONLY <1>6, <2>21 DEF Delivered, h, r, R, b, n, st
<1> QED
  BY ONLY <1>5, <1>6

-----------------------------------------------------------------------------
(***************************************************************************)
(* Results.                                                                *)
(***************************************************************************)
\* What a result says of the answer a when so many characters of the response
\* have arrived: the contents of CompletionFaithful and WholeAnswerCompletes.
CountFrom(a, k, n) == IF EndsInKey(a.units, k) THEN 0 ELSE n

\* The finish reason and the counts of an answer that arrived whole.
SaidOfWhole(a, g) ==
  /\ g.finish_reason = a.finish
  /\ g.prompt_tokens = CountFrom(a, PromptTokens, 99)
  /\ g.generated_tokens = CountFrom(a, CompletionTokens, 12)

\* What may have become of them when the connection was cut.
SaidOfCut(a, g) ==
  /\ g.finish_reason \in {"Stop", a.finish}
  /\ g.prompt_tokens \in {CountFrom(a, PromptTokens, n) : n \in {0, 9, 99}}
  /\ g.generated_tokens \in {CountFrom(a, CompletionTokens, n) : n \in {0, 1, 12}}

\* The whole text, no error, no cut chunked reply, and what is said of the rest.
FaithfulResult(a, cut, g) ==
  /\ Lenient(a.units) /\ g.text \in Seq(Nat) /\ g.text = Denoted(a.units)
  /\ a.status \in 200..299
  /\ a.split # 0 => cut \geq Len(Response(a)) - 1
  /\ IF cut = Len(Response(a)) \/ a.split # 0 THEN SaidOfWhole(a, g) ELSE SaidOfCut(a, g)

\* What a cut or whole body t of the answer a is taken for.
Taken(t, content, reason, g) ==
  /\ content = CompletionContent(t)
  /\ reason = JsonStringValue(t, FinishReason, <<StopWord>>)
  /\ g = [status |-> "Ok", text |-> content.value,
          finish_reason |-> IF reason.value = <<LengthWord>> THEN "Length" ELSE "Stop",
          prompt_tokens |-> JsonUnsignedValue(t, PromptTokens),
          generated_tokens |-> JsonUnsignedValue(t, CompletionTokens)]

\* What these say of the answer: the text is read only if it is whole.
SaidOf(a, whole, content, reason, g) ==
  /\ content.ok = TRUE => Lenient(a.units) /\ content.value = Denoted(a.units)
  /\ content.ok = TRUE /\ reason.ok = TRUE => SaidOfCut(a, g)
  /\ content.ok = TRUE /\ reason.ok = TRUE /\ whole => SaidOfWhole(a, g)
  /\ whole /\ Lenient(a.units) => content.ok = TRUE
  /\ whole /\ Lenient(a.units) /\ ~EndsInKey(a.units, FinishReason) => reason.ok = TRUE

\* A body, whole or cut, is taken so.
LEMMA BodyTaken ==
  ASSUME NEW a, IsAnswer(a), NEW t \in Seq(Nat), IsPrefix(t, Body(a)),
         NEW content, NEW reason, NEW g, Taken(t, content, reason, g)
  PROVE  SaidOf(a, Len(t) = Len(Body(a)), content, reason, g)
<1> DEFINE us == a.units
           b == Body(a)
           finish == a.finish
           r == BodyRest(finish)
           w == FinishWord(finish)
           n == Len(t)
<1>1. us \in Seq(Spellings) /\ finish \in {"Stop", "Length"}
  BY ONLY IsAnswer(a) DEF IsAnswer, us, finish
<1>2. PICK q \in Nat : LaidOut(b, Raw(us), finish, q)
  BY ONLY <1>1, BodyLaidOut DEF b, us, finish
<1>3. Len(b) = q + 28 /\ n \in Nat
  <2>1. Len(b) = q + 28
    BY ONLY <1>2 DEF LaidOut
  <2> QED
    BY ONLY <2>1, t \in Seq(Nat) DEF n
<1> HIDE DEF b, n
<1>4. IsPrefix(t, b)
  BY ONLY IsPrefix(t, Body(a)) DEF b
<1> HIDE DEF us, finish
<1>5. content = IF q \leq n /\ Lenient(us)
                THEN [ok |-> TRUE, value |-> Denoted(us), next |-> q + 1] ELSE Fail
  <2>1. content = CompletionContent(t)
    BY ONLY Taken(t, content, reason, g) DEF Taken
  <2> QED
    BY ONLY <1>1, <1>2, <1>4, <2>1, t \in Seq(Nat), ContentRead DEF n
<1>6. /\ content.ok = TRUE => q \leq n /\ Lenient(us) /\ content.value = Denoted(us)
      /\ q \leq n /\ Lenient(us) => content.ok = TRUE
  <2>1. Fail.ok = FALSE
    BY ONLY DEF Fail
  <2>2. CASE q \leq n /\ Lenient(us)
    BY ONLY <1>5, <2>2
  <2>3. CASE ~(q \leq n /\ Lenient(us))
    BY ONLY <1>5, <2>1, <2>3
  <2> QED
    BY ONLY <2>2, <2>3
<1>7. n = Len(b) => q \leq n
  BY ONLY <1>2, <1>3
<1>8. q \leq n /\ Lenient(us) => Reply(t, us, r, w, q)
  BY ONLY <1>1, <1>2, <1>4, t \in Seq(Nat), ReplyLaidOut DEF n, r, w
<1>9. ASSUME q \leq n, Lenient(us)
      PROVE  /\ n = Len(b) /\ ~EndsInKey(us, FinishReason) => reason.ok = TRUE
             /\ reason.ok = TRUE => SaidOfCut(a, g)
             /\ reason.ok = TRUE /\ n = Len(b) => SaidOfWhole(a, g)
  <2>1. Reply(t, us, r, w, q)
    BY ONLY <1>8, <1>9
  <2>2. TailChars(r, w) /\ w = IF finish = "Length" THEN 262 ELSE 261
    BY ONLY TailValues DEF r, w
  <2>3. w \in {261, 262}
    BY ONLY <2>2
  <2> HIDE DEF r, w
  <2>4. /\ reason.ok = TRUE => reason.value \in {<<StopWord>>, <<w>>}
        /\ ~EndsInKey(us, FinishReason) /\ n = q + 28 => reason.ok = TRUE
        /\ reason.ok = TRUE /\ n = q + 28 => reason.value = <<w>>
    <3>1. reason = JsonStringValue(t, FinishReason, <<StopWord>>)
      BY ONLY Taken(t, content, reason, g) DEF Taken
    <3> QED
      BY ONLY <2>1, <3>1, ReasonRead DEF n
  <2>5. KeyPlace(r, 259, 15) /\ KeyPlace(r, 260, 22)
    BY ONLY <2>2, <2>3, KeyPlaces
  <2>6. Counted(r, 15, 9, 9) /\ Counted(r, 22, 1, 2)
    BY ONLY <2>2, CountsKept
  <2>7. PromptTokens = 259 /\ CompletionTokens = 260 /\ StopWord = 261 /\ LengthWord = 262
    BY ONLY WordsDiffer
  <2>8. JsonUnsignedValue(t, PromptTokens) =
          IF EndsInKey(us, PromptTokens) \/ n < q + 15 + 4 THEN 0
          ELSE IF n = q + 15 + 4 THEN 9 ELSE 10 * 9 + 9
    <3> DEFINE k == PromptTokens
    <3>1. KeyPlace(r, k, 15)
      BY ONLY <2>5, <2>7 DEF k
    <3> HIDE DEF k
    <3>2. JsonUnsignedValue(t, k) =
            IF EndsInKey(us, k) \/ Len(t) < q + 15 + 4 THEN 0
            ELSE IF Len(t) = q + 15 + 4 THEN 9 ELSE 10 * 9 + 9
      BY ONLY <2>1, <2>6, <3>1, CountRead, SMTT(30)
    <3> QED
      BY ONLY <3>2 DEF k, n
  <2>9. JsonUnsignedValue(t, CompletionTokens) =
          IF EndsInKey(us, CompletionTokens) \/ n < q + 22 + 4 THEN 0
          ELSE IF n = q + 22 + 4 THEN 1 ELSE 10 * 1 + 2
    <3> DEFINE k == CompletionTokens
    <3>1. KeyPlace(r, k, 22)
      BY ONLY <2>5, <2>7 DEF k
    <3> HIDE DEF k
    <3>2. JsonUnsignedValue(t, k) =
            IF EndsInKey(us, k) \/ Len(t) < q + 22 + 4 THEN 0
            ELSE IF Len(t) = q + 22 + 4 THEN 1 ELSE 10 * 1 + 2
      BY ONLY <2>1, <2>6, <3>1, CountRead, SMTT(30)
    <3> QED
      BY ONLY <3>2 DEF k, n
  <2> DEFINE prompt == JsonUnsignedValue(t, PromptTokens)
             generated == JsonUnsignedValue(t, CompletionTokens)
  <2>10. /\ prompt \in {CountFrom(a, PromptTokens, m) : m \in {0, 9, 99}}
         /\ n = q + 28 => prompt = CountFrom(a, PromptTokens, 99)
    <3>1. CountFrom(a, PromptTokens, 0) = 0 /\ 10 * 9 + 9 = 99
      BY ONLY DEF CountFrom
    <3>2. prompt = CountFrom(a, PromptTokens, 0) \/ prompt = CountFrom(a, PromptTokens, 9)
          \/ prompt = CountFrom(a, PromptTokens, 99)
      BY ONLY <2>8, <3>1 DEF CountFrom, prompt, us
    <3>3. n = q + 28 => ~(n < q + 15 + 4) /\ n # q + 15 + 4
      BY ONLY <1>2, <1>3
    <3>4. n = q + 28 => prompt = CountFrom(a, PromptTokens, 99)
      BY ONLY <2>8, <3>1, <3>3 DEF CountFrom, prompt, us
    <3> QED
      BY ONLY <3>2, <3>4
  <2>11. /\ generated \in {CountFrom(a, CompletionTokens, m) : m \in {0, 1, 12}}
         /\ n = q + 28 => generated = CountFrom(a, CompletionTokens, 12)
    <3>1. CountFrom(a, CompletionTokens, 0) = 0 /\ 10 * 1 + 2 = 12
      BY ONLY DEF CountFrom
    <3>2. generated = CountFrom(a, CompletionTokens, 0)
          \/ generated = CountFrom(a, CompletionTokens, 1)
          \/ generated = CountFrom(a, CompletionTokens, 12)
      BY ONLY <2>9, <3>1 DEF CountFrom, generated, us
    <3>3. n = q + 28 => ~(n < q + 22 + 4) /\ n # q + 22 + 4
      BY ONLY <1>2, <1>3
    <3>4. n = q + 28 => generated = CountFrom(a, CompletionTokens, 12)
      BY ONLY <2>9, <3>1, <3>3 DEF CountFrom, generated, us
    <3> QED
      BY ONLY <3>2, <3>4
  <2> HIDE DEF prompt, generated
  <2>12. <<261>> # <<262>>
    <3>1. <<261>>[1] # <<262>>[1]
      OBVIOUS
    <3> QED
      BY ONLY <3>1
  <2>13. /\ reason.ok = TRUE => g.finish_reason \in {"Stop", finish}
         /\ reason.ok = TRUE /\ n = q + 28 => g.finish_reason = finish
    <3>1. g.finish_reason = IF reason.value = <<LengthWord>> THEN "Length" ELSE "Stop"
      BY ONLY Taken(t, content, reason, g) DEF Taken
    <3>2. CASE finish = "Length"
      <4>1. w = 262
        BY ONLY <2>2, <3>2
      <4> QED
        BY ONLY <2>4, <2>7, <2>12, <3>1, <3>2, <4>1
    <3>3. CASE finish = "Stop"
      <4>1. w = 261
        BY ONLY <2>2, <3>3
      <4> QED
        BY ONLY <2>4, <2>7, <2>12, <3>1, <3>3, <4>1
    <3> QED
      BY ONLY <1>1, <3>2, <3>3
  <2>14. g.prompt_tokens = prompt /\ g.generated_tokens = generated
    BY ONLY Taken(t, content, reason, g) DEF Taken, prompt, generated
  <2>15. reason.ok = TRUE => SaidOfCut(a, g)
    BY ONLY <2>10, <2>11, <2>13, <2>14 DEF SaidOfCut, finish
  <2>16. reason.ok = TRUE /\ n = Len(b) => SaidOfWhole(a, g)
    BY ONLY <1>3, <2>10, <2>11, <2>13, <2>14 DEF SaidOfWhole, finish
  <2> QED
    BY ONLY <1>3, <2>4, <2>15, <2>16
<1>10. /\ content.ok = TRUE => Lenient(us) /\ content.value = Denoted(us)
       /\ content.ok = TRUE /\ reason.ok = TRUE => SaidOfCut(a, g)
       /\ content.ok = TRUE /\ reason.ok = TRUE /\ n = Len(b) => SaidOfWhole(a, g)
       /\ n = Len(b) /\ Lenient(us) => content.ok = TRUE
       /\ n = Len(b) /\ Lenient(us) /\ ~EndsInKey(us, FinishReason) => reason.ok = TRUE
  BY ONLY <1>6, <1>7, <1>9
<1> QED
  BY ONLY <1>10 DEF SaidOf, us, n, b

\* A result with status Ok is faithful to the answer, and there is one when the
\* answer can be read, arrives whole and is no error.
LEMMA ResultRead ==
  ASSUME NEW a, IsAnswer(a), NEW cut \in 0..Len(Response(a)),
         NEW g, g = ResultOf(SubSeq(Response(a), 1, cut))
  PROVE  /\ g.status = "Ok" => FaithfulResult(a, cut, g)
         /\ cut = Len(Response(a)) /\ Lenient(a.units) /\ a.status \in 200..299
            /\ ~EndsInKey(a.units, FinishReason) => g.status = "Ok"
<1> DEFINE R == Response(a)
           r == SubSeq(R, 1, cut)
           h == HttpBody(r)
           t == h.value
           content == CompletionContent(t)
           reason == JsonStringValue(t, FinishReason, <<StopWord>>)
           full == [status |-> "Ok", text |-> content.value,
                    finish_reason |-> IF reason.value = <<LengthWord>> THEN "Length" ELSE "Stop",
                    prompt_tokens |-> JsonUnsignedValue(t, PromptTokens),
                    generated_tokens |-> JsonUnsignedValue(t, CompletionTokens)]
           b == Body(a)
<1>1. g = IF h.ok /\ content.ok /\ reason.ok THEN full ELSE NoResult
  BY ONLY g = ResultOf(SubSeq(Response(a), 1, cut)) DEF ResultOf, full, reason, content, t, h, r, R
<1>2. Delivered(a, cut, h)
  BY ONLY IsAnswer(a), cut \in 0..Len(Response(a)), ResponseRead DEF h, r, R
<1>3. R \in Seq(Nat)
  BY ONLY IsAnswer(a), ResponseType DEF R
<1>4. g.text \in Seq(Nat)
  <2>1. r \in Seq(Nat)
    BY ONLY <1>3, cut \in 0..Len(Response(a)), CutLemma DEF r, R
  <2> QED
    BY ONLY <2>1, g = ResultOf(SubSeq(Response(a), 1, cut)), ResultType DEF r, R
<1>5. full.status = "Ok" /\ full.text = content.value /\ NoResult.status # "Ok"
  BY ONLY DEF full, NoResult
<1>6. h.ok = TRUE => t \in Seq(Nat) /\ IsPrefix(t, b)
  BY ONLY <1>2 DEF Delivered, t, b
<1>7. content = CompletionContent(t) /\ reason = JsonStringValue(t, FinishReason, <<StopWord>>)
      /\ Taken(t, content, reason, full)
  BY DEF Taken, full, content, reason
<1>8. /\ h.ok = TRUE => a.status \in 200..299
      /\ h.ok = TRUE /\ a.split # 0 => t = b /\ cut \geq Len(R) - 1
      /\ h.ok = TRUE /\ cut = Len(R) => Len(t) = Len(b)
      /\ cut = Len(R) /\ a.status \in 200..299 => h.ok = TRUE
  BY ONLY <1>2 DEF Delivered, t, b, R
<1> HIDE DEF h, t, content, reason, full, b, r
<1>9. ASSUME h.ok = TRUE PROVE SaidOf(a, Len(t) = Len(b), content, reason, full)
  <2>1. t \in Seq(Nat) /\ IsPrefix(t, Body(a))
    BY ONLY <1>6, <1>9 DEF b
  <2> QED
    BY ONLY <1>7, <2>1, IsAnswer(a), BodyTaken DEF b
<1>10. content.ok \in BOOLEAN /\ reason.ok \in BOOLEAN /\ h.ok \in BOOLEAN
  <2>1. r \in Seq(Nat)
    BY ONLY <1>3, cut \in 0..Len(Response(a)), CutLemma DEF r, R
  <2>2. h \in Parsed
    BY ONLY <2>1, HttpType DEF h
  <2>3. t \in Seq(Nat) /\ h.ok \in BOOLEAN
    BY ONLY <2>2 DEF Parsed, t
  <2>4. content \in Parsed
    BY ONLY <1>7, <2>3, ContentType
  <2>5. reason.ok \in BOOLEAN
    <3>1. <<StopWord>> \in Seq(Nat)
      BY ONLY WordsDiffer
    <3>2. reason \in Parsed
      BY ONLY <1>7, <2>3, <3>1, StringValueType
    <3> QED
      BY ONLY <3>2 DEF Parsed
  <2>6. content.ok \in BOOLEAN
    BY ONLY <2>4 DEF Parsed
  <2> QED
    BY ONLY <2>3, <2>5, <2>6
<1>11. ASSUME g.status = "Ok" PROVE FaithfulResult(a, cut, g)
  <2>1. h.ok = TRUE /\ content.ok = TRUE /\ reason.ok = TRUE /\ g = full
    BY ONLY <1>1, <1>5, <1>10, <1>11
  <2>2. Lenient(a.units) /\ g.text = Denoted(a.units) /\ SaidOfCut(a, g)
    BY ONLY <1>5, <1>9, <2>1 DEF SaidOf
  <2>3. cut = Len(R) \/ a.split # 0 => SaidOfWhole(a, g)
    BY ONLY <1>8, <1>9, <2>1 DEF SaidOf
  <2>4. a.status \in 200..299 /\ (a.split # 0 => cut \geq Len(R) - 1)
    BY ONLY <1>8, <2>1
  <2> QED
    BY ONLY <1>4, <2>2, <2>3, <2>4 DEF FaithfulResult, R
<1>12. cut = Len(R) /\ Lenient(a.units) /\ a.status \in 200..299
       /\ ~EndsInKey(a.units, FinishReason) => g.status = "Ok"
  BY ONLY <1>1, <1>5, <1>8, <1>9 DEF SaidOf
<1> QED
  BY ONLY <1>11, <1>12 DEF R

-----------------------------------------------------------------------------
(***************************************************************************)
(* Completions.                                                            *)
(***************************************************************************)
\* A completion carries a result of the runtime that was read from what has arrived.
LEMMA CompletionMade ==
  ASSUME CompletionInv, Completed
  PROVE  /\ IsAnswer(answer) /\ scenario.response = Response(answer)
         /\ got \in 0..Len(Response(answer))
         /\ result.status = "Ok" /\ result = ResultOf(SubSeq(Response(answer), 1, got))
         /\ response = CompletionResponse(ModelNamed, result)
<1>1. scenario \in Scenarios
  BY DEF CompletionInv, CallInv
<1>2. IsAnswer(answer) /\ scenario.response = Response(answer)
  BY ONLY <1>1, ScenarioTypes DEF answer
<1>3. got \in 0..Len(scenario.response)
  BY DEF CompletionInv, ConnectionInv
<1>4. stage = "responded" /\ response.status = 200 /\ scenario.runtime = "DeepSeek"
  BY DEF Completed, Answered
<1>5. result.status = "Ok" /\ response = CompletionResponse(ModelNamed, result)
  BY <1>4 DEF CompletionInv, ResponseInv
<1>6. result # NoResult /\ "DeepSeek" \notin GenerateStatuses
  BY <1>5 DEF NoResult, GenerateStatuses
<1>7. result = ResultOf(Received)
  BY <1>4, <1>6 DEF CompletionInv, ResultInv
<1> QED
  BY ONLY <1>2, <1>3, <1>5, <1>7 DEF Received

\* That result is faithful to the answer.
LEMMA FaithfulWhenCompleted ==
  ASSUME CompletionInv, Completed
  PROVE  /\ FaithfulResult(answer, got, result) /\ scenario.response = Response(answer)
         /\ response = CompletionResponse(ModelNamed, result)
<1>1. /\ IsAnswer(answer) /\ scenario.response = Response(answer)
      /\ got \in 0..Len(Response(answer))
      /\ result.status = "Ok" /\ result = ResultOf(SubSeq(Response(answer), 1, got))
      /\ response = CompletionResponse(ModelNamed, result)
  BY CompletionMade
<1>2. FaithfulResult(answer, got, result)
  BY ONLY <1>1, ResultRead
<1> QED
  BY ONLY <1>1, <1>2

\* CompletionFaithful: wherever the connection was cut, a completion carries the whole
\* text of an answer that was no error, and its finish reason and counts, which only a
\* cut reply without chunks can lose.
THEOREM ResponsesFaithful == Spec => []CompletionFaithful
<1>1. CompletionInv => CompletionFaithful
  <2> SUFFICES ASSUME CompletionInv PROVE CompletionFaithful
    OBVIOUS
  <2>1. Completed => /\ FaithfulResult(answer, got, result) /\ scenario.response = Response(answer)
                     /\ response = CompletionResponse(ModelNamed, result)
    BY FaithfulWhenCompleted
  <2> DEFINE a == answer
             whole == got = Len(Response(a)) \/ a.split # 0
  <2>2. Completed => /\ Lenient(a.units) /\ result.text \in Seq(Nat)
                     /\ result.text = Denoted(a.units) /\ a.status \in 200..299
                     /\ a.split # 0 => got \geq Len(scenario.response) - 1
                     /\ Arrived \/ a.split # 0 <=> whole
                     /\ IF whole THEN SaidOfWhole(a, result) ELSE SaidOfCut(a, result)
    BY ONLY <2>1 DEF FaithfulResult, Arrived, a, whole
  <2>3. Completed => /\ response.content = EscapeJsonString(result.text)
                     /\ response.finish_reason = result.finish_reason
                     /\ response.prompt_tokens = result.prompt_tokens
                     /\ response.completion_tokens = result.generated_tokens
                     /\ response.total_tokens = result.prompt_tokens + result.generated_tokens
    <3>1. Completed => response = CompletionResponse(ModelNamed, result)
      BY ONLY <2>1
    <3> DEFINE r == CompletionResponse(ModelNamed, result)
    <3>2. /\ r.content = EscapeJsonString(result.text)
          /\ r.finish_reason = result.finish_reason
          /\ r.prompt_tokens = result.prompt_tokens
          /\ r.completion_tokens = result.generated_tokens
          /\ r.total_tokens = result.prompt_tokens + result.generated_tokens
      BY ONLY DEF CompletionResponse, TotalTokens, r
    <3> HIDE DEF r
    <3> QED
      BY <3>1, <3>2 DEF r
  <2> HIDE DEF a, whole
  <2>4. TextWhole
    <3> SUFFICES ASSUME Completed
                 PROVE  LET text == ParseString(response.content, 1)
                        IN  /\ Lenient(answer.units)
                            /\ text.ok /\ text.next = Len(response.content) + 1
                            /\ text.value = Denoted(answer.units)
      BY DEF TextWhole
    <3> DEFINE v == result.text
               e == Escaped(v)
               s == (<< 34 >> \o e) \o << 34 >>
               n == Len(e)
    <3>1. v \in Seq(Nat) /\ Lenient(answer.units) /\ v = Denoted(answer.units)
      BY ONLY <2>2, Completed DEF a, v
    <3>2. response.content = s
      BY ONLY <2>3, Completed DEF EscapeJsonString, Quote, s, e, v
    <3>3. e \in Seq(Nat) /\ n \in Nat
      <4>1. e \in Seq(Nat)
        BY ONLY <3>1, EscapesLemma DEF e
      <4> QED
        BY ONLY <4>1 DEF n
    <3> HIDE DEF e, v
    <3>4. s \in Seq(Nat) /\ Len(s) = n + 2
      <4> DEFINE x == << 34 >> \o e
      <4>1. << 34 >> \in Seq(Nat) /\ Len(<< 34 >>) = 1
        OBVIOUS
      <4>2. x \in Seq(Nat) /\ Len(x) = Len(<< 34 >>) + n
        BY ONLY <3>3, <4>1, Joined DEF x, n
      <4>3. s = x \o << 34 >>
        BY ONLY DEF s, x
      <4> HIDE DEF x
      <4>4. s \in Seq(Nat) /\ Len(s) = Len(x) + Len(<< 34 >>)
        BY ONLY <4>1, <4>2, <4>3, Joined
      <4> QED
        BY ONLY <3>3, <4>1, <4>2, <4>4
    <3>5. Occurs(s, 1, s) /\ 1 \in Positions
      <4>1. 1 \in Positions
        BY DEF Positions
      <4>2. Occurs(s, 1, s)
        BY ONLY <3>4, OccursSelf
      <4> QED
        BY ONLY <4>1, <4>2
    <3>6. s = (<< 34 >> \o Escaped(v)) \o << 34 >>
      BY ONLY DEF s, e
    <3> HIDE DEF s, n
    <3>7. ParseString(s, 1) = [ok |-> TRUE, value |-> v, next |-> 1 + Len(Escaped(v)) + 2]
      BY ONLY <3>1, <3>4, <3>5, <3>6, EscapedRead
    <3>8. 1 + Len(Escaped(v)) + 2 = Len(s) + 1
      BY ONLY <3>3, <3>4 DEF n, e
    <3> QED
      BY ONLY <3>1, <3>2, <3>7, <3>8
  <2>5. BrokenIsNotCompleted
    BY ONLY <2>2 DEF BrokenIsNotCompleted, a
  <2>6. UsageFaithful
    <3> SUFFICES ASSUME Completed PROVE UsageFaithful
      BY DEF UsageFaithful
    <3>1. response.total_tokens = response.prompt_tokens + response.completion_tokens
      BY ONLY <2>3, Completed
    <3>2. CASE whole
      <4>1. SaidOfWhole(a, result)
        BY ONLY <2>2, <3>2, Completed
      <4> QED
        BY ONLY <2>2, <2>3, <3>1, <3>2, <4>1, Completed
           DEF UsageFaithful, SaidOfWhole, CountFrom, a
    <3>3. CASE ~whole
      <4>1. SaidOfCut(a, result)
        BY ONLY <2>2, <3>3, Completed
      <4>2. /\ response.finish_reason \in {"Stop", a.finish}
            /\ response.prompt_tokens \in {CountFrom(a, PromptTokens, n) : n \in {0, 9, 99}}
            /\ response.completion_tokens
                 \in {CountFrom(a, CompletionTokens, n) : n \in {0, 1, 12}}
        BY ONLY <2>3, <4>1, Completed DEF SaidOfCut
      <4> QED
        BY ONLY <2>2, <3>1, <3>3, <4>2, Completed DEF UsageFaithful, CountFrom, a
    <3> QED
      BY ONLY <3>2, <3>3
  <2> QED
    BY ONLY <2>4, <2>5, <2>6 DEF CompletionFaithful
<1> QED
  BY <1>1, InductiveInvariant, PTL

\* WholeAnswerCompletes: a readable answer that arrives whole becomes a completion,
\* unless its text ends in what the search takes for the key of the finish reason.
THEOREM AnswersComplete == Spec => []WholeAnswerCompletes
<1>1. CompletionInv => WholeAnswerCompletes
  <2> SUFFICES ASSUME CompletionInv, Arrived, Lenient(answer.units),
                      answer.status \in 200..299, ~EndsInKey(answer.units, FinishReason)
               PROVE  ResultOf(SubSeq(scenario.response, 1, got)).status = "Ok"
    BY DEF WholeAnswerCompletes
  <2>1. scenario \in Scenarios /\ got \in 0..Len(scenario.response)
    BY DEF CompletionInv, CallInv, ConnectionInv
  <2>2. IsAnswer(answer) /\ scenario.response = Response(answer)
    BY ONLY <2>1, ScenarioTypes DEF answer
  <2> DEFINE a == answer
             g == ResultOf(SubSeq(Response(a), 1, got))
  <2>3. got \in 0..Len(Response(a)) /\ got = Len(Response(a))
    BY ONLY <2>1, <2>2, Arrived DEF Arrived, a
  <2>4. IsAnswer(a) /\ Lenient(a.units) /\ a.status \in 200..299
        /\ ~EndsInKey(a.units, FinishReason)
    BY ONLY <2>2, Lenient(answer.units), answer.status \in 200..299,
            ~EndsInKey(answer.units, FinishReason) DEF a
  <2>5. g = ResultOf(SubSeq(Response(a), 1, got))
    BY ONLY DEF g
  <2>6. ResultOf(SubSeq(scenario.response, 1, got)) = g
    BY ONLY <2>2 DEF g, a
  <2> HIDE DEF g, a
  <2>7. g.status = "Ok"
    BY ONLY <2>3, <2>4, <2>5, ResultRead
  <2> QED
    BY ONLY <2>6, <2>7
<1> QED
  BY <1>1, InductiveInvariant, PTL

=============================================================================
