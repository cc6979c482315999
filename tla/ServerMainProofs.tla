--------------------------- MODULE ServerMainProofs ---------------------------
(***************************************************************************)
(* Proofs about the lite-server process and its connection, for every      *)
(* command line, script of the proxy, poll interval and timeout.           *)
(***************************************************************************)
EXTENDS ServerCommandLine, FrameStreamProofs

-----------------------------------------------------------------------------
(***************************************************************************)
(* The decimal value satisfies its recursive equation and is a natural     *)
(* number.                                                                 *)
(***************************************************************************)
LEMMA DecimalEquation ==
  ASSUME NEW d \in Seq(0..NotDigit)
  PROVE  \E g \in [0..Len(d) -> Nat] :
           /\ g[0] = 0
           /\ \A n \in 1..Len(d) : g[n] = 10 * g[n-1] + d[n]
           /\ ValueOf(d) = g[Len(d)]
<1> DEFINE N == Len(d)
           F == [p \in Nat \X (1..N) |-> 10 * p[1] + d[p[2]]]
           Eq(f) == f = [n \in 0..N |-> IF n = 0 THEN 0 ELSE 10 * f[n-1] + d[n]]
           u == CHOOSE f : Eq(f)
<1>1. N \in Nat /\ 0 \in Nat
  OBVIOUS
<1>2. \A n \in 1..N : d[n] \in Nat
  BY DEF NotDigit
<1> HIDE DEF N
<1>3. F \in [Nat \X (1..N) -> Nat]
  BY <1>2
<1>4. PICK g : Iterates(g, 0, F, Nat, N)
  <2> HIDE DEF F
  <2> QED
    BY <1>1, <1>3, FiniteRecursion
<1>5. \A n \in 1..N : g[n] = 10 * g[n-1] + d[n]
  <2> TAKE n \in 1..N
  <2>1. n-1 \in 0..N
    BY <1>1
  <2>2. <<g[n-1], n>> \in Nat \X (1..N)
    BY <1>4, <2>1 DEF Iterates
  <2> QED
    BY <1>4, <2>2 DEF Iterates
<1>6. Eq(g)
  <2>1. \A n \in 0..N : n = 0 \/ n \in 1..N
    BY <1>1
  <2> QED
    BY <1>4, <1>5, <2>1 DEF Iterates
<1>7. Eq(u)
  <2> HIDE DEF Eq
  <2> QED
    BY <1>6
<1>8. ValueOf(d) = u[N]
  BY DEF ValueOf, N
<1> HIDE DEF u, F
<1>9. u[N] = g[N]
  <2> DEFINE S == {n \in 0..N : u[n] = g[n]}
  <2>1. 0 \in S
    BY <1>1, <1>4, <1>7 DEF Iterates
  <2>2. ASSUME NEW n \in 1..N, n - 1 \in S PROVE n \in S
    <3>1. n \in 0..N /\ n # 0
      BY <1>1
    <3>2. u[n] = 10 * u[n-1] + d[n]
      BY <1>7, <3>1
    <3> QED
      BY <1>5, <2>2, <3>1, <3>2
  <2>3. 0..N \subseteq S
    <3> HIDE DEF S
    <3> QED
      BY <1>1, <2>1, <2>2, IntervalInduction
  <2> QED
    BY <1>1, <2>3
<1> QED
  BY <1>4, <1>5, <1>8, <1>9 DEF N, Iterates

\* v, if the first n of d are digits and v is at most max.
Exactly(max, v, n, d) ==
  IF (\A i \in 1..n : d[i] # NotDigit) /\ v \leq max THEN v ELSE Bad

(***************************************************************************)
(* The test that ParseUnsigned makes before it multiplies is exact: it     *)
(* fails just when the next value would exceed the maximum.                *)
(***************************************************************************)
LEMMA FitsExactly ==
  ASSUME NEW p \in Nat, NEW d \in 0..9, NEW max \in Nat, max \geq 9
  PROVE  Fits(p, d, max) <=> 10 * p + d \leq max
  BY DEF Fits

(***************************************************************************)
(* ParseUnsigned (main.cpp) returns the number that is written, for digits *)
(* of any number, if they are all digits and the number is at most the     *)
(* maximum, and fails otherwise. Nothing overflows on the way, as every    *)
(* value it computes is at most the maximum.                               *)
(***************************************************************************)
THEOREM ParseUnsignedCorrect ==
  ASSUME NEW text, IsArgument(text), NEW max \in Nat, max \geq 9
  PROVE  ParseUnsigned(text, max) =
           LET digits == text.digits
           IN  IF digits # <<>> THEN Exactly(max, ValueOf(digits), Len(digits), digits)
               ELSE Bad
<1> DEFINE d == text.digits
           N == Len(d)
           Step(f, n) == IF \/ f[n-1] = Bad \/ d[n] = NotDigit
                            \/ ~Fits(f[n-1], d[n], max)
                         THEN Bad ELSE f[n-1] * 10 + d[n]
           Eq(f) == f = [n \in 0..N |-> IF n = 0 THEN 0 ELSE Step(f, n)]
           u == CHOOSE f : Eq(f)
<1>1. d \in Seq(0..NotDigit)
  BY DEF IsArgument
<1>2. ParseUnsigned(text, max) = IF d = <<>> THEN Bad ELSE u[N]
  BY DEF ParseUnsigned
<1> HIDE DEF d
<1>3. PICK v \in [0..N -> Nat] :
           /\ v[0] = 0
           /\ \A n \in 1..N : v[n] = 10 * v[n-1] + d[n]
           /\ ValueOf(d) = v[N]
  <2> HIDE DEF u, Eq
  <2> QED BY <1>1, DecimalEquation
<1>4. N \in Nat /\ \A n \in 1..N : d[n] \in 0..NotDigit
  <2> HIDE DEF u, Eq, Step
  <2> QED
    BY <1>1, ElementOfSeq, LenProperties
<1> HIDE DEF N
<1> DEFINE g == [n \in 0..N |-> Exactly(max, v[n], n, d)]
<1>5. ASSUME NEW n \in 1..N PROVE g[n] = Step(g, n)
  <2>0. n \in 0..N /\ n-1 \in 0..N
    BY <1>4
  <2>1. n \in 0..N /\ n-1 \in 0..N /\ v[n] \in Nat /\ v[n-1] \in Nat
    BY <2>0
  <2>2. d[n] # NotDigit => d[n] \in 0..9
    BY <1>4 DEF NotDigit
  <2>3. v[n] = 10 * v[n-1] + d[n]
    BY <1>3
  <2>4. d[n] \in Nat
    <3>1. d[n] \in 0..NotDigit
      BY <1>4
    <3> QED
      BY <3>1 DEF NotDigit
  <2>5. v[n] \geq v[n-1]
    BY <2>1, <2>3, <2>4
  <2>6. (\A i \in 1..n : d[i] # NotDigit) <=>
          (\A i \in 1..(n-1) : d[i] # NotDigit) /\ d[n] # NotDigit
    BY <2>1
  <2>7. g[n] = Exactly(max, v[n], n, d) /\ g[n-1] = Exactly(max, v[n-1], n-1, d)
    BY <2>1
  <2>8. g[n-1] = Bad <=> ~ ((\A i \in 1..(n-1) : d[i] # NotDigit) /\ v[n-1] \leq max)
    BY <2>1, <2>7 DEF Exactly, Bad
  <2> HIDE DEF g
  <2>9. CASE g[n-1] = Bad
    BY <2>1, <2>5, <2>6, <2>7, <2>8, <2>9 DEF Exactly
  <2>10. CASE g[n-1] # Bad /\ d[n] = NotDigit
    BY <2>6, <2>7, <2>10 DEF Exactly
  <2>11. CASE g[n-1] # Bad /\ d[n] # NotDigit
    <3>1. g[n-1] = v[n-1]
      BY <2>7, <2>11 DEF Exactly
    <3>2. Fits(g[n-1], d[n], max) <=> v[n] \leq max
      BY <2>1, <2>2, <2>3, <2>11, <3>1, FitsExactly
    <3>3. g[n] = IF v[n] \leq max THEN v[n] ELSE Bad
      BY <2>6, <2>7, <2>8, <2>11 DEF Exactly
    <3>4. g[n-1] * 10 + d[n] = v[n]
      BY <2>1, <2>3, <2>4, <3>1
    <3> QED
      BY <2>11, <3>2, <3>3, <3>4
  <2> QED
    BY <2>9, <2>10, <2>11
<1>6. g[0] = 0
  <2>1. 0 \in 0..N
    BY <1>4
  <2> QED
    BY <1>3, <2>1 DEF Exactly
<1>7. Eq(g)
  <2>1. \A n \in 0..N : n = 0 \/ n \in 1..N
    BY <1>4
  <2>2. g = [n \in 0..N |-> g[n]]
    OBVIOUS
  <2> HIDE DEF g, Step
  <2> QED
    BY <1>5, <1>6, <2>1, <2>2
<1> HIDE DEF g
<1>8. Eq(u)
  <2> HIDE DEF Eq
  <2> QED
    BY <1>7
<1> HIDE DEF u
<1>9. u[N] = g[N]
  <2> DEFINE S == {n \in 0..N : u[n] = g[n]}
  <2>1. 0 \in S
    BY <1>4, <1>6, <1>8
  <2>2. ASSUME NEW n \in 1..N, n - 1 \in S PROVE n \in S
    <3>1. n \in 0..N /\ n # 0 /\ u[n-1] = g[n-1]
      BY <1>4, <2>2
    <3>2. u[n] = Step(u, n)
      BY <1>8, <3>1
    <3>3. Step(u, n) = Step(g, n)
      BY <3>1
    <3> QED
      BY <1>5, <3>1, <3>2, <3>3
  <2>3. 0..N \subseteq S
    <3> HIDE DEF S
    <3> QED
      BY <1>4, <2>1, <2>2, IntervalInduction
  <2> QED
    BY <1>4, <2>3
<1>10. g[N] = Exactly(max, ValueOf(d), N, d)
  BY <1>3, <1>4 DEF g
<1> QED
  BY <1>2, <1>9, <1>10 DEF d, N

-----------------------------------------------------------------------------
\* g[n] is the number that the first n digits of d are written for.
Prefixes(g, d) ==
  /\ g \in [0..Len(d) -> Nat] /\ g[0] = 0
  /\ \A n \in 1..Len(d) : g[n] = 10 * g[n-1] + d[n]

(***************************************************************************)
(* Digits have such values, and the last one is that of all of them.       *)
(***************************************************************************)
LEMMA PrefixesExist ==
  ASSUME NEW d \in Seq(0..9)
  PROVE  \E g : Prefixes(g, d) /\ ValueOf(d) = g[Len(d)]
<1>1. d \in Seq(0..NotDigit)
  BY DEF NotDigit
<1> QED
  BY <1>1, DecimalEquation DEF Prefixes

(***************************************************************************)
(* Two numbers with digits that are written for the same prefixes are the  *)
(* same.                                                                   *)
(***************************************************************************)
LEMMA PrefixesAgree ==
  ASSUME NEW a \in Seq(0..9), NEW b \in Seq(0..9), NEW f, NEW g,
         Prefixes(f, a), Prefixes(g, b), NEW j \in Nat, NEW k \in Nat,
         Len(a) + j = Len(b), g[j] = 0, k \leq Len(a),
         \A n \in 1..k : a[n] = b[n + j]
  PROVE  f[k] = g[k + j]
<1> DEFINE S == {n \in 0..k : f[n] = g[n + j]}
<1>0. Len(a) \in Nat /\ Len(b) \in Nat
  OBVIOUS
<1>1. 0 \in S
  BY <1>0 DEF Prefixes
<1>2. ASSUME NEW n \in 1..k, n - 1 \in S PROVE n \in S
  <2>1. n \in 1..Len(a) /\ n + j \in 1..Len(b) /\ (n + j) - 1 = (n - 1) + j
    BY <1>0
  <2>2. f[n] = 10 * f[n-1] + a[n] /\ g[n + j] = 10 * g[(n - 1) + j] + b[n + j]
    BY <2>1 DEF Prefixes
  <2>3. f[n-1] = g[(n - 1) + j] /\ a[n] = b[n + j]
    BY <1>2
  <2> QED
    BY <2>2, <2>3
<1>3. 0..k \subseteq S
  <2> HIDE DEF S
  <2> QED
    BY <1>1, <1>2, IntervalInduction
<1> QED
  BY <1>3

(***************************************************************************)
(* A number that is smaller after some digits stays so: whatever digits    *)
(* follow, as many for both.                                               *)
(***************************************************************************)
LEMMA StaysBelow ==
  ASSUME NEW a \in Seq(0..9), NEW b \in Seq(0..9), NEW f, NEW g,
         Prefixes(f, a), Prefixes(g, b), NEW j \in Nat, NEW m \in Nat,
         Len(a) + j = Len(b), m \leq Len(a), f[m] < g[m + j]
  PROVE  f[Len(a)] < g[Len(b)]
<1> DEFINE N == Len(a)
           S == {n \in 0..N : n \geq m => f[n] < g[n + j]}
<1>0. N \in Nat /\ Len(b) \in Nat /\ \A n \in 0..N : n + j \in 0..Len(b)
  OBVIOUS
<1>1. 0 \in S
  <2>1. CASE m = 0
    <3>1. f[0] < g[0 + j]
      BY ONLY <2>1, f[m] < g[m + j]
    <3> QED
      BY <1>0, <3>1
  <2>2. CASE m # 0
    BY <1>0, <2>2
  <2> QED
    BY <2>1, <2>2
<1>2. ASSUME NEW n \in 1..N, n - 1 \in S PROVE n \in S
  <2>1. n \in 1..Len(a) /\ n + j \in 1..Len(b) /\ (n + j) - 1 = (n - 1) + j
        /\ n - 1 \in 0..N /\ n \in 0..N
    BY <1>0
  <2>2. f[n] = 10 * f[n-1] + a[n] /\ g[n + j] = 10 * g[(n - 1) + j] + b[n + j]
    BY <2>1 DEF Prefixes
  <2>3. f[n-1] \in Nat /\ g[(n - 1) + j] \in Nat
    BY <1>0, <2>1 DEF Prefixes
  <2>4. a[n] \in 0..9 /\ b[n + j] \in 0..9
    BY <2>1
  <2>5. CASE n = m
    BY <2>1, <2>5
  <2>6. CASE n # m /\ n \geq m
    <3>1. f[n-1] < g[(n - 1) + j]
      BY <1>2, <2>1, <2>6
    <3> DEFINE x == f[n-1]  y == g[(n - 1) + j]  c == a[n]  e == b[n + j]
    <3>2. x \in Nat /\ y \in Nat /\ c \in 0..9 /\ e \in 0..9 /\ x < y
      BY ONLY <2>3, <2>4, <3>1
    <3>3. f[n] = 10 * x + c /\ g[n + j] = 10 * y + e
      BY ONLY <2>2
    <3> HIDE DEF x, y, c, e
    <3>4. 10 * x + c < 10 * y + e
      BY ONLY <3>2
    <3>5. f[n] < g[n + j]
      BY ONLY <3>3, <3>4
    <3> QED
      BY <2>1, <3>5
  <2>7. CASE ~ n \geq m
    BY <2>1, <2>7
  <2> QED
    BY <2>5, <2>6, <2>7
<1>3. 0..N \subseteq S
  <2> HIDE DEF S, N
  <2> QED
    BY <1>0, <1>1, <1>2, IntervalInduction
<1>4. N \in S /\ N \geq m
  BY <1>0, <1>3
<1>5. f[N] < g[N + j]
  BY ONLY <1>4
<1> QED
  BY <1>5

(***************************************************************************)
(* Of two numbers without leading zeros the shorter one is smaller.        *)
(***************************************************************************)
LEMMA ShorterBelow ==
  ASSUME NEW a \in Seq(0..9), NEW b \in Seq(0..9), Len(a) < Len(b), b[1] # 0
  PROVE  ValueOf(a) < ValueOf(b)
<1>1. PICK f : Prefixes(f, a) /\ ValueOf(a) = f[Len(a)]
  BY PrefixesExist
<1>2. PICK g : Prefixes(g, b) /\ ValueOf(b) = g[Len(b)]
  BY PrefixesExist
<1> DEFINE j == Len(b) - Len(a)
           S == {n \in 0..Len(b) : n # 0 => g[n] > 0}
<1>3. 0 \in S
  OBVIOUS
<1>4. ASSUME NEW n \in 1..Len(b), n - 1 \in S PROVE n \in S
  <2>1. g[n] = 10 * g[n-1] + b[n] /\ b[n] \in 0..9 /\ g[n-1] \in Nat /\ n \in 0..Len(b)
    BY <1>2 DEF Prefixes
  <2>2. n = 1 => g[n-1] = 0 /\ b[n] # 0
    BY <1>2 DEF Prefixes
  <2>3. n # 1 => g[n-1] > 0
    BY <1>4
  <2> QED
    BY <2>1, <2>2, <2>3
<1>5. 0..Len(b) \subseteq S
  <2>1. Len(b) \in Nat
    OBVIOUS
  <2> HIDE DEF S
  <2> QED
    BY <2>1, <1>3, <1>4, IntervalInduction
<1>6. j \in 0..Len(b) /\ j # 0 /\ j \in Nat /\ Len(a) + j = Len(b) /\ 0 \in Nat /\ 0 \leq Len(a)
      /\ 0 + j = j
  OBVIOUS
<1>7. f[0] < g[0 + j]
  BY <1>1, <1>5, <1>6 DEF Prefixes
<1> HIDE DEF j
<1>8. f[Len(a)] < g[Len(b)]
  BY <1>1, <1>2, <1>6, <1>7, StaysBelow
<1> QED
  BY <1>1, <1>2, <1>8

(***************************************************************************)
(* Of two numbers of the same length, the one with the smaller digit where *)
(* they first differ is smaller.                                           *)
(***************************************************************************)
LEMMA SmallerDigit ==
  ASSUME NEW a \in Seq(0..9), NEW b \in Seq(0..9), Len(a) = Len(b),
         NEW n \in 1..Len(a), a[n] < b[n], \A i \in 1..n-1 : a[i] = b[i]
  PROVE  ValueOf(a) < ValueOf(b)
<1>1. PICK f : Prefixes(f, a) /\ ValueOf(a) = f[Len(a)]
  BY PrefixesExist
<1>2. PICK g : Prefixes(g, b) /\ ValueOf(b) = g[Len(b)]
  BY PrefixesExist
<1>3. f[n-1] = g[n-1]
  <2>1. 0 \in Nat /\ n - 1 \in Nat /\ Len(a) + 0 = Len(b) /\ g[0] = 0 /\ n - 1 \leq Len(a)
        /\ n - 1 + 0 = n - 1
    BY <1>2 DEF Prefixes
  <2>2. \A i \in 1..(n-1) : a[i] = b[i + 0]
    OBVIOUS
  <2>3. f[n-1] = g[n - 1 + 0]
    BY <1>1, <1>2, <2>1, <2>2, PrefixesAgree
  <2> QED
    BY <2>1, <2>3
<1>4. f[n] < g[n]
  <2>1. f[n] = 10 * f[n-1] + a[n] /\ g[n] = 10 * g[n-1] + b[n]
    BY <1>1, <1>2 DEF Prefixes
  <2>2. f[n-1] \in Nat /\ a[n] \in 0..9 /\ b[n] \in 0..9
    BY <1>1 DEF Prefixes
  <2> DEFINE x == f[n-1]  c == a[n]  e == b[n]
  <2>3. x \in Nat /\ c \in 0..9 /\ e \in 0..9 /\ c < e
    BY <2>2
  <2>4. f[n] = 10 * x + c /\ g[n] = 10 * x + e
    BY ONLY <1>3, <2>1
  <2> HIDE DEF x, c, e
  <2> QED
    BY ONLY <2>3, <2>4
<1>5. n \in Nat /\ n \leq Len(a) /\ 0 \in Nat /\ Len(a) + 0 = Len(b) /\ n + 0 = n
  OBVIOUS
<1>6. f[Len(a)] < g[Len(b)]
  BY <1>1, <1>2, <1>4, <1>5, StaysBelow
<1> QED
  BY <1>1, <1>2, <1>6

(***************************************************************************)
(* Two different texts of the same length have a first difference.         *)
(***************************************************************************)
LEMMA FirstDifference ==
  ASSUME NEW a \in Seq(0..9), NEW b \in Seq(0..9), Len(a) = Len(b), a # b
  PROVE  \E n \in 1..Len(a) : a[n] # b[n] /\ \A i \in 1..n-1 : a[i] = b[i]
<1> DEFINE S == {n \in 0..Len(a) : \A i \in 1..n : a[i] = b[i]}
<1> SUFFICES ASSUME \A n \in 1..Len(a) : (\A i \in 1..n-1 : a[i] = b[i]) => a[n] = b[n]
             PROVE  FALSE
  OBVIOUS
<1>1. 0 \in S
  OBVIOUS
<1>2. ASSUME NEW n \in 1..Len(a), n - 1 \in S PROVE n \in S
  <2>1. a[n] = b[n]
    BY <1>2
  <2>2. \A i \in 1..n : i = n \/ i \in 1..n-1
    OBVIOUS
  <2> QED
    BY <1>2, <2>1, <2>2
<1>3. 0..Len(a) \subseteq S
  <2>1. Len(a) \in Nat
    OBVIOUS
  <2> HIDE DEF S
  <2> QED
    BY <2>1, <1>1, <1>2, IntervalInduction
<1>4. \A i \in 1..Len(a) : a[i] = b[i]
  BY <1>3
<1> QED
  BY <1>4

\* The first n digits of d are zeros.
Zeros(d, n) == n \in 0..Len(d) /\ \A i \in 1..n : d[i] = 0

(***************************************************************************)
(* The leading zeros of a number can be counted.                           *)
(***************************************************************************)
LEMMA LeadingZeros ==
  ASSUME NEW d \in Seq(0..9)
  PROVE  \E k : Zeros(d, k) /\ \A m : Zeros(d, m) => m \leq k
<1> DEFINE S == {n \in 0..Len(d) : Zeros(d, n)}
<1>1. Len(d) \in Nat
  OBVIOUS
<1>2. Zeros(d, 0)
  BY <1>1 DEF Zeros
<1>3. CASE \A n \in 1..Len(d) : n - 1 \in S => n \in S
  <2>1. 0..Len(d) \subseteq S
    <3>1. 0 \in S
      BY <1>1, <1>2
    <3> HIDE DEF S
    <3> QED
      BY <1>1, <1>3, <3>1, IntervalInduction
  <2>2. Zeros(d, Len(d))
    BY <1>1, <2>1
  <2> QED
    BY <1>1, <2>2 DEF Zeros
<1>4. CASE \E n \in 1..Len(d) : n - 1 \in S /\ n \notin S
  <2>1. PICK n \in 1..Len(d) : n - 1 \in S /\ n \notin S
    BY <1>4
  <2>2. Zeros(d, n - 1) /\ ~ Zeros(d, n) /\ n \in 0..Len(d)
    BY <1>1, <2>1
  <2>3. ASSUME NEW m, Zeros(d, m), ~ m \leq n - 1 PROVE FALSE
    <3>1. m \in Nat /\ n \leq m
      BY <1>1, <2>1, <2>3 DEF Zeros
    <3> QED
      BY <1>1, <2>2, <2>3, <3>1 DEF Zeros
  <2> QED
    BY <2>2, <2>3
<1> QED
  BY <1>3, <1>4

(***************************************************************************)
(* Significant leaves out the leading zeros, and the value is the same.    *)
(***************************************************************************)
LEMMA SignificantValue ==
  ASSUME NEW d \in Seq(0..9)
  PROVE  /\ Significant(d) \in Seq(0..9)
         /\ Len(Significant(d)) > 0 => Significant(d)[1] # 0
         /\ ValueOf(Significant(d)) = ValueOf(d)
<1> DEFINE Z == {n \in 0..Len(d) : \A i \in 1..n : d[i] = 0}
           k == CHOOSE n \in Z : \A m \in Z : m \leq n
           s == SubSeq(d, 1 + k, Len(d))
<1>1. Significant(d) = s
  BY DEF Significant
<1>2. k \in Z /\ \A m \in Z : m \leq k
  <2>1. \E n \in Z : \A m \in Z : m \leq n
    BY LeadingZeros DEF Zeros
  <2> HIDE DEF Z
  <2> QED
    BY <2>1
<1> HIDE DEF k
<1>3. k \in Nat /\ k \leq Len(d) /\ Len(d) \in Nat
  BY <1>2
<1>4. s \in Seq(0..9) /\ Len(s) + k = Len(d)
  BY <1>3
<1>5. \A i \in 1..Len(s) : s[i] = d[i + k]
  <2>1. \A i \in 1..Len(s) : s[i] = d[(1 + k) + i - 1]
    BY <1>3, <1>4
  <2>2. \A i \in 1..Len(s) : (1 + k) + i - 1 = i + k
    BY <1>3, <1>4
  <2> HIDE DEF s
  <2> QED
    BY <2>1, <2>2
<1> HIDE DEF s
<1>6. Len(s) > 0 => s[1] # 0
  <2> SUFFICES ASSUME Len(s) > 0, s[1] = 0 PROVE FALSE
    OBVIOUS
  <2>1. 1 \in 1..Len(s) /\ 1 + k = k + 1 /\ k + 1 \in 0..Len(d)
    BY <1>3, <1>4
  <2>2. d[k + 1] = 0
    BY <1>5, <2>1
  <2>3. \A i \in 1..(k + 1) : i = k + 1 \/ i \in 1..k
    BY <1>3
  <2>4. k + 1 \in Z
    BY <1>2, <2>1, <2>2, <2>3
  <2> QED
    BY <1>2, <1>3, <2>4
<1>7. ValueOf(s) = ValueOf(d)
  <2>1. PICK f : Prefixes(f, s) /\ ValueOf(s) = f[Len(s)]
    BY <1>4, PrefixesExist
  <2>2. PICK g : Prefixes(g, d) /\ ValueOf(d) = g[Len(d)]
    BY PrefixesExist
  <2>3. g[k] = 0
    <3> DEFINE S == {n \in 0..k : g[n] = 0}
    <3>1. 0 \in S
      BY <1>3, <2>2 DEF Prefixes
    <3>2. ASSUME NEW n \in 1..k, n - 1 \in S PROVE n \in S
      <4>1. n \in 1..Len(d) /\ d[n] = 0 /\ g[n-1] = 0
        BY <1>2, <1>3, <3>2
      <4>2. g[n] = 10 * g[n-1] + d[n]
        BY <2>2, <4>1 DEF Prefixes
      <4> QED
        BY <4>1, <4>2
    <3>3. 0..k \subseteq S
      <4> HIDE DEF S
      <4> QED
        BY <1>3, <3>1, <3>2, IntervalInduction
    <3> QED
      BY <1>3, <3>3
  <2> DEFINE n == Len(s)
  <2>4. n \in Nat /\ n \leq Len(s) /\ Len(s) + k = Len(d) /\ \A i \in 1..n : s[i] = d[i + k]
    BY <1>4, <1>5
  <2> HIDE DEF n
  <2>5. f[n] = g[n + k]
    BY ONLY <1>3, <1>4, <2>1, <2>2, <2>3, <2>4, d \in Seq(0..9), PrefixesAgree
  <2> QED
    BY ONLY <2>1, <2>2, <2>4, <2>5 DEF n
<1> QED
  BY <1>1, <1>4, <1>6, <1>7

(***************************************************************************)
(* A value is a natural number.                                            *)
(***************************************************************************)
LEMMA ValueNatural ==
  ASSUME NEW d \in Seq(0..9)
  PROVE  ValueOf(d) \in Nat
<1>1. PICK g : Prefixes(g, d) /\ ValueOf(d) = g[Len(d)]
  BY PrefixesExist
<1>2. Len(d) \in 0..Len(d)
  OBVIOUS
<1> QED
  BY <1>1, <1>2 DEF Prefixes

(***************************************************************************)
(* AtMost compares numbers of any length by their digits.                  *)
(***************************************************************************)
LEMMA AtMostCorrect ==
  ASSUME NEW a \in Seq(0..9), NEW b \in Seq(0..9)
  PROVE  AtMost(a, b) <=> ValueOf(a) \leq ValueOf(b)
<1> DEFINE x == Significant(a)  y == Significant(b)
           Smaller(v, w) == \E n \in 1..Len(v) : v[n] < w[n] /\ \A i \in 1..n-1 : v[i] = w[i]
<1>1. /\ x \in Seq(0..9) /\ ValueOf(x) = ValueOf(a)
      /\ y \in Seq(0..9) /\ ValueOf(y) = ValueOf(b)
      /\ Len(x) > 0 => x[1] # 0
      /\ Len(y) > 0 => y[1] # 0
  BY SignificantValue
<1>2. AtMost(a, b) <=> Len(x) < Len(y) \/ (Len(x) = Len(y) /\ (x = y \/ Smaller(x, y)))
  BY DEF AtMost
<1>3. ValueOf(x) \in Nat /\ ValueOf(y) \in Nat
  BY <1>1, ValueNatural
<1> HIDE DEF x, y
<1>4. CASE Len(x) < Len(y)
  <2>1. Len(y) > 0
    BY <1>1, <1>4
  <2>2. ValueOf(x) < ValueOf(y)
    BY <1>1, <1>4, <2>1, ShorterBelow
  <2> QED
    BY <1>1, <1>2, <1>3, <1>4, <2>2
<1>5. CASE Len(y) < Len(x)
  <2>1. Len(x) > 0
    BY <1>1, <1>5
  <2>2. ValueOf(y) < ValueOf(x)
    BY <1>1, <1>5, <2>1, ShorterBelow
  <2> QED
    BY <1>1, <1>2, <1>3, <1>5, <2>2
<1>6. CASE Len(x) = Len(y)
  <2>1. CASE x = y
    BY <1>1, <1>2, <1>3, <1>6, <2>1
  <2>2. CASE Smaller(x, y)
    <3>1. ValueOf(x) < ValueOf(y)
      BY <1>1, <1>6, <2>2, SmallerDigit
    <3> QED
      BY <1>1, <1>2, <1>3, <1>6, <2>2, <3>1
  <2>3. CASE Smaller(y, x)
    <3>1. ValueOf(y) < ValueOf(x)
      BY <1>1, <1>6, <2>3, SmallerDigit
    <3>2. x # y
      BY <1>3, <3>1
    <3>3. ~ Smaller(x, y)
      <4> SUFFICES ASSUME Smaller(x, y) PROVE FALSE
        OBVIOUS
      <4>1. ValueOf(x) < ValueOf(y)
        BY <1>1, <1>6, SmallerDigit
      <4> QED
        BY <1>3, <3>1, <4>1
    <3> QED
      BY <1>1, <1>2, <1>3, <1>6, <3>1, <3>2, <3>3
  <2>4. x = y \/ Smaller(x, y) \/ Smaller(y, x)
    <3> SUFFICES ASSUME x # y PROVE Smaller(x, y) \/ Smaller(y, x)
      OBVIOUS
    <3>1. PICK n \in 1..Len(x) : x[n] # y[n] /\ \A i \in 1..n-1 : x[i] = y[i]
      BY <1>1, <1>6, FirstDifference
    <3>2. x[n] \in 0..9 /\ y[n] \in 0..9
      BY <1>1, <1>6
    <3>3. x[n] < y[n] \/ y[n] < x[n]
      BY <3>1, <3>2
    <3> QED
      BY <1>6, <3>1, <3>3
  <2> QED
    BY <2>1, <2>2, <2>3, <2>4
<1>7. Len(x) \in Nat /\ Len(y) \in Nat
  BY <1>1
<1> QED
  BY <1>4, <1>5, <1>6, <1>7

(***************************************************************************)
(* The bounds that are written in digits are those of the code.            *)
(***************************************************************************)
LEMMA BoundsValue ==
  ASSUME NEW option \in Numbers
  PROVE  /\ Bounds(option)[1] \in Seq(0..9) /\ Bounds(option)[2] \in Seq(0..9)
         /\ ValueOf(Bounds(option)[1]) = Least(option)
         /\ ValueOf(Bounds(option)[2]) = Greatest(option)
<1>1. /\ <<1>> \in Seq(0..9) /\ <<1,0,2,4>> \in Seq(0..9) /\ <<6,5,5,3,5>> \in Seq(0..9)
      /\ <<6,7,1,0,8,8,6,4>> \in Seq(0..9) /\ <<6,0,0,0,0>> \in Seq(0..9)
      /\ <<3,0,0,0,0,0>> \in Seq(0..9)
  OBVIOUS
<1>2. ValueOf(<<1>>) = 1
  <2>1. PICK g : Prefixes(g, <<1>>) /\ ValueOf(<<1>>) = g[1]
    BY <1>1, PrefixesExist
  <2>2. g[0] = 0 /\ g[1] = 10 * g[0] + 1
    BY <2>1 DEF Prefixes
  <2> QED
    BY <2>1, <2>2
<1>3. ValueOf(<<1,0,2,4>>) = 1024
  <2>1. PICK g : Prefixes(g, <<1,0,2,4>>) /\ ValueOf(<<1,0,2,4>>) = g[4]
    BY <1>1, PrefixesExist
  <2>2. g[0] = 0 /\ g[1] = 10 * g[0] + 1 /\ g[2] = 10 * g[1] + 0 /\ g[3] = 10 * g[2] + 2
        /\ g[4] = 10 * g[3] + 4
    BY <2>1 DEF Prefixes
  <2> QED
    BY <2>1, <2>2
<1>4. ValueOf(<<6,5,5,3,5>>) = 65535
  <2>1. PICK g : Prefixes(g, <<6,5,5,3,5>>) /\ ValueOf(<<6,5,5,3,5>>) = g[5]
    BY <1>1, PrefixesExist
  <2>2. g[0] = 0 /\ g[1] = 10 * g[0] + 6 /\ g[2] = 10 * g[1] + 5 /\ g[3] = 10 * g[2] + 5
        /\ g[4] = 10 * g[3] + 3 /\ g[5] = 10 * g[4] + 5
    BY <2>1 DEF Prefixes
  <2> QED
    BY <2>1, <2>2
<1>5. ValueOf(<<6,7,1,0,8,8,6,4>>) = 64 * 1024 * 1024
  <2>1. PICK g : Prefixes(g, <<6,7,1,0,8,8,6,4>>) /\ ValueOf(<<6,7,1,0,8,8,6,4>>) = g[8]
    BY <1>1, PrefixesExist
  <2>2. g[0] = 0 /\ g[1] = 10 * g[0] + 6 /\ g[2] = 10 * g[1] + 7 /\ g[3] = 10 * g[2] + 1
        /\ g[4] = 10 * g[3] + 0 /\ g[5] = 10 * g[4] + 8 /\ g[6] = 10 * g[5] + 8
        /\ g[7] = 10 * g[6] + 6 /\ g[8] = 10 * g[7] + 4
    BY <2>1 DEF Prefixes
  <2> QED
    BY <2>1, <2>2
<1>6. ValueOf(<<6,0,0,0,0>>) = 60000
  <2>1. PICK g : Prefixes(g, <<6,0,0,0,0>>) /\ ValueOf(<<6,0,0,0,0>>) = g[5]
    BY <1>1, PrefixesExist
  <2>2. g[0] = 0 /\ g[1] = 10 * g[0] + 6 /\ g[2] = 10 * g[1] + 0 /\ g[3] = 10 * g[2] + 0
        /\ g[4] = 10 * g[3] + 0 /\ g[5] = 10 * g[4] + 0
    BY <2>1 DEF Prefixes
  <2> QED
    BY <2>1, <2>2
<1>7. ValueOf(<<3,0,0,0,0,0>>) = 300000
  <2>1. PICK g : Prefixes(g, <<3,0,0,0,0,0>>) /\ ValueOf(<<3,0,0,0,0,0>>) = g[6]
    BY <1>1, PrefixesExist
  <2>2. g[0] = 0 /\ g[1] = 10 * g[0] + 3 /\ g[2] = 10 * g[1] + 0 /\ g[3] = 10 * g[2] + 0
        /\ g[4] = 10 * g[3] + 0 /\ g[5] = 10 * g[4] + 0 /\ g[6] = 10 * g[5] + 0
    BY <2>1 DEF Prefixes
  <2> QED
    BY <2>1, <2>2
<1>8. CASE option = "--connect-port"
  BY <1>1, <1>2, <1>4, <1>8 DEF Bounds, Least, Greatest
<1>9. CASE option = "--max-frame-bytes"
  BY <1>1, <1>3, <1>5, <1>9 DEF Bounds, Least, Greatest
<1>10. CASE option = "--reconnect-initial-ms"
  BY <1>1, <1>2, <1>6, <1>10 DEF Bounds, Least, Greatest
<1>11. CASE option = "--reconnect-max-ms"
  BY <1>1, <1>2, <1>7, <1>11 DEF Bounds, Least, Greatest
<1> QED
  BY <1>8, <1>9, <1>10, <1>11 DEF Numbers

(***************************************************************************)
(* ParseUnsigned accepts a value exactly when it is a number within the    *)
(* range of its option, and returns what is written.                       *)
(***************************************************************************)
LEMMA NumberAccepted ==
  ASSUME NEW text, IsArgument(text), NEW option \in Numbers
  PROVE  LET parsed == ParseUnsigned(text, Greatest(option))
         IN  /\ parsed \in Int
             /\ parsed \geq Least(option) <=> IsNumberFor(option, text.digits)
             /\ parsed \geq Least(option) => parsed = ValueOf(Significant(text.digits))
<1> DEFINE d == text.digits
           max == Greatest(option)
           parsed == ParseUnsigned(text, max)
<1>1. max \in Nat /\ max \geq 9 /\ Least(option) \in Nat /\ Least(option) > 0
  BY DEF Numbers, Greatest, Least
<1>2. parsed = IF d # <<>> THEN Exactly(max, ValueOf(d), Len(d), d) ELSE Bad
  BY <1>1, ParseUnsignedCorrect
<1>3. d \in Seq(0..NotDigit)
  BY DEF IsArgument
<1> HIDE DEF d, max, parsed
<1>4. CASE d = <<>> \/ \E n \in 1..Len(d) : d[n] = NotDigit
  <2>1. parsed = Bad
    BY ONLY <1>2, <1>4 DEF Exactly
  <2>2. ~ IsNumberFor(option, d)
    BY <1>3, <1>4 DEF IsNumberFor
  <2>3. parsed \in Int /\ ~ (parsed \geq Least(option))
    BY ONLY <1>1, <2>1 DEF Bad
  <2> QED
    BY <2>2, <2>3 DEF d, max, parsed
<1>5. CASE d # <<>> /\ \A n \in 1..Len(d) : d[n] # NotDigit
  <2>1. d \in Seq(0..9)
    <3>1. \A n \in 1..Len(d) : d[n] \in 0..9
      BY ONLY <1>3, <1>5 DEF NotDigit
    <3> QED
      BY ONLY <1>3, <3>1
  <2>2. ValueOf(d) \in Nat /\ ValueOf(Significant(d)) = ValueOf(d)
    BY <2>1, ValueNatural, SignificantValue
  <2>3. parsed = IF ValueOf(d) \leq max THEN ValueOf(d) ELSE Bad
    BY ONLY <1>2, <1>5 DEF Exactly
  <2>4. IsNumberFor(option, d) <=> Least(option) \leq ValueOf(d) /\ ValueOf(d) \leq max
    <3>1. DOMAIN d = 1..Len(d)
      BY ONLY <2>1
    <3>2. AtMost(Bounds(option)[1], d) <=> Least(option) \leq ValueOf(d)
      BY <2>1, BoundsValue, AtMostCorrect
    <3>3. AtMost(d, Bounds(option)[2]) <=> ValueOf(d) \leq max
      BY <2>1, BoundsValue, AtMostCorrect DEF max
    <3> QED
      BY ONLY <1>5, <3>1, <3>2, <3>3 DEF IsNumberFor
  <2>5. /\ parsed \in Int
        /\ parsed \geq Least(option) <=> IsNumberFor(option, d)
        /\ parsed \geq Least(option) => parsed = ValueOf(d)
    BY ONLY <1>1, <2>2, <2>3, <2>4 DEF Bad
  <2> QED
    BY <2>2, <2>5 DEF d, max, parsed
<1> QED
  BY <1>4, <1>5

-----------------------------------------------------------------------------
(***************************************************************************)
(* The inductive invariant, in layers; each is preserved given the ones    *)
(* before it. First the control: where the process is, and that an error   *)
(* is only recorded when the session ends.                                 *)
(***************************************************************************)
Starting  == pc \in {"parse", "initialize", "run"}
Receiving == pc \in {"check", "poll", "recv", "handle"}
Finishing == pc \in {"ended", "closing", "closed", "shutdown", "exited"}

ControlInv ==
  /\ Starting \/ pc = "send" \/ Receiving \/ Finishing
  /\ stop \in BOOLEAN /\ error \in Reasons
  /\ status \in {Running, Killed, 0, 2, 3}
  /\ status # Running <=> pc = "exited"
  /\ sending \in {"none", "hello", "status", "reply", "response"}
  /\ part \in {"header", "payload"}
  /\ proxy \in {"open", "closed", "reset", "shut"}
  /\ ~Finishing => error = "none"

(***************************************************************************)
(* The control part holds initially.                                       *)
(***************************************************************************)
LEMMA ControlInit == Init => ControlInv
  BY DEF Init, ControlInv, Starting, Reasons, Running, Killed

(***************************************************************************)
(* The exit statuses differ from the mark of a running process.            *)
(***************************************************************************)
LEMMA StatusCodes == Running \notin {Killed, 0, 2, 3}
  BY DEF Running, Killed

\* What the callbacks, and a proxy that reads, can change for the main thread: a
\* callback may shut the connection down.
Aside ==
  /\ UNCHANGED <<pc, stop, error, limit, sending, left, receiveVars, script, written, taken>>
  /\ proxy' \in {proxy, "shut"}

(***************************************************************************)
(* The callbacks and a proxy that reads do no more than that.              *)
(***************************************************************************)
LEMMA AsideSteps ==
  ASSUME CallbackStep \/ ProxyReads
  PROVE  Aside
<1> USE DEF Aside, receiveVars, GivesUp
<1>1. CASE CallbackBegins
  BY <1>1 DEF CallbackBegins
<1>2. CASE CallbackSends
  BY <1>2 DEF CallbackSends
<1>3. CASE CallbackFails
  BY <1>3 DEF CallbackFails
<1>4. CASE WorkerFinishes
  BY <1>4 DEF WorkerFinishes, proxyVars
<1>5. CASE ProxyReads
  BY <1>5 DEF ProxyReads, sendVars
<1> QED
  BY <1>1, <1>2, <1>3, <1>4, <1>5 DEF CallbackStep

SamePart == UNCHANGED <<part, need, buf, timeout, now, started, pollLeft>>

(***************************************************************************)
(* A failed send ends the session, or is the end of an inline callback.    *)
(***************************************************************************)
LEMMA SendFailsCases ==
  ASSUME SendFails
  PROVE  /\ pc = "send"
         /\ UNCHANGED <<stop, limit, sending, left, delivered, script, written, taken>>
         /\ proxy' \in {proxy, "shut"}
         /\ \/ StartReceive(0) /\ error' = error
            \/ SamePart /\ pc' = "ended" /\ error' = "send"
  BY DEF SendFails, SamePart, GivesUp, Fail, proxyVars

\* What comes after a frame is handled: the next frame, the end, or something to send.
Handled ==
  /\ pc = "handle" /\ delivered' = Append(delivered, buf)
  /\ UNCHANGED <<stop, limit, script, written, taken>>
  /\ proxy' \in {proxy, "shut"}
  /\ \/ StartReceive(0) /\ UNCHANGED <<error, sending, left>>
     \/ /\ SamePart /\ pc' = "ended" /\ error' \in {"handshake", "message"}
        /\ UNCHANGED <<sending, left>>
     \/ /\ SamePart /\ pc' = "send" /\ error' = error
        /\ sending' \in {"status", "reply", "response"}
        /\ left' \in 0 .. HeaderBytes + limit

(***************************************************************************)
(* Handling a frame leads to nothing else: status and replies fit every    *)
(* frame limit.                                                            *)
(***************************************************************************)
LEMMA HandleFrameCases ==
  ASSUME HandleFrame, limit \in Nat, limit \geq 1024
  PROVE  Handled
<1>1. /\ pc = "handle" /\ delivered' = Append(delivered, buf)
      /\ UNCHANGED <<stop, limit>>
  BY DEF HandleFrame
<1>2. ASSUME NEW type \in {"status", "reply", "response"}, NEW size \in Nat,
             Sendable(size), SendFrame(type, size), SamePart, UNCHANGED proxyVars
      PROVE  Handled
  <2>1. pc' = "send" /\ error' = error /\ sending' = type /\ left' = HeaderBytes + size
    BY <1>2 DEF SendFrame
  <2>2. left' \in 0 .. HeaderBytes + limit
    BY <1>2, <2>1 DEF Sendable, HeaderBytes
  <2> QED
    BY <1>1, <1>2, <2>1, <2>2 DEF Handled, proxyVars
<1>3. Sendable(StatusSize) /\ Sendable(PongSize) /\ StatusSize \in Nat /\ PongSize \in Nat
  BY DEF Sendable, StatusSize, PongSize
<1>4. CASE HandleHelloAck
  <2>1. CASE buf = HelloAck
    BY <1>2, <1>3, <1>4, <2>1 DEF HandleHelloAck, SamePart
  <2>2. CASE buf # HelloAck
    BY <1>1, <1>4, <2>2 DEF HandleHelloAck, Handled, SamePart, Fail, sendVars, proxyVars
  <2> QED
    BY <2>1, <2>2
<1>5. CASE IgnoreMessage
  BY <1>1, <1>5 DEF IgnoreMessage, Handled, sendVars, proxyVars
<1>6. CASE ReplyToMessage
  BY <1>2, <1>3, <1>6 DEF ReplyToMessage, SamePart
<1>7. CASE RefuseMessage
  BY <1>1, <1>7 DEF RefuseMessage, Handled, SamePart, Fail, sendVars, proxyVars
<1>8. CASE AcceptCall
  BY <1>1, <1>8 DEF AcceptCall, Handled, proxyVars
<1>9. CASE RejectCall
  <2>1. PICK size \in ResponseSizes :
          IF Sendable(size)
          THEN SendFrame("response", size) /\ SamePart /\ UNCHANGED proxyVars
          ELSE /\ GivesUp /\ StartReceive(0)
               /\ UNCHANGED <<error, sending, left, script, written, taken>>
    BY <1>9 DEF RejectCall, SamePart
  <2>2. size \in Nat
    BY DEF ResponseSizes, PongSize
  <2>3. CASE Sendable(size)
    BY <1>2, <2>1, <2>2, <2>3
  <2>4. CASE ~Sendable(size)
    BY <1>1, <2>1, <2>4 DEF Handled, GivesUp
  <2> QED
    BY <2>3, <2>4
<1> QED
  BY <1>4, <1>5, <1>6, <1>7, <1>8, <1>9 DEF HandleFrame, HandleMessage

\* The frame limit is in range when a frame is handled.
LimitUsable == pc = "handle" => limit \in Nat /\ limit \geq 1024

(***************************************************************************)
(* Every step preserves the control part.                                  *)
(***************************************************************************)
LEMMA ControlNext ==
  ASSUME ControlInv, LimitUsable, [Next]_vars
  PROVE  ControlInv'
<1> USE StatusCodes
    DEF ControlInv, Starting, Receiving, Finishing, Reasons, mainVars, sendVars, receiveVars,
            proxyVars, streamVars
<1>1. ASSUME ParseHelp PROVE ControlInv'
  BY <1>1 DEF ParseHelp, Exit
<1>2. ASSUME ParseRefuses PROVE ControlInv'
  BY <1>2 DEF ParseRefuses, Exit
<1>3. ASSUME ParseOption PROVE ControlInv'
  BY <1>3 DEF ParseOption
<1>4. ASSUME ParseEnds PROVE ControlInv'
  BY <1>4 DEF ParseEnds, Exit
<1>5. ASSUME Initialized PROVE ControlInv'
  BY <1>5 DEF Initialized
<1>6. ASSUME InitializeFails PROVE ControlInv'
  BY <1>6 DEF InitializeFails, Exit
<1>7. ASSUME RunReturns PROVE ControlInv'
  BY <1>7 DEF RunReturns
<1>8. ASSUME Connects PROVE ControlInv'
  BY <1>8 DEF Connects, SendFrame, Fail
<1>9. ASSUME ConnectFails PROVE ControlInv'
  BY <1>9 DEF ConnectFails, Fail
<1>10. ASSUME Signal PROVE ControlInv'
  <2>1. /\ stop' \in BOOLEAN /\ error' = error
        /\ sending' = sending /\ part' = part /\ proxy' = proxy
    BY <1>10 DEF Signal
  <2>2. CASE pc' = "exited" /\ status' = Killed
    BY <2>1, <2>2
  <2>3. CASE /\ pc \notin {"parse", "initialize", "exited"} /\ status' = status
             /\ pc' = pc \/ (pc \in {"poll", "recv"} /\ pc' = "check")
    BY <2>1, <2>3
  <2> QED
    BY <1>10, <2>2, <2>3 DEF Signal, Exit
<1>11. ASSUME Exited PROVE ControlInv'
  BY <1>11 DEF Exited, vars
<1>12. ASSUME SendSome, UNCHANGED mainVars PROVE ControlInv'
  BY <1>12 DEF SendSome, StartReceive
<1>13. ASSUME SendFails, UNCHANGED mainVars PROVE ControlInv'
  BY <1>13, SendFailsCases DEF StartReceive, SamePart
<1>14. ASSUME ReceiveStopped, UNCHANGED mainVars PROVE ControlInv'
  BY <1>14 DEF ReceiveStopped, Fail
<1>15. ASSUME ReceiveTimesOut, UNCHANGED mainVars PROVE ControlInv'
  BY <1>15 DEF ReceiveTimesOut, Fail
<1>16. ASSUME StartPoll, UNCHANGED mainVars PROVE ControlInv'
  BY <1>16 DEF StartPoll
<1>17. ASSUME HeaderReceived, UNCHANGED mainVars PROVE ControlInv'
  BY <1>17 DEF HeaderReceived, Fail
<1>18. ASSUME PayloadReceived, UNCHANGED mainVars PROVE ControlInv'
  BY <1>18 DEF PayloadReceived
<1>19. ASSUME PollDisconnected, UNCHANGED mainVars PROVE ControlInv'
  BY <1>19 DEF PollDisconnected, Fail
<1>20. ASSUME PollReady, UNCHANGED mainVars PROVE ControlInv'
  BY <1>20 DEF PollReady
<1>21. ASSUME PollExpires, UNCHANGED mainVars PROVE ControlInv'
  BY <1>21 DEF PollExpires
<1>22. ASSUME Tick, UNCHANGED mainVars PROVE ControlInv'
  BY <1>22 DEF Tick
<1>23. ASSUME Recv, UNCHANGED mainVars PROVE ControlInv'
  BY <1>23 DEF Recv
<1>24. ASSUME RecvEnds, UNCHANGED mainVars PROVE ControlInv'
  BY <1>24 DEF RecvEnds, Fail
<1>25. ASSUME RecvFails, UNCHANGED mainVars PROVE ControlInv'
  BY <1>25 DEF RecvFails, Fail
<1>26. ASSUME PollFails, UNCHANGED mainVars PROVE ControlInv'
  BY <1>26 DEF PollFails, Fail
<1>27. ASSUME ProxyWrites, UNCHANGED mainVars PROVE ControlInv'
  BY <1>27 DEF ProxyWrites
<1>28. ASSUME ProxyCloses, UNCHANGED mainVars PROVE ControlInv'
  BY <1>28, ZenonT(40) DEF ProxyCloses
<1>30. ASSUME HandleFrame, UNCHANGED mainVars PROVE ControlInv'
  <2>1. Handled
    BY <1>30, HandleFrameCases DEF HandleFrame, LimitUsable
  <2> QED
    BY <1>30, <2>1 DEF Handled, StartReceive, SamePart
<1>31. ASSUME CloseSession, UNCHANGED mainVars PROVE ControlInv'
  BY <1>31 DEF CloseSession
<1>32. ASSUME SessionEnds, UNCHANGED mainVars PROVE ControlInv'
  BY <1>32 DEF SessionEnds
<1>33. ASSUME LlmShutdown PROVE ControlInv'
  BY <1>33 DEF LlmShutdown, Exit
<1>34. ASSUME CallbackStep \/ ProxyReads, UNCHANGED mainVars PROVE ControlInv'
  <2>1. Aside
    BY <1>34, AsideSteps
  <2>2. UNCHANGED <<pc, stop, error, sending, part, status>>
    BY <1>34, <2>1 DEF Aside
  <2>3. proxy' \in {proxy, "shut"}
    BY <2>1 DEF Aside
  <2>4. proxy' \in {"open", "closed", "reset", "shut"}
    BY <2>3
  <2> QED
    BY ONLY <2>2, <2>4, ControlInv DEF ControlInv, Starting, Receiving, Finishing
<1>29. CASE UNCHANGED vars
  BY <1>29, ZenonT(40) DEF vars
<1> QED
  BY <1>1, <1>2, <1>3, <1>4, <1>5, <1>6, <1>7, <1>8, <1>9, <1>10, <1>11, <1>12,
     <1>13, <1>14, <1>15, <1>16, <1>17, <1>18, <1>19, <1>20, <1>21, <1>22, <1>23,
     <1>24, <1>25, <1>26, <1>27, <1>28, <1>29, <1>30, <1>31, <1>32, <1>33, <1>34
  DEF Next, MainStep, StreamNext, SessionStep, CloseStep, ProxyStep, SendStep,
      ReceiveStep
-----------------------------------------------------------------------------

\* The clock.  While poll waits, the rest of the wait still fits before the end of
\* the model's clock; without a timeout the clock stands still.
ClockInv ==
  /\ timeout \in {0, HandshakeTimeout} /\ started = 0
  /\ now \in Nat /\ (timeout = 0 => now = 0)
  /\ pollLeft \in 0..PollInterval
  /\ now + pollLeft < ClockMax

(***************************************************************************)
(* The clock part holds initially.                                         *)
(***************************************************************************)
LEMMA ClockInit == Init => ClockInv
  BY StreamAssumption DEF Init, ClockInv, ClockMax

(***************************************************************************)
(* Every step preserves the clock part: a poll is started only before the  *)
(* deadline, and ticks move time from pollLeft to now.                     *)
(***************************************************************************)
LEMMA ClockNext ==
  ASSUME ClockInv, LimitUsable, [Next]_vars
  PROVE  ClockInv'
<1> USE StreamAssumption
    DEF ClockInv, ClockMax, mainVars, sendVars, receiveVars, proxyVars, streamVars
<1>1. ASSUME ParseHelp PROVE ClockInv'
  BY <1>1 DEF ParseHelp, Exit
<1>2. ASSUME ParseRefuses PROVE ClockInv'
  BY <1>2 DEF ParseRefuses, Exit
<1>3. ASSUME ParseOption PROVE ClockInv'
  BY <1>3 DEF ParseOption
<1>4. ASSUME ParseEnds PROVE ClockInv'
  BY <1>4 DEF ParseEnds, Exit
<1>5. ASSUME Initialized PROVE ClockInv'
  BY <1>5 DEF Initialized
<1>6. ASSUME InitializeFails PROVE ClockInv'
  BY <1>6 DEF InitializeFails, Exit
<1>7. ASSUME RunReturns PROVE ClockInv'
  BY <1>7 DEF RunReturns, Exit
<1>8. ASSUME Connects PROVE ClockInv'
  BY <1>8 DEF Connects, SendFrame, Fail
<1>9. ASSUME ConnectFails PROVE ClockInv'
  BY <1>9 DEF ConnectFails, Fail
<1>10. ASSUME Signal PROVE ClockInv'
  BY <1>10 DEF Signal, Exit
<1>11. ASSUME Exited PROVE ClockInv'
  BY <1>11 DEF Exited, vars
<1>12. ASSUME SendSome, UNCHANGED mainVars PROVE ClockInv'
  BY <1>12 DEF SendSome, StartReceive
<1>13. ASSUME SendFails, UNCHANGED mainVars PROVE ClockInv'
  BY <1>13, SendFailsCases DEF StartReceive, SamePart
<1>14. ASSUME ReceiveStopped, UNCHANGED mainVars PROVE ClockInv'
  BY <1>14 DEF ReceiveStopped, Fail
<1>15. ASSUME ReceiveTimesOut, UNCHANGED mainVars PROVE ClockInv'
  BY <1>15 DEF ReceiveTimesOut, Fail
<1>16. ASSUME StartPoll, UNCHANGED mainVars PROVE ClockInv'
  BY <1>16 DEF StartPoll, TimedOut
<1>17. ASSUME HeaderReceived, UNCHANGED mainVars PROVE ClockInv'
  BY <1>17 DEF HeaderReceived, Fail, StartedForPayload
<1>18. ASSUME PayloadReceived, UNCHANGED mainVars PROVE ClockInv'
  BY <1>18 DEF PayloadReceived
<1>19. ASSUME PollDisconnected, UNCHANGED mainVars PROVE ClockInv'
  BY <1>19 DEF PollDisconnected, Fail
<1>20. ASSUME PollReady, UNCHANGED mainVars PROVE ClockInv'
  BY <1>20 DEF PollReady
<1>21. ASSUME PollExpires, UNCHANGED mainVars PROVE ClockInv'
  BY <1>21 DEF PollExpires
<1>22. ASSUME Tick, UNCHANGED mainVars PROVE ClockInv'
  BY <1>22 DEF Tick
<1>23. ASSUME Recv, UNCHANGED mainVars PROVE ClockInv'
  BY <1>23 DEF Recv
<1>24. ASSUME RecvEnds, UNCHANGED mainVars PROVE ClockInv'
  BY <1>24 DEF RecvEnds, Fail
<1>25. ASSUME RecvFails, UNCHANGED mainVars PROVE ClockInv'
  BY <1>25 DEF RecvFails, Fail
<1>26. ASSUME PollFails, UNCHANGED mainVars PROVE ClockInv'
  BY <1>26 DEF PollFails, Fail
<1>27. ASSUME ProxyWrites, UNCHANGED mainVars PROVE ClockInv'
  BY <1>27 DEF ProxyWrites
<1>28. ASSUME ProxyCloses, UNCHANGED mainVars PROVE ClockInv'
  BY <1>28 DEF ProxyCloses
<1>30. ASSUME HandleFrame, UNCHANGED mainVars PROVE ClockInv'
  <2>1. Handled
    BY <1>30, HandleFrameCases DEF HandleFrame, LimitUsable
  <2>2. \/ UNCHANGED <<timeout, now, started, pollLeft>>
        \/ timeout' = 0 /\ now' = 0 /\ started' = 0 /\ pollLeft' = 0
    BY <2>1 DEF Handled, StartReceive, SamePart
  <2> QED
    BY <2>2
<1>31. ASSUME CloseSession, UNCHANGED mainVars PROVE ClockInv'
  BY <1>31 DEF CloseSession
<1>32. ASSUME SessionEnds, UNCHANGED mainVars PROVE ClockInv'
  BY <1>32 DEF SessionEnds
<1>33. ASSUME LlmShutdown PROVE ClockInv'
  BY <1>33 DEF LlmShutdown, Exit
<1>34. ASSUME CallbackStep \/ ProxyReads, UNCHANGED mainVars PROVE ClockInv'
  <2>1. Aside
    BY <1>34, AsideSteps
  <2> QED
    BY <2>1 DEF Aside
<1>29. CASE UNCHANGED vars
  BY <1>29 DEF vars
<1> QED
  BY <1>1, <1>2, <1>3, <1>4, <1>5, <1>6, <1>7, <1>8, <1>9, <1>10, <1>11, <1>12,
     <1>13, <1>14, <1>15, <1>16, <1>17, <1>18, <1>19, <1>20, <1>21, <1>22, <1>23,
     <1>24, <1>25, <1>26, <1>27, <1>28, <1>29, <1>30, <1>31, <1>32, <1>33, <1>34
  DEF Next, MainStep, StreamNext, SessionStep, CloseStep, ProxyStep, SendStep,
      ReceiveStep
-----------------------------------------------------------------------------

\* The options: what has been accepted so far is in range, and the connection uses it.
MainInv ==
  /\ pc = "parse" => argv \in CommandLines /\ index \in Nat \ {0}
  /\ DOMAIN options = Numbers \cup Texts
  /\ options["--max-frame-bytes"] \in Limits
  /\ IsArgument(options["--auth-token"])
  /\ pc \in {"initialize", "run"} => TokenValid(options["--auth-token"])
  /\ limit \in {0} \cup Limits
  /\ pc \in {"parse", "initialize"} => limit = 0
  /\ pc = "run" \/ pc = "send" \/ Receiving \/ (Finishing /\ pc # "exited")
       => limit \in Limits

(***************************************************************************)
(* A number accepted for --max-frame-bytes is one of Limits.               *)
(***************************************************************************)
LEMMA LimitAsked ==
  ASSUME NEW line \in CommandLines, NEW n \in 1..Len(line),
         ParseUnsigned(line[n], Greatest("--max-frame-bytes"))
           \geq Least("--max-frame-bytes")
  PROVE  ParseUnsigned(line[n], Greatest("--max-frame-bytes")) \in Limits
<1>1. n \in DOMAIN line
  BY ArgumentsAssumption
<1> QED
  BY <1>1 DEF Limits

(***************************************************************************)
(* Every frame limit is a number, and at least 1024.                       *)
(***************************************************************************)
LEMMA LimitsRange == Limits \subseteq {n \in Nat : n \geq 1024}
<1> DEFINE option == "--max-frame-bytes"
<1>1. Greatest(option) = 64 * 1024 * 1024 /\ Least(option) = 1024
  BY DEF Greatest, Least
<1>2. Defaults[option] \in Nat
  <2>1. Defaults[option] = 8 * 1024 * 1024
    BY DEF Defaults, Numbers
  <2> QED
    BY <2>1
<1>3. ASSUME NEW line \in CommandLines, NEW n \in DOMAIN line,
             ParseUnsigned(line[n], Greatest(option)) \geq 1024
      PROVE  ParseUnsigned(line[n], Greatest(option)) \in Nat
  <2>1. IsArgument(line[n])
    BY ArgumentsAssumption
  <2>2. line[n].digits \in Seq(0..NotDigit)
    BY <2>1 DEF IsArgument
  <2>3. ValueOf(line[n].digits) \in Nat
    <3>1. PICK g \in [0..Len(line[n].digits) -> Nat] :
             ValueOf(line[n].digits) = g[Len(line[n].digits)]
      BY <2>2, DecimalEquation
    <3>2. Len(line[n].digits) \in 0..Len(line[n].digits)
      BY <2>2
    <3> QED
      BY <3>1, <3>2
  <2>4. ParseUnsigned(line[n], Greatest(option)) \in {Bad} \cup 0..Greatest(option)
    <3>1. Greatest(option) \in Nat /\ Greatest(option) \geq 9
      BY <1>1, SMT
    <3> HIDE DEF option
    <3> QED
      BY <2>1, <2>3, <3>1, ParseUnsignedCorrect DEF Exactly
  <2> QED
    BY <1>3, <2>4 DEF Bad
<1> HIDE DEF option
<1>4. SUFFICES ASSUME NEW max \in Limits PROVE max \in Nat /\ max \geq 1024
  OBVIOUS
<1>5. /\ max \geq Least(option)
      /\ \/ max = Defaults[option]
         \/ \E line \in CommandLines : \E n \in DOMAIN line :
              max = ParseUnsigned(line[n], Greatest(option))
  BY DEF Limits, option
<1> QED
  BY <1>1, <1>2, <1>3, <1>5

(***************************************************************************)
(* A frame is handled within one of these limits.                          *)
(***************************************************************************)
LEMMA LimitInRange ==
  ASSUME MainInv
  PROVE  LimitUsable
<1> SUFFICES ASSUME pc = "handle" PROVE limit \in Nat /\ limit \geq 1024
  BY DEF LimitUsable
<1>1. limit \in Limits
  BY DEF MainInv, Receiving
<1> QED
  BY ONLY <1>1, LimitsRange

(***************************************************************************)
(* The empty argument is an argument.                                      *)
(***************************************************************************)
LEMMA DefaultToken == IsArgument(Nothing)
  BY DEF Nothing, IsArgument

(***************************************************************************)
(* The part about the options holds initially.                             *)
(***************************************************************************)
LEMMA MainInit == Init => MainInv
<1> SUFFICES ASSUME Init PROVE MainInv
  OBVIOUS
<1>1. DOMAIN options = Numbers \cup Texts
  BY DEF Init, Defaults
<1>2. options["--max-frame-bytes"] \in Limits
  <2>1. Defaults["--max-frame-bytes"] = 8 * 1024 * 1024
    BY DEF Defaults, Numbers
  <2> QED
    BY <2>1 DEF Init, Limits, Least
<1>3. options["--auth-token"] = Nothing
  BY DEF Init, Defaults, Numbers, Texts
<1> QED
  BY <1>1, <1>2, <1>3, DefaultToken DEF Init, MainInv, Receiving, Finishing

\* Steps that leave the options and the limit alone, and do not go back.
KeepsOptions ==
  /\ UNCHANGED <<options, limit>>
  /\ \/ pc' = "exited"
     \/ /\ pc \notin {"parse", "initialize", "exited"}
        /\ pc' = pc \/ pc' = "send" \/ Receiving' \/ Finishing'

(***************************************************************************)
(* Such steps preserve the part about the options.                         *)
(***************************************************************************)
LEMMA OptionsKept ==
  ASSUME ControlInv, MainInv, KeepsOptions
  PROVE  MainInv'
<1>1. CASE pc' = "exited"
  BY <1>1 DEF MainInv, KeepsOptions, Receiving, Finishing
<1>2. CASE /\ pc \notin {"parse", "initialize", "exited"}
           /\ pc' = "send" \/ Receiving' \/ Finishing'
  <2>1. limit \in Limits
    BY <1>2 DEF ControlInv, MainInv, Starting, Receiving, Finishing
  <2>2. pc' \notin {"parse", "initialize", "run"}
    BY <1>2 DEF Receiving, Finishing
  <2> QED
    BY <2>1, <2>2 DEF MainInv, KeepsOptions
<1>3. CASE pc \notin {"parse", "initialize"} /\ pc' = pc
  BY <1>3 DEF MainInv, KeepsOptions, TokenValid, Size, Receiving, Finishing
<1> QED
  BY <1>1, <1>2, <1>3 DEF KeepsOptions

(***************************************************************************)
(* Every step preserves the part about the options.                        *)
(***************************************************************************)
LEMMA MainNext ==
  ASSUME ControlInv, MainInv, [Next]_vars
  PROVE  MainInv'
<1> USE OptionsKept
    DEF KeepsOptions, Receiving, Finishing, mainVars, sendVars, receiveVars, proxyVars, streamVars
<1>1. ASSUME ParseHelp PROVE MainInv'
  BY <1>1 DEF ParseHelp, Exit
<1>2. ASSUME ParseRefuses PROVE MainInv'
  BY <1>2 DEF ParseRefuses, Exit
<1>3. ASSUME ParseOption PROVE MainInv'
  <2> DEFINE value  == argv[index + 1]
             number == ParseUnsigned(value, Greatest(Option))
  <2>1. /\ pc = "parse" /\ pc' = pc /\ index' = index + 2 
        /\ limit' = limit /\ argv' = argv /\ index < Len(argv)
    BY <1>3 DEF ParseOption
  <2>2. \/ Option \in Texts /\ options' = [options EXCEPT ![Option] = value]
        \/ /\ Option \in Numbers /\ number \geq Least(Option)
           /\ options' = [options EXCEPT ![Option] = number]
    BY <1>3 DEF ParseOption
  <2>3. /\ argv \in Seq({argv[n] : n \in DOMAIN argv})
        /\ index \in Nat \ {0} /\ argv \in CommandLines
    BY <2>1, ArgumentsAssumption DEF MainInv
  <2>4. index + 1 \in 1..Len(argv)
    BY <2>1, <2>3
  <2>5. IsArgument(value)
    BY <2>3, <2>4, ArgumentsAssumption
  <2>6. Option = "--max-frame-bytes" /\ number \geq Least(Option) => number \in Limits
    BY <2>3, <2>4, LimitAsked
  <2> HIDE DEF number, value
  <2>7. DOMAIN options' = Numbers \cup Texts
    BY <2>2 DEF MainInv
  <2>8. options'["--max-frame-bytes"] \in Limits
    <3>1. "--max-frame-bytes" \in DOMAIN options /\ "--max-frame-bytes" \notin Texts
      BY DEF MainInv, Numbers, Texts
    <3> QED
      BY <2>2, <2>6, <3>1 DEF MainInv
  <2>9. IsArgument(options'["--auth-token"])
    <3>1. "--auth-token" \in DOMAIN options /\ "--auth-token" \notin Numbers
      BY DEF MainInv, Numbers, Texts
    <3> QED
      BY <2>2, <2>5, <3>1 DEF MainInv
  <2> QED
    BY <2>1, <2>3, <2>7, <2>8, <2>9 DEF MainInv
<1>4. ASSUME ParseEnds PROVE MainInv'
  BY <1>4 DEF ParseEnds, Exit, OptionsComplete, MainInv
<1>5. ASSUME Initialized PROVE MainInv'
  BY <1>5 DEF Initialized, MainInv
<1>6. ASSUME InitializeFails PROVE MainInv'
  BY <1>6 DEF InitializeFails, Exit
<1>7. ASSUME RunReturns PROVE MainInv'
  BY <1>7 DEF RunReturns
<1>8. ASSUME Connects PROVE MainInv'
  BY <1>8 DEF Connects, SendFrame, Fail
<1>9. ASSUME ConnectFails PROVE MainInv'
  BY <1>9 DEF ConnectFails, Fail
<1>10. ASSUME Signal PROVE MainInv'
  BY <1>10 DEF Signal, Exit
<1>11. ASSUME Exited PROVE MainInv'
  BY <1>11 DEF Exited, vars, MainInv
<1>12. ASSUME SendSome, UNCHANGED mainVars PROVE MainInv'
  BY <1>12 DEF SendSome, StartReceive
<1>13. ASSUME SendFails, UNCHANGED mainVars PROVE MainInv'
  BY <1>13, SendFailsCases DEF StartReceive
<1>14. ASSUME ReceiveStopped, UNCHANGED mainVars PROVE MainInv'
  BY <1>14 DEF ReceiveStopped, Fail
<1>15. ASSUME ReceiveTimesOut, UNCHANGED mainVars PROVE MainInv'
  BY <1>15 DEF ReceiveTimesOut, Fail
<1>16. ASSUME StartPoll, UNCHANGED mainVars PROVE MainInv'
  BY <1>16 DEF StartPoll
<1>17. ASSUME HeaderReceived, UNCHANGED mainVars PROVE MainInv'
  BY <1>17 DEF HeaderReceived, Fail
<1>18. ASSUME PayloadReceived, UNCHANGED mainVars PROVE MainInv'
  BY <1>18 DEF PayloadReceived
<1>19. ASSUME PollDisconnected, UNCHANGED mainVars PROVE MainInv'
  BY <1>19 DEF PollDisconnected, Fail
<1>20. ASSUME PollReady, UNCHANGED mainVars PROVE MainInv'
  BY <1>20 DEF PollReady
<1>21. ASSUME PollExpires, UNCHANGED mainVars PROVE MainInv'
  BY <1>21 DEF PollExpires
<1>22. ASSUME Tick, UNCHANGED mainVars PROVE MainInv'
  BY <1>22 DEF Tick
<1>23. ASSUME Recv, UNCHANGED mainVars PROVE MainInv'
  BY <1>23 DEF Recv
<1>24. ASSUME RecvEnds, UNCHANGED mainVars PROVE MainInv'
  BY <1>24 DEF RecvEnds, Fail
<1>25. ASSUME RecvFails, UNCHANGED mainVars PROVE MainInv'
  BY <1>25 DEF RecvFails, Fail
<1>26. ASSUME PollFails, UNCHANGED mainVars PROVE MainInv'
  BY <1>26 DEF PollFails, Fail
<1>27. ASSUME ProxyWrites, UNCHANGED mainVars PROVE MainInv'
  BY <1>27 DEF ProxyWrites, Greeted, InSession
<1>28. ASSUME ProxyCloses, UNCHANGED mainVars PROVE MainInv'
  BY <1>28 DEF ProxyCloses, Connected, InSession
<1>30. ASSUME HandleFrame, UNCHANGED mainVars PROVE MainInv'
  <2>1. Handled
    BY <1>30, HandleFrameCases, LimitInRange DEF HandleFrame, LimitUsable
  <2> QED
    BY <1>30, <2>1 DEF Handled, StartReceive
<1>31. ASSUME CloseSession, UNCHANGED mainVars PROVE MainInv'
  BY <1>31 DEF CloseSession
<1>32. ASSUME SessionEnds, UNCHANGED mainVars PROVE MainInv'
  BY <1>32 DEF SessionEnds
<1>33. ASSUME LlmShutdown PROVE MainInv'
  BY <1>33 DEF LlmShutdown, Exit
<1>34. ASSUME CallbackStep \/ ProxyReads, UNCHANGED mainVars PROVE MainInv'
  <2>1. Aside
    BY <1>34, AsideSteps
  <2>2. CASE pc \notin {"parse", "initialize"}
    BY <1>34, <2>1, <2>2 DEF Aside, MainInv
  <2>3. CASE pc \in {"parse", "initialize"}
    BY <1>34, <2>1, <2>3 DEF Aside, MainInv
  <2> QED
    BY <2>2, <2>3
<1>29. CASE UNCHANGED vars
  BY <1>29 DEF vars, MainInv
<1> QED
  BY <1>1, <1>2, <1>3, <1>4, <1>5, <1>6, <1>7, <1>8, <1>9, <1>10, <1>11, <1>12,
     <1>13, <1>14, <1>15, <1>16, <1>17, <1>18, <1>19, <1>20, <1>21, <1>22, <1>23,
     <1>24, <1>25, <1>26, <1>27, <1>28, <1>29, <1>30, <1>31, <1>32, <1>33, <1>34
  DEF Next, MainStep, StreamNext, SessionStep, CloseStep, ProxyStep, SendStep,
      ReceiveStep

(***************************************************************************)
(* The length of hello is a positive number.                               *)
(***************************************************************************)
LEMMA HelloSizePositive ==
  ASSUME NEW token, token.plain \in Nat, token.short \in Nat, token.control \in Nat
  PROVE  HelloSize(token) \in Nat /\ HelloSize(token) > 0
  BY DEF HelloSize

(***************************************************************************)
(* Every step preserves HelloFits: Connects, as the token has at most 512  *)
(* bytes and the limit is at least 1024, and nothing else is ever too      *)
(* long.                                                                   *)
(***************************************************************************)
LEMMA HelloNext ==
  ASSUME ControlInv, MainInv, HelloFits, [Next]_vars
  PROVE  HelloFits'
<1> USE DEF HelloFits, mainVars, sendVars, receiveVars, proxyVars, streamVars
<1>1. ASSUME ParseHelp PROVE HelloFits'
  BY <1>1 DEF ParseHelp, Exit
<1>2. ASSUME ParseRefuses PROVE HelloFits'
  BY <1>2 DEF ParseRefuses, Exit
<1>3. ASSUME ParseOption PROVE HelloFits'
  BY <1>3 DEF ParseOption, ControlInv, Finishing
<1>4. ASSUME ParseEnds PROVE HelloFits'
  BY <1>4 DEF ParseEnds, Exit
<1>5. ASSUME Initialized PROVE HelloFits'
  BY <1>5 DEF Initialized
<1>6. ASSUME InitializeFails PROVE HelloFits'
  BY <1>6 DEF InitializeFails, Exit
<1>7. ASSUME RunReturns PROVE HelloFits'
  BY <1>7 DEF RunReturns
<1>8. ASSUME Connects PROVE HelloFits'
  <2> DEFINE token == options["--auth-token"]
  <2>1. /\ IsArgument(token) /\ TokenValid(token)
        /\ limit \in Nat /\ limit \geq 1024
        /\ error = "none" /\ options' = options
    BY <1>8, LimitsRange DEF Connects, MainInv, ControlInv, Finishing
  <2>2. token.plain \in Nat /\ token.short \in Nat /\ token.control \in Nat
    BY <2>1 DEF IsArgument
  <2> HIDE DEF token
  <2>3. HelloSize(token) > limit => token.short + token.control > 0
    BY <2>1, <2>2 DEF HelloSize, TokenValid, Size
  <2>4. HelloSize(token) > 0 /\ HelloSize(token) \in Nat
    BY <2>2, HelloSizePositive
  <2>6. error' = error \/ HelloSize(token) > limit
    <3>1. ~Sendable(HelloSize(token)) => HelloSize(token) > limit
      BY <2>1, <2>4 DEF Sendable
    <3>2. SendFrame("hello", HelloSize(token))
      BY <1>8 DEF Connects, token
    <3> QED
      BY <3>1, <3>2 DEF SendFrame
  <2> QED
    BY <2>1, <2>3, <2>6 DEF token
<1>9. ASSUME ConnectFails PROVE HelloFits'
  BY <1>9 DEF ConnectFails, Fail
<1>10. ASSUME Signal PROVE HelloFits'
  BY <1>10 DEF Signal, Exit
<1>11. ASSUME Exited PROVE HelloFits'
  BY <1>11 DEF Exited, vars
<1>12. ASSUME SendSome, UNCHANGED mainVars PROVE HelloFits'
  BY <1>12 DEF SendSome, StartReceive
<1>13. ASSUME SendFails, UNCHANGED mainVars PROVE HelloFits'
  BY <1>13, SendFailsCases
<1>14. ASSUME ReceiveStopped, UNCHANGED mainVars PROVE HelloFits'
  BY <1>14 DEF ReceiveStopped, Fail
<1>15. ASSUME ReceiveTimesOut, UNCHANGED mainVars PROVE HelloFits'
  BY <1>15 DEF ReceiveTimesOut, Fail
<1>16. ASSUME StartPoll, UNCHANGED mainVars PROVE HelloFits'
  BY <1>16 DEF StartPoll
<1>17. ASSUME HeaderReceived, UNCHANGED mainVars PROVE HelloFits'
  BY <1>17 DEF HeaderReceived, Fail
<1>18. ASSUME PayloadReceived, UNCHANGED mainVars PROVE HelloFits'
  BY <1>18 DEF PayloadReceived
<1>19. ASSUME PollDisconnected, UNCHANGED mainVars PROVE HelloFits'
  BY <1>19 DEF PollDisconnected, Fail
<1>20. ASSUME PollReady, UNCHANGED mainVars PROVE HelloFits'
  BY <1>20 DEF PollReady
<1>21. ASSUME PollExpires, UNCHANGED mainVars PROVE HelloFits'
  BY <1>21 DEF PollExpires
<1>22. ASSUME Tick, UNCHANGED mainVars PROVE HelloFits'
  BY <1>22 DEF Tick
<1>23. ASSUME Recv, UNCHANGED mainVars PROVE HelloFits'
  BY <1>23 DEF Recv
<1>24. ASSUME RecvEnds, UNCHANGED mainVars PROVE HelloFits'
  BY <1>24 DEF RecvEnds, Fail
<1>25. ASSUME RecvFails, UNCHANGED mainVars PROVE HelloFits'
  BY <1>25 DEF RecvFails, Fail
<1>26. ASSUME PollFails, UNCHANGED mainVars PROVE HelloFits'
  BY <1>26 DEF PollFails, Fail
<1>27. ASSUME ProxyWrites, UNCHANGED mainVars PROVE HelloFits'
  BY <1>27 DEF ProxyWrites
<1>28. ASSUME ProxyCloses, UNCHANGED mainVars PROVE HelloFits'
  BY <1>28 DEF ProxyCloses
<1>30. ASSUME HandleFrame, UNCHANGED mainVars PROVE HelloFits'
  <2>1. Handled
    BY <1>30, HandleFrameCases, LimitInRange DEF HandleFrame, LimitUsable
  <2> QED
    BY <1>30, <2>1 DEF Handled
<1>31. ASSUME CloseSession, UNCHANGED mainVars PROVE HelloFits'
  BY <1>31 DEF CloseSession
<1>32. ASSUME SessionEnds, UNCHANGED mainVars PROVE HelloFits'
  BY <1>32 DEF SessionEnds
<1>33. ASSUME LlmShutdown PROVE HelloFits'
  BY <1>33 DEF LlmShutdown, Exit
<1>34. ASSUME CallbackStep \/ ProxyReads, UNCHANGED mainVars PROVE HelloFits'
  <2>1. Aside
    BY <1>34, AsideSteps
  <2> QED
    BY <1>34, <2>1 DEF Aside
<1>29. CASE UNCHANGED vars
  BY <1>29 DEF vars
<1> QED
  BY <1>1, <1>2, <1>3, <1>4, <1>5, <1>6, <1>7, <1>8, <1>9, <1>10, <1>11, <1>12,
     <1>13, <1>14, <1>15, <1>16, <1>17, <1>18, <1>19, <1>20, <1>21, <1>22, <1>23,
     <1>24, <1>25, <1>26, <1>27, <1>28, <1>29, <1>30, <1>31, <1>32, <1>33, <1>34
  DEF Next, MainStep, StreamNext, SessionStep, CloseStep, ProxyStep, SendStep,
      ReceiveStep
-----------------------------------------------------------------------------

\* Nothing has been sent, received or scripted yet.
Unread ==
  /\ left = 0
  /\ part = "header" /\ need = HeaderBytes /\ buf = <<>> /\ delivered = <<>>
  /\ script = <<>> /\ written = 0 /\ taken = 0

\* The types of what is sent and received.
DataInv ==
  /\ left \in 0 .. HeaderBytes + limit
  /\ need \in 1 .. (IF part = "header" THEN HeaderBytes ELSE limit)
  /\ part = "header" => need = HeaderBytes
  /\ buf \in Seq(Byte) /\ Len(buf) \leq need
  /\ delivered \in Seq(Seq(Byte))
  /\ written \in 0..Len(Bytes(script)) /\ taken \in 0..written
  /\ IsScript(script, limit)
  /\ Starting => Unread

(***************************************************************************)
(* A proxy that says nothing is described by a script.                     *)
(***************************************************************************)
LEMMA EmptyScript == ASSUME NEW max PROVE IsScript(<<>>, max)
  BY DEF IsScript

(***************************************************************************)
(* The types of the stream's data hold initially.                          *)
(***************************************************************************)
LEMMA DataInit == Init => DataInv
<1> SUFFICES ASSUME Init PROVE DataInv
  OBVIOUS
<1>1. Unread /\ limit = 0
  BY DEF Init, Unread
<1>2. Len(Bytes(script)) \in Nat
  <2>1. script \in Seq(String)
    BY <1>1 DEF Unread
  <2> QED
    BY <2>1, BytesOfScript
<1> QED
  BY <1>1, <1>2, EmptyScript DEF DataInv, Unread, HeaderBytes

(***************************************************************************)
(* The script's strings are byte strings, and so is the whole.             *)
(***************************************************************************)
LEMMA ScriptStrings ==
  ASSUME DataInv
  PROVE  /\ script \in Seq(String)
         /\ Bytes(script) \in Seq(Byte) /\ Len(Bytes(script)) \in Nat
<1>1. script \in Seq(String)
  BY DEF DataInv, IsScript, String
<1> QED
  BY <1>1, BytesOfScript

(***************************************************************************)
(* The frame limit is a number.                                            *)
(***************************************************************************)
LEMMA LimitNatural == ASSUME MainInv PROVE limit \in Nat
  BY LimitsRange DEF MainInv

\* Steps that neither send nor receive anything.
SameData ==
  /\ UNCHANGED <<limit, left, part, need, buf, delivered, script, written, taken>>
  /\ Starting' => Starting

(***************************************************************************)
(* Such steps preserve the types of the data.                              *)
(***************************************************************************)
LEMMA DataKept ==
  ASSUME DataInv, SameData
  PROVE  DataInv'
  BY DEF DataInv, SameData, Unread

(***************************************************************************)
(* SendFrame leaves at most a header and the limit to be sent.             *)
(***************************************************************************)
LEMMA SendFrameLeaves ==
  ASSUME limit \in Nat, NEW size \in Nat, NEW type, SendFrame(type, size)
  PROVE  left' \in 0 .. HeaderBytes + limit /\ pc' \in {"send", "ended"}
<1>1. CASE Sendable(size) /\ left' = HeaderBytes + size /\ pc' = "send"
  BY <1>1 DEF Sendable, HeaderBytes
<1>2. CASE pc' = "ended" /\ left' = 0
  BY <1>2 DEF HeaderBytes
<1> QED
  BY <1>1, <1>2 DEF SendFrame, Fail

(***************************************************************************)
(* receive_exact begins with a header, and nothing received.               *)
(***************************************************************************)
LEMMA FreshBuffer ==
  HeaderBytes \in 1..HeaderBytes /\ <<>> \in Seq(Byte) /\ Len(<<>>) \leq HeaderBytes
  BY DEF HeaderBytes

(***************************************************************************)
(* Nothing is left to be sent, whatever the limit.                         *)
(***************************************************************************)
LEMMA NothingLeft == \A n \in Nat : 0 \in 0 .. HeaderBytes + n
  BY DEF HeaderBytes

(***************************************************************************)
(* Every step preserves the types of the data: receive_exact is asked for  *)
(* a payload within the limit, and recv returns no more than it is asked   *)
(* for.                                                                    *)
(***************************************************************************)
LEMMA DataNext ==
  ASSUME ControlInv, MainInv, DataInv, [Next]_vars
  PROVE  DataInv'
<1>0. limit \in Nat
  BY LimitNatural
<1> USE DataKept DEF SameData, Starting, Receiving, Finishing, mainVars, sendVars, receiveVars, proxyVars,
                     streamVars
<1>1. ASSUME ParseHelp PROVE DataInv'
  BY <1>1 DEF ParseHelp, Exit
<1>2. ASSUME ParseRefuses PROVE DataInv'
  BY <1>2 DEF ParseRefuses, Exit
<1>3. ASSUME ParseOption PROVE DataInv'
  BY <1>3 DEF ParseOption
<1>4. ASSUME ParseEnds PROVE DataInv'
  BY <1>4 DEF ParseEnds, Exit
<1>5. ASSUME Initialized PROVE DataInv'
  <2>1. Unread /\ UNCHANGED <<left, part, need, buf, delivered, script, written, taken>>
    BY <1>5 DEF Initialized, DataInv
  <2>2. limit' \in Nat
    <3>1. limit' = options["--max-frame-bytes"]
      BY <1>5 DEF Initialized
    <3>2. options["--max-frame-bytes"] \in Limits
      BY DEF MainInv
    <3> QED
      BY ONLY <3>1, <3>2, LimitsRange, ZenonT(40)
  <2>3. IsScript(script', limit')
    BY <2>1, EmptyScript DEF Unread
  <2>4. Unread'
    BY <2>1 DEF Unread
  <2>5. written' \in 0..Len(Bytes(script')) /\ taken' \in 0..written'
    BY <2>1 DEF DataInv
  <2>6. delivered' \in Seq(Seq(Byte))
    BY <2>1 DEF DataInv
  <2>7. left' \in 0 .. HeaderBytes + limit'
    <3>1. left' = 0
      BY <2>1 DEF Unread
    <3>2. 0 \in 0 .. HeaderBytes + limit'
      BY <2>2, NothingLeft
    <3> QED
      BY <3>1, <3>2
  <2>8. need' \in 1 .. (IF part' = "header" THEN HeaderBytes ELSE limit')
    BY <2>1 DEF Unread, HeaderBytes
  <2>9. /\ part' = "header" => need' = HeaderBytes
        /\ buf' \in Seq(Byte) /\ Len(buf') \leq need'
    BY <2>1 DEF Unread, HeaderBytes
  <2> QED
    BY <2>3, <2>4, <2>5, <2>6, <2>7, <2>8, <2>9 DEF DataInv
<1>6. ASSUME InitializeFails PROVE DataInv'
  BY <1>6 DEF InitializeFails, Exit
<1>7. ASSUME RunReturns PROVE DataInv'
  BY <1>7 DEF RunReturns
<1>8. ASSUME Connects PROVE DataInv'
  <2>1. /\ pc = "run" /\ Unread /\ limit' = limit
        /\ UNCHANGED <<part, need, buf, delivered, written, taken>>
    BY <1>8 DEF Connects, DataInv
  <2>2. IsScript(script', limit')
    <3>1. CASE script' = <<>>
      BY <3>1, EmptyScript
    <3>2. CASE script' \in Scripts(limit)
      BY <2>1, <3>2, ScriptsAssumption DEF MainInv
    <3> QED
      BY <1>8, <3>1, <3>2 DEF Connects
  <2>3. left' \in 0 .. HeaderBytes + limit /\ pc' \in {"send", "ended"}
    <3> DEFINE size == HelloSize(options["--auth-token"])
    <3>1. size \in Nat
      BY HelloSizePositive DEF MainInv, IsArgument
    <3> HIDE DEF size
    <3>2. SendFrame("hello", size)
      BY <1>8 DEF Connects, size
    <3> QED
      BY <1>0, <3>1, <3>2, SendFrameLeaves
  <2>4. Len(Bytes(script')) \in Nat
    <3>1. script' \in Seq(String)
      BY <2>2 DEF IsScript, String
    <3> QED
      BY <3>1, BytesOfScript
  <2> QED
    BY <2>1, <2>2, <2>3, <2>4 DEF DataInv, Unread, HeaderBytes
<1>9. ASSUME ConnectFails PROVE DataInv'
  BY <1>9 DEF ConnectFails, Fail
<1>10. ASSUME Signal PROVE DataInv'
  BY <1>10 DEF Signal, Exit
<1>11. ASSUME Exited PROVE DataInv'
  BY <1>11 DEF Exited, vars
<1>12. ASSUME SendSome, UNCHANGED mainVars PROVE DataInv'
  <2>1. PICK sent \in Takes : left' = left - sent
    BY <1>12 DEF SendSome
  <2>2. left' \in 0 .. HeaderBytes + limit
    BY <1>0, <2>1 DEF Takes, DataInv, HeaderBytes
  <2>3. /\ pc' \in {"send", "check"}
        /\ UNCHANGED <<limit, delivered, script, written, taken>>
        /\ \/ UNCHANGED <<part, need, buf>>
           \/ part' = "header" /\ need' = HeaderBytes /\ buf' = <<>>
    BY <1>12 DEF SendSome, StartReceive
  <2>4. /\ need' \in 1 .. (IF part' = "header" THEN HeaderBytes ELSE limit')
        /\ part' = "header" => need' = HeaderBytes
        /\ buf' \in Seq(Byte) /\ Len(buf') \leq need'
    BY <2>3, FreshBuffer DEF DataInv
  <2> QED
    BY <2>2, <2>3, <2>4 DEF DataInv
<1>13. ASSUME SendFails, UNCHANGED mainVars PROVE DataInv'
  <2>1. /\ pc' \in {"check", "ended"}
        /\ UNCHANGED <<limit, left, delivered, script, written, taken>>
        /\ \/ UNCHANGED <<part, need, buf>>
           \/ part' = "header" /\ need' = HeaderBytes /\ buf' = <<>>
    BY <1>13, SendFailsCases DEF StartReceive, SamePart
  <2>2. /\ need' \in 1 .. (IF part' = "header" THEN HeaderBytes ELSE limit')
        /\ part' = "header" => need' = HeaderBytes
        /\ buf' \in Seq(Byte) /\ Len(buf') \leq need'
    BY <2>1, FreshBuffer DEF DataInv
  <2> QED
    BY <2>1, <2>2 DEF DataInv
<1>14. ASSUME ReceiveStopped, UNCHANGED mainVars PROVE DataInv'
  BY <1>14 DEF ReceiveStopped, Fail
<1>15. ASSUME ReceiveTimesOut, UNCHANGED mainVars PROVE DataInv'
  BY <1>15 DEF ReceiveTimesOut, Fail
<1>16. ASSUME StartPoll, UNCHANGED mainVars PROVE DataInv'
  BY <1>16 DEF StartPoll
<1>17. ASSUME HeaderReceived, UNCHANGED mainVars PROVE DataInv'
  <2>1. /\ pc = "check" /\ pc' \in {"check", "ended"}
        /\ UNCHANGED <<limit, left, delivered, script, written, taken>>
    BY <1>17 DEF HeaderReceived, Fail
  <2>2. CASE UNCHANGED <<part, need, buf>>
    BY <2>1, <2>2
  <2>3. CASE /\ part' = "payload" /\ need' = DecodeSize(buf) /\ buf' = <<>>
             /\ SizeValid(need')
    <3>1. DecodeSize(buf) \in Nat
      <4>1. Len(buf) = 8
        BY <1>17 DEF HeaderReceived, Full, DataInv, HeaderBytes
      <4>2. buf \in Seq(Byte) /\ Len(buf) \geq 8
        BY <4>1 DEF DataInv
      <4> QED
        BY <4>2, DecodedNatural
    <3>2. need' \in 1..limit
      BY <1>0, <2>3, <3>1 DEF SizeValid
    <3> QED
      BY <2>1, <2>3, <3>2 DEF DataInv
  <2> QED
    BY <1>17, <2>2, <2>3 DEF HeaderReceived
<1>18. ASSUME PayloadReceived, UNCHANGED mainVars PROVE DataInv'
  BY <1>18 DEF PayloadReceived
<1>19. ASSUME PollDisconnected, UNCHANGED mainVars PROVE DataInv'
  BY <1>19 DEF PollDisconnected, Fail
<1>20. ASSUME PollReady, UNCHANGED mainVars PROVE DataInv'
  BY <1>20 DEF PollReady
<1>21. ASSUME PollExpires, UNCHANGED mainVars PROVE DataInv'
  BY <1>21 DEF PollExpires
<1>22. ASSUME Tick, UNCHANGED mainVars PROVE DataInv'
  BY <1>22 DEF Tick
<1>23. ASSUME Recv, UNCHANGED mainVars PROVE DataInv'
  <2> DEFINE n == RecvCount
             piece == SubSeq(Bytes(script), taken + 1, taken + n)
  <2>1. /\ pc' = "check"
        /\ UNCHANGED <<limit, left, part, need, delivered, script, written>>
        /\ taken < written /\ buf' = buf \o piece /\ taken' = taken + n
    BY <1>23 DEF Recv
  <2>2. /\ buf \in Seq(Byte) /\ need \in Nat /\ Len(buf) \leq need
        /\ written \in Nat /\ taken \in 0..written /\ written \leq Len(Bytes(script))
    BY <1>0, ScriptStrings DEF DataInv, HeaderBytes
  <2>3. n \in 0..(need - Len(buf)) /\ n \leq written - taken
    BY <2>1, <2>2 DEF RecvCount
  <2>4. piece \in Seq(Byte) /\ Len(piece) = n
    BY <2>2, <2>3, ScriptStrings
  <2> HIDE DEF n, piece
  <2>5. buf' \in Seq(Byte) /\ Len(buf') = Len(buf) + n
    BY <2>1, <2>2, <2>4, ConcatProperties
  <2>6. Len(buf') \leq need /\ taken' \in 0..written
    BY <2>1, <2>2, <2>3, <2>5
  <2> QED
    BY <2>1, <2>5, <2>6 DEF DataInv
<1>24. ASSUME RecvEnds, UNCHANGED mainVars PROVE DataInv'
  BY <1>24 DEF RecvEnds, Fail
<1>25. ASSUME RecvFails, UNCHANGED mainVars PROVE DataInv'
  BY <1>25 DEF RecvFails, Fail
<1>26. ASSUME PollFails, UNCHANGED mainVars PROVE DataInv'
  BY <1>26 DEF PollFails, Fail
<1>27. ASSUME ProxyWrites, UNCHANGED mainVars PROVE DataInv'
  <2>1. /\ pc' = pc /\ ~Starting /\ written' \in written + 1 .. Len(Bytes(script))
        /\ UNCHANGED <<limit, left, part, need, buf, delivered, script, taken>>
    BY <1>27 DEF ProxyWrites, Greeted, InSession
  <2>2. written \in Nat /\ taken \in 0..written
    BY ScriptStrings DEF DataInv
  <2>3. taken' \in 0..written' /\ written' \in 0..Len(Bytes(script))
    BY <2>1, <2>2, ScriptStrings
  <2> QED
    BY <2>1, <2>3 DEF DataInv
<1>28. ASSUME ProxyCloses, UNCHANGED mainVars PROVE DataInv'
  BY <1>28 DEF ProxyCloses, Connected, InSession
<1>30. ASSUME HandleFrame, UNCHANGED mainVars PROVE DataInv'
  <2>1. Handled
    BY <1>30, HandleFrameCases, LimitInRange DEF HandleFrame, LimitUsable
  <2>2. /\ pc' \in {"send", "check", "ended"}
        /\ UNCHANGED <<limit, script, written, taken>>
        /\ delivered' = Append(delivered, buf)
    BY <2>1 DEF Handled, StartReceive
  <2>3. \/ UNCHANGED <<part, need, buf>>
        \/ part' = "header" /\ need' = HeaderBytes /\ buf' = <<>>
    BY <2>1 DEF Handled, StartReceive, SamePart
  <2>4. left' \in 0 .. HeaderBytes + limit
    BY <2>1 DEF Handled, DataInv
  <2>5. delivered' \in Seq(Seq(Byte))
    BY <2>2 DEF DataInv
  <2>6. /\ need' \in 1 .. (IF part' = "header" THEN HeaderBytes ELSE limit')
        /\ part' = "header" => need' = HeaderBytes
        /\ buf' \in Seq(Byte) /\ Len(buf') \leq need'
    BY <2>2, <2>3, FreshBuffer DEF DataInv
  <2> QED
    BY <2>2, <2>4, <2>5, <2>6 DEF DataInv
<1>31. ASSUME CloseSession, UNCHANGED mainVars PROVE DataInv'
  BY <1>31 DEF CloseSession
<1>32. ASSUME SessionEnds, UNCHANGED mainVars PROVE DataInv'
  BY <1>32 DEF SessionEnds
<1>33. ASSUME LlmShutdown PROVE DataInv'
  BY <1>33 DEF LlmShutdown, Exit
<1>34. ASSUME CallbackStep \/ ProxyReads, UNCHANGED mainVars PROVE DataInv'
  <2>1. Aside
    BY <1>34, AsideSteps
  <2> QED
    BY <1>34, <2>1 DEF Aside
<1>29. CASE UNCHANGED vars
  BY <1>29 DEF vars
<1> QED
  BY <1>1, <1>2, <1>3, <1>4, <1>5, <1>6, <1>7, <1>8, <1>9, <1>10, <1>11, <1>12,
     <1>13, <1>14, <1>15, <1>16, <1>17, <1>18, <1>19, <1>20, <1>21, <1>22, <1>23,
     <1>24, <1>25, <1>26, <1>27, <1>28, <1>29, <1>30, <1>31, <1>32, <1>33, <1>34
  DEF Next, MainStep, StreamNext, SessionStep, CloseStep, ProxyStep, SendStep,
      ReceiveStep
-----------------------------------------------------------------------------

\* The end of the last frame that was delivered, and a piece of the stream.
Here == Position(script, Len(delivered))

Piece(m, n) == SubSeq(Bytes(script), m, n)

\* The frames delivered are the first strings of the script.
DeliveredInv ==
  /\ Len(delivered) \in 0..Len(script)
  /\ \A k \in 1..Len(delivered) :
       script[k].frame /\ EncodeFrame(delivered[k]) = script[k].bytes
  /\ Here \leq taken

\* buf is the beginning of what follows in the stream, or of what follows the header.
InHeader ==
  taken = Here + Len(buf) /\ buf = Piece(Here + 1, Here + Len(buf))

InPayload ==
  /\ taken = Here + 8 + Len(buf) /\ buf = Piece(Here + 9, Here + 8 + Len(buf))
  /\ HasMagic(Piece(Here + 1, Here + 8))
  /\ DecodeSize(Piece(Here + 1, Here + 8)) = need

\* Where ReceiveFrame is in the stream.
ReadInv ==
  /\ pc = "send" => taken = Here
  /\ Receiving => IF part = "header" THEN InHeader ELSE InPayload
  /\ pc \in {"poll", "recv"} => Len(buf) < need
  /\ pc = "handle" => part = "payload" /\ Len(buf) = need

(***************************************************************************)
(* Nothing has been delivered or read initially.                           *)
(***************************************************************************)
LEMMA FramesInit == Init => DeliveredInv /\ ReadInv
<1> SUFFICES ASSUME Init PROVE DeliveredInv /\ ReadInv
  OBVIOUS
<1>1. script = <<>> /\ delivered = <<>> /\ taken = 0 /\ pc = "parse"
  BY DEF Init
<1>2. Here = 0
  <2>1. script \in Seq(String)
    BY <1>1
  <2> QED
    BY <1>1, <2>1, BytesOfScript DEF Here
<1> QED
  BY <1>1, <1>2 DEF DeliveredInv, ReadInv, Receiving

\* Steps that leave the stream alone.
SameFrames == UNCHANGED <<delivered, script, taken>>

(***************************************************************************)
(* Steps that leave the stream alone keep what is known of the frames.     *)
(***************************************************************************)
LEMMA DeliveredKept ==
  ASSUME DeliveredInv, SameFrames
  PROVE  DeliveredInv' /\ Here' = Here
  BY DEF DeliveredInv, SameFrames, Here, Position

\* Steps that neither receive nor return anything.
ReadsOn ==
  /\ SameFrames
  /\ \/ pc' # "send" /\ ~Receiving'
     \/ /\ UNCHANGED <<part, need, buf>>
        /\ \/ pc' = pc
           \/ Receiving /\ pc' = "check"
           \/ pc = "poll" /\ pc' = "recv"

(***************************************************************************)
(* Steps that neither receive nor return anything preserve the position.   *)
(***************************************************************************)
LEMMA FramesKept ==
  ASSUME ControlInv, DataInv, DeliveredInv, ReadInv, ReadsOn
  PROVE  DeliveredInv' /\ ReadInv'
<1>1. DeliveredInv' /\ Here' = Here /\ SameFrames
  BY DeliveredKept DEF ReadsOn
<1>2. CASE pc' # "send" /\ ~Receiving'
  BY <1>1, <1>2 DEF ReadInv, Receiving
<1>3. CASE /\ UNCHANGED <<part, need, buf>>
           /\ \/ pc' = pc
              \/ Receiving /\ pc' = "check"
              \/ pc = "poll" /\ pc' = "recv"
  <2>1. (InHeader => InHeader') /\ (InPayload => InPayload')
    BY <1>1, <1>3 DEF InHeader, InPayload, Piece, SameFrames
  <2> QED
    BY <1>1, <1>3, <2>1 DEF ReadInv, Receiving, SameFrames
<1> QED
  BY <1>2, <1>3 DEF ReadsOn

(***************************************************************************)
(* The end of the last delivered frame is a place in the stream.           *)
(***************************************************************************)
LEMMA HereNatural ==
  ASSUME DataInv, DeliveredInv
  PROVE  Here \in 0..Len(Bytes(script)) /\ Len(Bytes(script)) \in Nat
<1>1. script \in Seq(String) /\ Len(Bytes(script)) \in Nat
  BY ScriptStrings
<1>2. Len(delivered) \in 0..Len(script)
  BY DEF DeliveredInv
<1>3. Here \in 0..Len(Bytes(script))
  BY <1>1, <1>2, BytesOfScript DEF Here
<1> QED
  BY <1>1, <1>3

(***************************************************************************)
(* ReceiveFrame begins where a frame has ended.                            *)
(***************************************************************************)
LEMMA ReadsAnew ==
  ASSUME NEW h \in Nat, Here' = h, taken' = h,
         part' = "header", buf' = <<>>, pc' = "check"
  PROVE  ReadInv'
<1>1. Len(<<>>) = 0 /\ h + 0 = h /\ h < h + 1
  OBVIOUS
<1>2. SubSeq(Bytes(script)', h + 1, h) = <<>>
  BY <1>1, SubSeqEmpty
<1>3. InHeader'
  BY <1>1, <1>2 DEF InHeader, Piece
<1> QED
  BY <1>3 DEF ReadInv, Receiving

(***************************************************************************)
(* Every step preserves what was delivered and the position in the stream. *)
(* The steps that matter are Recv, which takes the next bytes,             *)
(* HeaderReceived, and PayloadReceived, which rests on NextFrame.          *)
(***************************************************************************)
LEMMA FramesNext ==
  ASSUME ControlInv, MainInv, DataInv, DeliveredInv, ReadInv, [Next]_vars
  PROVE  DeliveredInv' /\ ReadInv'
<1>0. limit \in Nat /\ DataInv'
  BY LimitNatural, DataNext
<1>a. /\ Here \in 0..Len(Bytes(script)) /\ Len(Bytes(script)) \in Nat
      /\ script \in Seq(String) /\ Bytes(script) \in Seq(Byte)
  BY HereNatural, ScriptStrings
<1> USE FramesKept
    DEF ReadsOn, SameFrames, Receiving, mainVars, sendVars, receiveVars,
        proxyVars, streamVars
<1>1. ASSUME ParseHelp PROVE DeliveredInv' /\ ReadInv'
  BY <1>1 DEF ParseHelp, Exit
<1>2. ASSUME ParseRefuses PROVE DeliveredInv' /\ ReadInv'
  BY <1>2 DEF ParseRefuses, Exit
<1>3. ASSUME ParseOption PROVE DeliveredInv' /\ ReadInv'
  BY <1>3 DEF ParseOption
<1>4. ASSUME ParseEnds PROVE DeliveredInv' /\ ReadInv'
  BY <1>4 DEF ParseEnds, Exit
<1>5. ASSUME Initialized PROVE DeliveredInv' /\ ReadInv'
  BY <1>5 DEF Initialized
<1>6. ASSUME InitializeFails PROVE DeliveredInv' /\ ReadInv'
  BY <1>6 DEF InitializeFails, Exit
<1>7. ASSUME RunReturns PROVE DeliveredInv' /\ ReadInv'
  BY <1>7 DEF RunReturns
<1>8. ASSUME Connects PROVE DeliveredInv' /\ ReadInv'
  <2>1. /\ delivered' = <<>> /\ taken' = 0 /\ pc' \in {"send", "ended"}
    BY <1>8 DEF Connects, DataInv, Starting, Unread, SendFrame, Fail
  <2>2. script' \in Seq(String)
    BY <1>0 DEF DataInv, IsScript, String
  <2>3. Here' = 0
    BY <2>1, <2>2, BytesOfScript DEF Here
  <2> QED
    BY <2>1, <2>2, <2>3 DEF DeliveredInv, ReadInv
<1>9. ASSUME ConnectFails PROVE DeliveredInv' /\ ReadInv'
  BY <1>9 DEF ConnectFails, Fail
<1>10. ASSUME Signal PROVE DeliveredInv' /\ ReadInv'
  BY <1>10 DEF Signal, Exit
<1>11. ASSUME Exited PROVE DeliveredInv' /\ ReadInv'
  BY <1>11 DEF Exited, vars
<1>12. ASSUME SendSome, UNCHANGED mainVars PROVE DeliveredInv' /\ ReadInv'
  <2>1. pc = "send" /\ SameFrames
    BY <1>12 DEF SendSome
  <2>2. CASE left' > 0
    BY <1>12, <2>2 DEF SendSome
  <2>3. CASE ~(left' > 0)
    <3>1. DeliveredInv' /\ Here' = Here
      BY <2>1, DeliveredKept
    <3>2. taken' = Here' /\ Here' \in Nat
      BY <1>a, <2>1, <3>1 DEF ReadInv
    <3>3. part' = "header" /\ buf' = <<>> /\ pc' = "check"
      BY <1>12, <2>3 DEF SendSome, StartReceive
    <3> QED
      BY <3>1, <3>2, <3>3, ReadsAnew
  <2> QED
    BY <2>2, <2>3
<1>13. ASSUME SendFails, UNCHANGED mainVars PROVE DeliveredInv' /\ ReadInv'
  <2>1. pc = "send" /\ SameFrames
    BY <1>13, SendFailsCases
  <2>2. CASE pc' = "ended"
    BY <2>1, <2>2
  <2>3. CASE StartReceive(0)
    <3>1. DeliveredInv' /\ Here' = Here
      BY <2>1, DeliveredKept
    <3>2. taken' = Here' /\ Here' \in Nat
      BY <1>a, <2>1, <3>1 DEF ReadInv
    <3> QED
      BY <2>3, <3>1, <3>2, ReadsAnew DEF StartReceive
  <2> QED
    BY <1>13, <2>2, <2>3, SendFailsCases
<1>14. ASSUME ReceiveStopped, UNCHANGED mainVars PROVE DeliveredInv' /\ ReadInv'
  BY <1>14 DEF ReceiveStopped, Fail
<1>15. ASSUME ReceiveTimesOut, UNCHANGED mainVars PROVE DeliveredInv' /\ ReadInv'
  BY <1>15 DEF ReceiveTimesOut, Fail
<1>16. ASSUME StartPoll, UNCHANGED mainVars PROVE DeliveredInv' /\ ReadInv'
  <2>1. /\ pc = "check" /\ pc' = "poll" /\ SameFrames /\ UNCHANGED <<part, need, buf>>
        /\ Len(buf) < need
    BY <1>16, <1>0 DEF StartPoll, Full, DataInv, HeaderBytes
  <2>2. DeliveredInv' /\ Here' = Here
    BY <2>1, DeliveredKept
  <2>3. (InHeader => InHeader') /\ (InPayload => InPayload')
    BY <2>1, <2>2 DEF InHeader, InPayload, Piece
  <2> QED
    BY <2>1, <2>2, <2>3 DEF ReadInv
<1>17. ASSUME HeaderReceived, UNCHANGED mainVars PROVE DeliveredInv' /\ ReadInv'
  <2>1. pc = "check" /\ SameFrames /\ Len(buf) = 8 /\ part = "header"
    BY <1>17 DEF HeaderReceived, Full, DataInv, HeaderBytes
  <2>2. DeliveredInv' /\ Here' = Here
    BY <2>1, DeliveredKept
  <2>3. CASE pc' = "ended"
    BY <2>1, <2>3
  <2>4. CASE /\ pc' = "check" /\ part' = "payload"
             /\ need' = DecodeSize(buf) /\ buf' = <<>> /\ HasMagic(buf)
    <3>1. taken = Here + 8 /\ buf = Piece(Here + 1, Here + 8)
      BY <2>1 DEF ReadInv, InHeader
    <3>2. Len(<<>>) = 0 /\ Here + 8 + 0 = Here + 8 /\ Here + 8 < Here + 9
      BY <1>a
    <3>3. Piece(Here + 9, Here + 8 + Len(buf))' = <<>>
      BY <1>a, <2>2, <2>4, <3>2, SubSeqEmpty DEF Piece
    <3>4. Piece(Here + 1, Here + 8)' = buf
      BY <2>1, <2>2, <3>1 DEF Piece
    <3>5. InPayload'
      BY <2>1, <2>2, <2>4, <3>1, <3>2, <3>3, <3>4 DEF InPayload
    <3> QED
      BY <2>2, <2>4, <3>5 DEF ReadInv
  <2> QED
    BY <1>17, <2>1, <2>3, <2>4 DEF HeaderReceived, Fail
<1>18. ASSUME PayloadReceived, UNCHANGED mainVars PROVE DeliveredInv' /\ ReadInv'
  <2>1. /\ pc = "check" /\ pc' = "handle" /\ Len(buf) = need /\ part = "payload"
        /\ SameFrames /\ UNCHANGED <<part, need, buf>>
    BY <1>18 DEF PayloadReceived, Full
  <2>2. DeliveredInv' /\ Here' = Here
    BY <2>1, DeliveredKept
  <2>3. InPayload => InPayload'
    BY <2>1, <2>2 DEF InPayload, Piece
  <2> QED
    BY <2>1, <2>2, <2>3 DEF ReadInv
<1>19. ASSUME PollDisconnected, UNCHANGED mainVars PROVE DeliveredInv' /\ ReadInv'
  BY <1>19 DEF PollDisconnected, Fail
<1>20. ASSUME PollReady, UNCHANGED mainVars PROVE DeliveredInv' /\ ReadInv'
  BY <1>20 DEF PollReady
<1>21. ASSUME PollExpires, UNCHANGED mainVars PROVE DeliveredInv' /\ ReadInv'
  BY <1>21 DEF PollExpires
<1>22. ASSUME Tick, UNCHANGED mainVars PROVE DeliveredInv' /\ ReadInv'
  BY <1>22 DEF Tick
<1>23. ASSUME Recv, UNCHANGED mainVars PROVE DeliveredInv' /\ ReadInv'
  <2> DEFINE n == RecvCount
  <2>1. /\ pc = "recv" /\ pc' = "check" /\ UNCHANGED <<part, need, delivered, script>>
        /\ buf' = buf \o SubSeq(Bytes(script), taken + 1, taken + n)
        /\ taken' = taken + n /\ taken < written
    BY <1>23 DEF Recv
  <2>2. /\ n \in Nat /\ taken + n \leq Len(Bytes(script))
        /\ buf \in Seq(Byte) /\ Len(buf) \in Nat
        /\ taken \in Nat
    <3>1. /\ buf \in Seq(Byte) /\ need \in Nat /\ Len(buf) \leq need
          /\ written \in Nat /\ taken \in 0..written /\ written \leq Len(Bytes(script))
      BY <1>0, <1>a DEF DataInv, HeaderBytes
    <3> QED
      BY <1>a, <2>1, <3>1 DEF RecvCount
  <2> HIDE DEF n
  <2>3. Here' = Here
    BY <2>1 DEF Here
  <2>4. DeliveredInv'
    BY <1>a, <2>1, <2>2, <2>3 DEF DeliveredInv
  <2>5. CASE part = "header"
    <3>1. /\ taken = Here + Len(buf)
          /\ buf = SubSeq(Bytes(script), Here + 1, Here + Len(buf))
      BY <2>1, <2>5 DEF ReadInv, InHeader, Piece
    <3>2. /\ Len(buf') = Len(buf) + n
          /\ buf' = SubSeq(Bytes(script), Here + 1, Here + (Len(buf) + n))
      BY <1>a, <2>1, <2>2, <3>1, Appended
    <3>3. taken' = Here + (Len(buf) + n)
      BY <1>a, <2>1, <2>2, <3>1
    <3>4. InHeader'
      BY <2>1, <2>3, <3>2, <3>3 DEF InHeader, Piece
    <3> QED
      BY <2>1, <2>4, <2>5, <3>4 DEF ReadInv
  <2>6. CASE part = "payload"
    <3> DEFINE m == Here + 8
    <3>1. m \in Nat /\ m + 1 = Here + 9
      BY <1>a
    <3>2. taken = m + Len(buf) /\ buf = SubSeq(Bytes(script), m + 1, m + Len(buf))
      BY <2>1, <2>6, <3>1 DEF ReadInv, InPayload, Piece
    <3> HIDE DEF m
    <3>a. m + Len(buf) + n \leq Len(Bytes(script))
      BY <2>2, <3>2
    <3>b. buf' = buf \o SubSeq(Bytes(script), m + Len(buf) + 1, m + Len(buf) + n)
      BY <2>1, <3>2
    <3>3. /\ Len(buf') = Len(buf) + n
          /\ buf' = SubSeq(Bytes(script), m + 1, m + (Len(buf) + n))
      <4>1. Bytes(script) \in Seq(Byte) /\ m \in Nat /\ n \in Nat /\ buf \in Seq(Byte)
        BY <1>a, <2>2, <3>1
      <4>2. buf = SubSeq(Bytes(script), m + 1, m + Len(buf))
        BY <3>2
      <4> DEFINE c == buf \o SubSeq(Bytes(script), m + Len(buf) + 1, m + Len(buf) + n)
      <4>3. /\ Len(c) = Len(buf) + n
            /\ c = SubSeq(Bytes(script), m + 1, m + (Len(buf) + n))
        BY <4>1, <4>2, <3>a, Appended
      <4> HIDE DEF c
      <4> QED
        BY <3>b, <4>3 DEF c
    <3>4. taken' = m + (Len(buf) + n)
      BY <2>1, <2>2, <3>1, <3>2
    <3>5. InPayload'
      BY <2>1, <2>3, <2>6, <3>1, <3>3, <3>4 DEF ReadInv, InPayload, Piece, m
    <3> QED
      BY <2>1, <2>4, <2>6, <3>5 DEF ReadInv
  <2> QED
    BY <2>5, <2>6 DEF ControlInv
<1>24. ASSUME RecvEnds, UNCHANGED mainVars PROVE DeliveredInv' /\ ReadInv'
  BY <1>24 DEF RecvEnds, Fail
<1>25. ASSUME RecvFails, UNCHANGED mainVars PROVE DeliveredInv' /\ ReadInv'
  BY <1>25 DEF RecvFails, Fail
<1>26. ASSUME PollFails, UNCHANGED mainVars PROVE DeliveredInv' /\ ReadInv'
  BY <1>26 DEF PollFails, Fail
<1>27. ASSUME ProxyWrites, UNCHANGED mainVars PROVE DeliveredInv' /\ ReadInv'
  BY <1>27 DEF ProxyWrites, Greeted, InSession
<1>28. ASSUME ProxyCloses, UNCHANGED mainVars PROVE DeliveredInv' /\ ReadInv'
  BY <1>28 DEF ProxyCloses, Connected, InSession
<1>30. ASSUME HandleFrame, UNCHANGED mainVars PROVE DeliveredInv' /\ ReadInv'
  <2>a. Handled
    BY <1>30, HandleFrameCases, LimitInRange DEF HandleFrame, LimitUsable
  <2>1. /\ pc = "handle" /\ Len(buf) = need /\ part = "payload"
        /\ delivered' = Append(delivered, buf) /\ UNCHANGED <<script, taken>>
    BY <2>a DEF Handled, ReadInv
  <2>2. need \in 1..limit /\ taken \leq Len(Bytes(script))
    BY <1>0, <1>a, <2>1 DEF DataInv
  <2>3. InPayload
    BY <2>1 DEF ReadInv, ControlInv
  <2> DEFINE d == Len(delivered)
  <2>4. d \in 0..Len(script) /\ IsScript(script, limit)
    BY DEF DeliveredInv, DataInv
  <2>5. /\ HasMagic(SubSeq(Bytes(script), Here + 1, Here + 8))
        /\ DecodeSize(SubSeq(Bytes(script), Here + 1, Here + 8)) = need
        /\ taken = Here + 8 + need
        /\ buf = SubSeq(Bytes(script), Here + 9, Here + 8 + need)
    BY <2>1, <2>3 DEF InPayload, Piece
  <2>6. /\ d + 1 \in 1..Len(script) /\ script[d+1].frame
        /\ Position(script, d + 1) = taken
        /\ EncodeFrame(buf) = script[d+1].bytes
    BY <1>0, <2>2, <2>4, <2>5, NextFrame DEF Here
  <2>7. /\ Len(delivered') = d + 1 /\ delivered'[d+1] = buf
        /\ \A k \in 1..d : delivered'[k] = delivered[k]
    BY <2>1 DEF DataInv
  <2>8. Here' = taken'
    BY <2>1, <2>6, <2>7 DEF Here
  <2>9. taken' \in Nat
    BY <1>a, <2>1, <2>2 DEF DataInv
  <2>10. DeliveredInv'
    <3>1. Len(delivered') \in 0..Len(script')
      BY <2>1, <2>6, <2>7
    <3>2. ASSUME NEW k \in 1..Len(delivered')
          PROVE  script'[k].frame /\ EncodeFrame(delivered'[k]) = script'[k].bytes
      <4>1. CASE k = d + 1
        BY <2>1, <2>6, <2>7, <4>1
      <4>2. CASE k \in 1..d
        BY <2>1, <2>7, <4>2 DEF DeliveredInv
      <4> QED
        BY <2>4, <2>7, <4>1, <4>2
    <3> QED
      BY <2>8, <2>9, <3>1, <3>2 DEF DeliveredInv
  <2>11. \/ pc' = "check" /\ part' = "header" /\ buf' = <<>>
         \/ pc' \in {"send", "ended"}
    BY <2>a DEF Handled, StartReceive
  <2> QED
    BY <2>8, <2>9, <2>10, <2>11, ReadsAnew DEF ReadInv
<1>31. ASSUME CloseSession, UNCHANGED mainVars PROVE DeliveredInv' /\ ReadInv'
  BY <1>31 DEF CloseSession
<1>32. ASSUME SessionEnds, UNCHANGED mainVars PROVE DeliveredInv' /\ ReadInv'
  BY <1>32 DEF SessionEnds
<1>33. ASSUME LlmShutdown PROVE DeliveredInv' /\ ReadInv'
  BY <1>33 DEF LlmShutdown, Exit
<1>34. ASSUME CallbackStep \/ ProxyReads, UNCHANGED mainVars PROVE DeliveredInv' /\ ReadInv'
  <2>1. Aside
    BY <1>34, AsideSteps
  <2> QED
    BY <2>1 DEF Aside
<1>29. CASE UNCHANGED vars
  BY <1>29 DEF vars
<1> QED
  BY <1>1, <1>2, <1>3, <1>4, <1>5, <1>6, <1>7, <1>8, <1>9, <1>10, <1>11, <1>12,
     <1>13, <1>14, <1>15, <1>16, <1>17, <1>18, <1>19, <1>20, <1>21, <1>22, <1>23,
     <1>24, <1>25, <1>26, <1>27, <1>28, <1>29, <1>30, <1>31, <1>32, <1>33, <1>34
  DEF Next, MainStep, StreamNext, SessionStep, CloseStep, ProxyStep, SendStep,
      ReceiveStep
-----------------------------------------------------------------------------
\* The places of the options before k.
Read(line, k) == {i \in DOMAIN line : i % 2 = 1 /\ i < k}

\* The first options of a line, up to the place k of the next, are in order, and no
\* option among them asks for help.
SoFar(line, k) ==
  /\ k \in Nat /\ k % 2 = 1 /\ k \leq Len(line) + 1
  /\ \A i \in Read(line, k) : Sound(line, i) /\ i \notin Helps(line)

\* A command line whose elements are arguments.
IsLine(line) ==
  /\ line \in Seq({line[n] : n \in DOMAIN line})
  /\ \A n \in DOMAIN line : IsArgument(line[n])

(***************************************************************************)
(* What has been read is what a line means when it ends, or asks for help, *)
(* there.                                                                  *)
(***************************************************************************)
LEMMA ReadPlaces ==
  ASSUME NEW line, IsLine(line), NEW k, SoFar(line, k), k > Len(line) \/ k \in Helps(line)
  PROVE  Places(line) = Read(line, k)
<1>1. DOMAIN line = 1..Len(line) /\ Len(line) \in Nat
  BY DEF IsLine
<1>2. \A h \in Helps(line) : h \in Nat /\ h % 2 = 1 /\ h \in DOMAIN line
  BY <1>1 DEF Helps
<1>3. \A h \in Helps(line) : h \geq k
  BY <1>1, <1>2 DEF SoFar, Read
<1>4. Read(line, k) \subseteq Places(line)
  BY <1>1, <1>2, <1>3 DEF SoFar, Read, Places
<1>5. Places(line) \subseteq Read(line, k)
  BY <1>1, <1>2 DEF SoFar, Read, Places
<1> QED
  BY <1>4, <1>5

(***************************************************************************)
(* One more option has been read.                                          *)
(***************************************************************************)
LEMMA ReadMore ==
  ASSUME NEW line, IsLine(line), NEW k, SoFar(line, k), k \in DOMAIN line
  PROVE  Read(line, k + 2) = Read(line, k) \cup {k}
<1>1. DOMAIN line = 1..Len(line) /\ Len(line) \in Nat /\ k \in Nat /\ k % 2 = 1
  BY DEF IsLine, SoFar
<1>2. ASSUME NEW i \in 1..Len(line), i % 2 = 1 PROVE i < k + 2 <=> (i < k \/ i = k)
  BY <1>1, <1>2
<1> QED
  BY <1>1, <1>2 DEF Read

(***************************************************************************)
(* The option at k replaces what was meant before, and only that.          *)
(***************************************************************************)
LEMMA MeantMore ==
  ASSUME NEW line, IsLine(line), NEW k, SoFar(line, k), k \in DOMAIN line, NEW option
  PROVE  MeantAt(line, option, Read(line, k + 2)) =
           IF line[k].word = option THEN ValueAt(line, option, k + 1)
           ELSE MeantAt(line, option, Read(line, k))
<1> DEFINE at(S) == {i \in S : line[i].word = option}
           last(A) == CHOOSE i \in A : \A j \in A : j \leq i
           R == Read(line, k)
<1>1. Read(line, k + 2) = R \cup {k}
  BY ReadMore
<1>2. \A S : MeantAt(line, option, S) =
               IF at(S) = {} THEN Defaults[option] ELSE ValueAt(line, option, 1 + last(at(S)))
  BY DEF MeantAt
<1>3. k \in Nat /\ \A i \in R : i \in Nat /\ i < k
  BY DEF SoFar, Read, IsLine
<1> HIDE DEF R
<1>4. CASE line[k].word = option
  <2>1. at(R \cup {k}) = at(R) \cup {k} /\ at(R \cup {k}) # {}
    BY <1>4
  <2>2. \A j \in at(R \cup {k}) : j \leq k
    BY <1>3
  <2>3. last(at(R \cup {k})) = k
    <3> DEFINE A == at(R \cup {k})
    <3>1. k \in A /\ \A j \in A : j \leq k
      BY <2>1, <2>2
    <3>2. \A j \in A : j \in Nat
      BY <1>3
    <3> HIDE DEF A
    <3>3. last(A) \in A /\ \A j \in A : j \leq last(A)
      BY <3>1
    <3> HIDE DEF last
    <3>4. last(A) = k
      BY <1>3, <3>1, <3>2, <3>3
    <3> QED
      BY <3>4 DEF A
  <2>4. 1 + k = k + 1
    BY <1>3
  <2> QED
    BY <1>1, <1>2, <1>4, <2>1, <2>3, <2>4
<1>5. CASE line[k].word # option
  <2>1. at(R \cup {k}) = at(R)
    BY <1>5
  <2> QED
    BY <1>1, <1>2, <1>5, <2>1 DEF R
<1> QED
  BY <1>4, <1>5

(***************************************************************************)
(* The command line: what has been read of it is in order, and the options *)
(* are what it means so far.                                               *)
(***************************************************************************)
ReadSoFar ==
  /\ IsLine(argv) /\ SoFar(argv, index)
  /\ \A option \in Numbers \cup Texts : options[option] = MeantAt(argv, option, Read(argv, index))

CommandInv == (pc = "parse" => ReadSoFar) /\ AcceptedAsWritten

(***************************************************************************)
(* Every line the process is started with is one.                          *)
(***************************************************************************)
LEMMA LinesAreLines == \A line \in CommandLines : IsLine(line)
  BY ArgumentsAssumption DEF IsLine

(***************************************************************************)
(* At the start nothing has been read.                                     *)
(***************************************************************************)
LEMMA CommandInit == Init => CommandInv
<1> SUFFICES ASSUME Init PROVE CommandInv
  OBVIOUS
<1>1. argv \in CommandLines /\ index = 1 /\ options = Defaults /\ pc = "parse" /\ status = Running
  BY DEF Init
<1>2. IsLine(argv)
  BY <1>1, LinesAreLines
<1>3. DOMAIN argv = 1..Len(argv) /\ Len(argv) \in Nat
  BY <1>2 DEF IsLine
<1>4. Read(argv, index) = {}
  BY <1>1, <1>3 DEF Read
<1>5. SoFar(argv, index)
  BY <1>1, <1>3, <1>4 DEF SoFar
<1>6. \A option : MeantAt(argv, option, Read(argv, index)) = Defaults[option]
  BY <1>4 DEF MeantAt
<1>7. AcceptedAsWritten
  BY <1>1 DEF AcceptedAsWritten, Running
<1> QED
  BY <1>1, <1>2, <1>5, <1>6, <1>7 DEF CommandInv, ReadSoFar

(***************************************************************************)
(* The option at index asks for help: the line means that.                 *)
(***************************************************************************)
LEMMA HelpStep ==
  ASSUME CommandInv, ParseHelp
  PROVE  CommandInv'
<1>1. /\ pc = "parse" /\ index \leq Len(argv) /\ argv[index].word \in {"--help", "-h"}
      /\ pc' = "exited" /\ status' = 0 /\ argv' = argv
  BY DEF ParseHelp, Help, Option, Exit
<1>2. IsLine(argv) /\ SoFar(argv, index)
  BY <1>1 DEF CommandInv, ReadSoFar
<1>3. index \in DOMAIN argv
  BY <1>1, <1>2 DEF IsLine, SoFar
<1>4. index \in Helps(argv)
  BY <1>1, <1>2, <1>3 DEF Helps, SoFar
<1>5. Places(argv) = Read(argv, index)
  BY <1>2, <1>4, ReadPlaces
<1>6. ~ Refusable(argv) /\ Helps(argv) # {}
  BY <1>2, <1>4, <1>5 DEF Refusable, SoFar
<1> QED
  BY ONLY <1>1, <1>6 DEF CommandInv, AcceptedAsWritten

(***************************************************************************)
(* The option at index is refused: it is not sound, and no help is asked   *)
(* for before it.                                                          *)
(***************************************************************************)
LEMMA RefuseStep ==
  ASSUME CommandInv, ParseRefuses
  PROVE  CommandInv'
<1>1. /\ pc = "parse" /\ index \leq Len(argv) /\ argv[index].word \notin {"--help", "-h"}
      /\ pc' = "exited" /\ status' = 2 /\ argv' = argv
  BY DEF ParseRefuses, Help, Option, Exit
<1>2. IsLine(argv) /\ SoFar(argv, index)
  BY <1>1 DEF CommandInv, ReadSoFar
<1>3. /\ index \in DOMAIN argv /\ DOMAIN argv = 1..Len(argv) /\ Len(argv) \in Nat
      /\ index \in Nat /\ index % 2 = 1
  BY <1>1, <1>2 DEF IsLine, SoFar
<1>4. index \in Places(argv)
  <2>1. ASSUME NEW h \in Helps(argv) PROVE index < h
    <3>1. h \in DOMAIN argv /\ h % 2 = 1 /\ h # index
      BY <1>1, <2>1 DEF Helps
    <3>2. h \notin Read(argv, index)
      BY <1>2, <2>1 DEF SoFar
    <3> QED
      BY <1>3, <3>1, <3>2 DEF Read
  <2> QED
    BY <1>3, <2>1 DEF Places
<1>5. ~ Sound(argv, index)
  <2>1. CASE index = Len(argv)
    BY <1>3, <2>1 DEF Sound
  <2>2. CASE argv[index].word \notin Numbers \cup Texts
    BY <2>2 DEF Sound
  <2>3. CASE /\ index < Len(argv) /\ argv[index].word \in Numbers
             /\ ParseUnsigned(argv[index + 1], Greatest(argv[index].word))
                  < Least(argv[index].word)
    <3>1. IsArgument(argv[index + 1])
      BY <1>2, <1>3, <2>3 DEF IsLine
    <3>2. argv[index].word \notin Texts
      BY <2>3 DEF Numbers, Texts
    <3>3. ~ IsNumberFor(argv[index].word, argv[index + 1].digits)
      <4> DEFINE option == argv[index].word
                 parsed == ParseUnsigned(argv[index + 1], Greatest(option))
      <4>1. parsed \in Int /\ (parsed \geq Least(option) <=> IsNumberFor(option, argv[index + 1].digits))
        BY <2>3, <3>1, NumberAccepted
      <4>2. Least(option) \in Int /\ parsed < Least(option)
        BY <2>3 DEF Least
      <4> HIDE DEF parsed, option
      <4>3. ~ (parsed \geq Least(option))
        BY ONLY <4>1, <4>2
      <4> QED
        BY <4>1, <4>3 DEF option
    <3> QED
      BY <3>2, <3>3 DEF Sound
  <2> QED
    BY <2>1, <2>2, <2>3 DEF ParseRefuses, Option
<1>6. Refusable(argv)
  BY <1>4, <1>5 DEF Refusable
<1> QED
  BY ONLY <1>1, <1>6 DEF CommandInv, AcceptedAsWritten

(***************************************************************************)
(* One more option is taken: it is sound, and its value is what is written.*)
(***************************************************************************)
LEMMA OptionStep ==
  ASSUME ControlInv, MainInv, CommandInv, ParseOption
  PROVE  CommandInv'
<1> DEFINE option == argv[index].word
           parsed == ParseUnsigned(argv[index + 1], Greatest(option))
<1>1. /\ pc = "parse" /\ index < Len(argv) /\ option \notin {"--help", "-h"}
      /\ pc' = pc /\ status' = status /\ argv' = argv /\ index' = index + 2 /\ status = Running
  BY DEF ParseOption, Help, Option, streamVars, ControlInv
<1>2. /\ IsLine(argv) /\ SoFar(argv, index)
      /\ \A o \in Numbers \cup Texts : options[o] = MeantAt(argv, o, Read(argv, index))
  BY <1>1 DEF CommandInv, ReadSoFar
<1>3. /\ index \in DOMAIN argv /\ DOMAIN argv = 1..Len(argv) /\ Len(argv) \in Nat
      /\ index \in Nat /\ index % 2 = 1 /\ index + 1 \in DOMAIN argv
  BY <1>1, <1>2 DEF IsLine, SoFar
<1>4. IsArgument(argv[index + 1])
  BY <1>2, <1>3 DEF IsLine
<1>5. option \in Numbers => /\ parsed \geq Least(option) <=> IsNumberFor(option, argv[index + 1].digits)
                            /\ parsed \geq Least(option)
                                 => parsed = ValueOf(Significant(argv[index + 1].digits))
  BY <1>4, NumberAccepted
<1>6. DOMAIN options = Numbers \cup Texts
  BY DEF MainInv
<1>7. Numbers \cap Texts = {}
  BY DEF Numbers, Texts
<1>8. /\ option \in Numbers \cup Texts /\ Sound(argv, index)
      /\ options' = [options EXCEPT ![option] = ValueAt(argv, option, index + 1)]
  <2>1. CASE option \in Texts /\ options' = [options EXCEPT ![option] = argv[index + 1]]
    BY <1>3, <2>1 DEF Sound, ValueAt
  <2>2. CASE /\ option \in Numbers /\ parsed \geq Least(option)
             /\ options' = [options EXCEPT ![option] = parsed]
    <3>1. option \notin Texts
      BY <1>7, <2>2
    <3>2. ValueAt(argv, option, index + 1) = parsed
      BY <1>5, <2>2, <3>1 DEF ValueAt
    <3> QED
      BY <1>3, <1>5, <2>2, <3>2 DEF Sound
  <2> QED
    BY <2>1, <2>2 DEF ParseOption, Option
<1> HIDE DEF parsed
<1>9. Read(argv, index + 2) = Read(argv, index) \cup {index}
  BY <1>2, <1>3, ReadMore
<1>10. SoFar(argv, index + 2)
  <2>1. index + 2 \in Nat /\ (index + 2) % 2 = 1 /\ index + 2 \leq Len(argv) + 1
    BY <1>1, <1>3
  <2>2. index \notin Helps(argv)
    BY <1>1 DEF Helps
  <2> QED
    BY <1>2, <1>8, <1>9, <2>1, <2>2 DEF SoFar
<1>11. ASSUME NEW o \in Numbers \cup Texts
       PROVE  options'[o] = MeantAt(argv, o, Read(argv, index + 2))
  <2>1. MeantAt(argv, o, Read(argv, index + 2)) =
          IF option = o THEN ValueAt(argv, o, index + 1)
          ELSE MeantAt(argv, o, Read(argv, index))
    BY <1>2, <1>3, MeantMore
  <2>2. options[o] = MeantAt(argv, o, Read(argv, index))
    BY <1>2
  <2>3. options'[o] = IF option = o THEN ValueAt(argv, option, index + 1) ELSE options[o]
    BY <1>6, <1>8
  <2> QED
    BY ONLY <2>1, <2>2, <2>3
<1>12. ReadSoFar'
  BY <1>1, <1>2, <1>10, <1>11 DEF ReadSoFar
<1>13. AcceptedAsWritten'
  BY ONLY <1>1 DEF AcceptedAsWritten, Running
<1> QED
  BY <1>12, <1>13 DEF CommandInv

(***************************************************************************)
(* At the end of the line the options are what it means, and go on exactly *)
(* when they are whole.                                                    *)
(***************************************************************************)
LEMMA EndStep ==
  ASSUME ControlInv, MainInv, CommandInv, ParseEnds
  PROVE  CommandInv'
<1>1. /\ pc = "parse" /\ index > Len(argv) /\ argv' = argv /\ options' = options
      /\ \/ OptionsComplete /\ pc' = "initialize" /\ status' = status
         \/ ~OptionsComplete /\ pc' = "exited" /\ status' = 2
  BY DEF ParseEnds, Exit
<1>2. /\ IsLine(argv) /\ SoFar(argv, index)
      /\ \A o \in Numbers \cup Texts : options[o] = MeantAt(argv, o, Read(argv, index))
  BY <1>1 DEF CommandInv, ReadSoFar
<1>3. Places(argv) = Read(argv, index)
  BY <1>1, <1>2, ReadPlaces
<1>4. \A o \in Numbers \cup Texts : options[o] = Meant(argv, o)
  BY <1>2, <1>3 DEF Meant
<1>5. Helps(argv) = {}
  <2> SUFFICES ASSUME NEW h \in Helps(argv) PROVE FALSE
    OBVIOUS
  <2>1. h \in DOMAIN argv /\ h % 2 = 1 /\ DOMAIN argv = 1..Len(argv) /\ Len(argv) \in Nat
    BY <1>2 DEF Helps, IsLine
  <2>2. index \in Nat /\ h \notin Read(argv, index)
    BY <1>2 DEF SoFar
  <2> QED
    BY <1>1, <2>1, <2>2 DEF Read
<1>6. OptionsComplete <=> Whole(argv)
  <2>1. /\ Meant(argv, "--config") = options["--config"]
        /\ Meant(argv, "--connect-port") = options["--connect-port"]
        /\ Meant(argv, "--auth-token") = options["--auth-token"]
        /\ Meant(argv, "--reconnect-initial-ms") = options["--reconnect-initial-ms"]
        /\ Meant(argv, "--reconnect-max-ms") = options["--reconnect-max-ms"]
    BY <1>4 DEF Numbers, Texts
  <2> QED
    BY <2>1 DEF OptionsComplete, TokenValid, Whole
<1>7. Refusable(argv) <=> ~ OptionsComplete
  BY <1>2, <1>3, <1>5, <1>6 DEF Refusable, SoFar
<1>8. DOMAIN options = Numbers \cup Texts
  BY DEF MainInv
<1>9. status = Running
  BY <1>1 DEF ControlInv
<1>10. CASE OptionsComplete /\ pc' = "initialize" /\ status' = status
  BY <1>1, <1>4, <1>5, <1>7, <1>8, <1>9, <1>10 DEF CommandInv, AcceptedAsWritten, Running
<1>11. CASE ~OptionsComplete /\ pc' = "exited" /\ status' = 2
  BY <1>1, <1>7, <1>11 DEF CommandInv, AcceptedAsWritten
<1> QED
  BY <1>1, <1>10, <1>11

\* Steps after the command line, or which end the process before it is taken.
PastCommand ==
  /\ pc' \notin {"parse", "initialize"}
  /\ status' \in {Running, Killed, 3} \/ (status' = 0 /\ limit' # 0)

(***************************************************************************)
(* Such steps have nothing to do with the command line.                    *)
(***************************************************************************)
LEMMA CommandPast ==
  ASSUME PastCommand
  PROVE  CommandInv'
  BY DEF PastCommand, CommandInv, AcceptedAsWritten, Running, Killed

(***************************************************************************)
(* Every step preserves the part about the command line.                   *)
(***************************************************************************)
LEMMA CommandNext ==
  ASSUME ControlInv, MainInv, CommandInv, [Next]_vars
  PROVE  CommandInv'
<1> USE CommandPast DEF PastCommand, Starting, Receiving, Finishing, mainVars, streamVars, ControlInv
<1>1. ASSUME ParseHelp PROVE CommandInv'
  BY <1>1, HelpStep
<1>2. ASSUME ParseRefuses PROVE CommandInv'
  BY <1>2, RefuseStep
<1>3. ASSUME ParseOption PROVE CommandInv'
  BY <1>3, OptionStep
<1>4. ASSUME ParseEnds PROVE CommandInv'
  BY <1>4, EndStep
<1>5. ASSUME Initialized PROVE CommandInv'
  BY <1>5 DEF Initialized
<1>6. ASSUME InitializeFails PROVE CommandInv'
  BY <1>6 DEF InitializeFails, Exit
<1>7. ASSUME RunReturns PROVE CommandInv'
  BY <1>7 DEF RunReturns
<1>8. ASSUME Connects PROVE CommandInv'
  BY <1>8 DEF Connects, SendFrame, Fail
<1>9. ASSUME ConnectFails PROVE CommandInv'
  BY <1>9 DEF ConnectFails, Fail
<1>10. ASSUME Signal PROVE CommandInv'
  BY <1>10 DEF Signal, Exit
<1>11. CASE UNCHANGED vars
  BY <1>11 DEF vars, CommandInv, AcceptedAsWritten, ReadSoFar
<1>12. ASSUME Exited PROVE CommandInv'
  BY <1>11, <1>12 DEF Exited
<1>13. ASSUME SendSome, UNCHANGED mainVars PROVE CommandInv'
  BY <1>13 DEF SendSome, StartReceive
<1>14. ASSUME SendFails, UNCHANGED mainVars PROVE CommandInv'
  BY <1>14, SendFailsCases DEF StartReceive
<1>15. ASSUME ReceiveStopped, UNCHANGED mainVars PROVE CommandInv'
  BY <1>15 DEF ReceiveStopped, Fail
<1>16. ASSUME ReceiveTimesOut, UNCHANGED mainVars PROVE CommandInv'
  BY <1>16 DEF ReceiveTimesOut, Fail
<1>17. ASSUME StartPoll, UNCHANGED mainVars PROVE CommandInv'
  BY <1>17 DEF StartPoll
<1>18. ASSUME HeaderReceived, UNCHANGED mainVars PROVE CommandInv'
  BY <1>18 DEF HeaderReceived, Fail
<1>19. ASSUME PayloadReceived, UNCHANGED mainVars PROVE CommandInv'
  BY <1>19 DEF PayloadReceived
<1>20. ASSUME PollDisconnected, UNCHANGED mainVars PROVE CommandInv'
  BY <1>20 DEF PollDisconnected, Fail
<1>21. ASSUME PollReady, UNCHANGED mainVars PROVE CommandInv'
  BY <1>21 DEF PollReady
<1>22. ASSUME PollExpires, UNCHANGED mainVars PROVE CommandInv'
  BY <1>22 DEF PollExpires
<1>23. ASSUME Tick, UNCHANGED mainVars PROVE CommandInv'
  BY <1>23 DEF Tick
<1>24. ASSUME Recv, UNCHANGED mainVars PROVE CommandInv'
  BY <1>24 DEF Recv
<1>25. ASSUME RecvEnds, UNCHANGED mainVars PROVE CommandInv'
  BY <1>25 DEF RecvEnds, Fail
<1>26. ASSUME RecvFails, UNCHANGED mainVars PROVE CommandInv'
  BY <1>26 DEF RecvFails, Fail
<1>27. ASSUME PollFails, UNCHANGED mainVars PROVE CommandInv'
  BY <1>27 DEF PollFails, Fail
<1>28. ASSUME ProxyWrites, UNCHANGED mainVars PROVE CommandInv'
  BY <1>28 DEF ProxyWrites, Greeted, InSession
<1>29. ASSUME ProxyCloses, UNCHANGED mainVars PROVE CommandInv'
  BY <1>29 DEF ProxyCloses, Connected, InSession
<1>30. ASSUME HandleFrame, UNCHANGED mainVars PROVE CommandInv'
  <2>1. Handled
    BY <1>30, HandleFrameCases, LimitInRange DEF HandleFrame, LimitUsable
  <2> QED
    BY <1>30, <2>1 DEF Handled, StartReceive
<1>31. ASSUME CloseSession, UNCHANGED mainVars PROVE CommandInv'
  BY <1>31 DEF CloseSession
<1>32. ASSUME SessionEnds, UNCHANGED mainVars PROVE CommandInv'
  BY <1>32 DEF SessionEnds
<1>33. ASSUME LlmShutdown PROVE CommandInv'
  <2>1. limit \in Limits /\ limit' = limit
    BY <1>33 DEF LlmShutdown, MainInv
  <2>2. limit' # 0
    BY <2>1, LimitsRange
  <2> QED
    BY <1>33, <2>2 DEF LlmShutdown, Exit
<1>34. ASSUME CallbackStep \/ ProxyReads, UNCHANGED mainVars PROVE CommandInv'
  <2>1. Aside
    BY <1>34, AsideSteps
  <2>2. CASE pc \notin {"parse", "initialize"}
    BY <1>34, <2>1, <2>2 DEF Aside, CommandInv, AcceptedAsWritten
  <2>3. CASE pc \in {"parse", "initialize"}
    BY <1>34, <2>1, <2>3 DEF Aside, CommandInv, AcceptedAsWritten, ReadSoFar
  <2> QED
    BY <2>2, <2>3
<1> QED
  BY <1>1, <1>2, <1>3, <1>4, <1>5, <1>6, <1>7, <1>8, <1>9, <1>10, <1>11, <1>12,
     <1>13, <1>14, <1>15, <1>16, <1>17, <1>18, <1>19, <1>20, <1>21, <1>22, <1>23,
     <1>24, <1>25, <1>26, <1>27, <1>28, <1>29, <1>30, <1>31, <1>32, <1>33, <1>34
  DEF Next, MainStep, StreamNext, SessionStep, CloseStep, ProxyStep, SendStep,
      ReceiveStep

-----------------------------------------------------------------------------

(***************************************************************************)
(* When recv reports the end of the stream, every frame that was written   *)
(* to the end has been delivered: receive_exact still lacks bytes of the   *)
(* next.                                                                   *)
(***************************************************************************)
LEMMA AllReadAtClose ==
  ASSUME MainInv, DataInv, DeliveredInv, ReadInv, ControlInv,
         pc = "recv", taken = written
  PROVE  1..Len(delivered) = WhollyWritten
<1> DEFINE d == Len(delivered)
<1>1. /\ script \in Seq(String) /\ IsScript(script, limit)
      /\ Here \in Nat /\ Here = Position(script, d)
      /\ d \in 0..Len(script) /\ Len(script) \in Nat /\ Here \leq written /\ written \in Nat
  BY ScriptStrings, HereNatural DEF DeliveredInv, DataInv, Here
<1>2. WhollyWritten =
        {k \in 1..Len(script) : (\A j \in 1..k : script[j].frame)
                                  /\ Position(script, k) \leq written}
  BY DEF WhollyWritten, Framed, Position
<1>3. \A j \in 1..d : script[j].frame
  BY DEF DeliveredInv
<1>4. \A k \in 0..Len(script) : \A m \in 0..k :
        Position(script, k) \in Nat /\ Position(script, m) \leq Position(script, k)
  <2>1. \A k \in 0..Len(script) : Position(script, k) \in 0..Len(Bytes(script))
    BY <1>1, BytesOfScript
  <2>2. \A k \in 0..Len(script) : \A m \in 0..k :
          Position(script, m) \leq Position(script, k)
    BY <1>1, BytesOfScript
  <2> QED
    BY <2>1, <2>2
<1> HIDE DEF d
<1>5. ASSUME NEW k \in 1..d PROVE k \in WhollyWritten
  <2>1. k \in 1..Len(script) /\ k \in 0..d /\ k \in 0..Len(script)
    BY <1>1
  <2>2. Position(script, k) \leq Position(script, d) /\ Position(script, k) \in Nat
    BY <1>1, <1>4, <2>1
  <2>3. Position(script, k) \leq written
    BY <1>1, <2>2
  <2>4. \A j \in 1..k : script[j].frame
    BY <1>1, <1>3
  <2> QED
    BY <1>2, <2>1, <2>3, <2>4
<1>6. ASSUME NEW k \in WhollyWritten PROVE k \in 1..d
  <2> SUFFICES ASSUME ~(k \leq d) PROVE FALSE
    BY <1>1, <1>2
  <2> DEFINE n == d + 1
             b == script[n].bytes
  <2>1. k \in 1..Len(script) /\ n \in 1..k /\ n \in 1..Len(script) /\ n - 1 = d
    BY <1>1, <1>2
  <2>2. script[n].frame /\ Position(script, n) \leq written
    <3>1. k \in 0..Len(script) /\ n \in 0..k /\ n \in 0..Len(script)
      BY <1>1, <2>1
    <3>2. Position(script, n) \leq Position(script, k)
          /\ Position(script, n) \in Nat /\ Position(script, k) \in Nat
      BY <1>4, <3>1
    <3>3. script[n].frame /\ Position(script, k) \leq written
      BY <1>2, <2>1
    <3> HIDE DEF n
    <3> QED
      BY <1>1, <3>2, <3>3
  <2> HIDE DEF n
  <2>3. IsFrame(b, limit) /\ b \in Seq(Byte)
    BY <1>1, <2>1, <2>2, ScriptPieces DEF IsScript
  <2>4. /\ Len(b) = 8 + DecodeSize(b)
        /\ Len(b) \geq 8 /\ Len(b) \in Nat /\ DecodeSize(b) \in Nat
    <3> HIDE DEF b
    <3> QED
      BY <2>3, SizeAnnounced DEF IsFrame, Announces, HeaderBytes
  <2>5. Position(script, n) = Here + Len(b)
    BY <1>1, <2>1, BytesOfScript
  <2>6. Len(buf) < need /\ Len(buf) \in Nat /\ need \in Nat
    BY LimitNatural DEF ReadInv, DataInv, HeaderBytes
  <2>7. CASE part = "header"
    <3>1. written = Here + Len(buf) /\ need = 8
      BY <2>7 DEF ReadInv, Receiving, InHeader, DataInv, HeaderBytes
    <3> HIDE DEF b
    <3> QED
      BY <1>1, <2>2, <2>4, <2>5, <2>6, <3>1
  <2>8. CASE part = "payload"
    <3>1. written = Here + 8 + Len(buf)
          /\ DecodeSize(SubSeq(Bytes(script), Here + 1, Here + 8)) = need
      BY <2>8 DEF ReadInv, Receiving, InPayload, Piece
    <3>2. DecodeSize(SubSeq(Bytes(script), Here + 1, Here + 8)) = DecodeSize(b)
      BY <1>1, <2>1, <2>4, HeaderOfString
    <3> HIDE DEF b
    <3> QED
      BY <1>1, <2>2, <2>4, <2>5, <2>6, <3>1, <3>2
  <2> QED
    BY <2>7, <2>8 DEF ControlInv
<1>7. 1..d = WhollyWritten
  BY <1>5, <1>6
<1> QED
  BY <1>7 DEF d

\* Steps that do not close, and leave what was written and delivered alone.
SameOutcome == UNCHANGED <<error, delivered, script, written>> \/ error' # "closed"

(***************************************************************************)
(* Such steps preserve ClosedAfterDelivery.                                *)
(***************************************************************************)
LEMMA ClosedKept ==
  ASSUME ClosedAfterDelivery, SameOutcome
  PROVE  ClosedAfterDelivery'
  BY DEF ClosedAfterDelivery, SameOutcome, WhollyWritten, Framed

(***************************************************************************)
(* Every step preserves ClosedAfterDelivery; RecvEnds is the one that      *)
(* makes the error "closed".                                               *)
(***************************************************************************)
LEMMA ClosedNext ==
  ASSUME ControlInv, MainInv, DataInv, DeliveredInv, ReadInv,
         ClosedAfterDelivery, [Next]_vars
  PROVE  ClosedAfterDelivery'
<1> USE ClosedKept
    DEF SameOutcome, ControlInv, Receiving, Finishing, mainVars, sendVars, receiveVars, proxyVars,
        streamVars
<1>1. ASSUME ParseHelp PROVE ClosedAfterDelivery'
  BY <1>1 DEF ParseHelp, Exit
<1>2. ASSUME ParseRefuses PROVE ClosedAfterDelivery'
  BY <1>2 DEF ParseRefuses, Exit
<1>3. ASSUME ParseOption PROVE ClosedAfterDelivery'
  BY <1>3 DEF ParseOption
<1>4. ASSUME ParseEnds PROVE ClosedAfterDelivery'
  BY <1>4 DEF ParseEnds, Exit
<1>5. ASSUME Initialized PROVE ClosedAfterDelivery'
  BY <1>5 DEF Initialized
<1>6. ASSUME InitializeFails PROVE ClosedAfterDelivery'
  BY <1>6 DEF InitializeFails, Exit
<1>7. ASSUME RunReturns PROVE ClosedAfterDelivery'
  BY <1>7 DEF RunReturns
<1>8. ASSUME Connects PROVE ClosedAfterDelivery'
  BY <1>8 DEF Connects, SendFrame, Fail
<1>9. ASSUME ConnectFails PROVE ClosedAfterDelivery'
  BY <1>9 DEF ConnectFails, Fail
<1>10. ASSUME Signal PROVE ClosedAfterDelivery'
  BY <1>10 DEF Signal, Exit
<1>11. ASSUME Exited PROVE ClosedAfterDelivery'
  BY <1>11 DEF Exited, vars
<1>12. ASSUME SendSome, UNCHANGED mainVars PROVE ClosedAfterDelivery'
  BY <1>12 DEF SendSome, StartReceive
<1>13. ASSUME SendFails, UNCHANGED mainVars PROVE ClosedAfterDelivery'
  BY <1>13, SendFailsCases DEF Finishing
<1>14. ASSUME ReceiveStopped, UNCHANGED mainVars PROVE ClosedAfterDelivery'
  BY <1>14 DEF ReceiveStopped, Fail
<1>15. ASSUME ReceiveTimesOut, UNCHANGED mainVars PROVE ClosedAfterDelivery'
  BY <1>15 DEF ReceiveTimesOut, Fail
<1>16. ASSUME StartPoll, UNCHANGED mainVars PROVE ClosedAfterDelivery'
  BY <1>16 DEF StartPoll
<1>17. ASSUME HeaderReceived, UNCHANGED mainVars PROVE ClosedAfterDelivery'
  BY <1>17 DEF HeaderReceived, Fail
<1>18. ASSUME PayloadReceived, UNCHANGED mainVars PROVE ClosedAfterDelivery'
  BY <1>18 DEF PayloadReceived
<1>19. ASSUME PollDisconnected, UNCHANGED mainVars PROVE ClosedAfterDelivery'
  BY <1>19 DEF PollDisconnected, Fail
<1>20. ASSUME PollReady, UNCHANGED mainVars PROVE ClosedAfterDelivery'
  BY <1>20 DEF PollReady
<1>21. ASSUME PollExpires, UNCHANGED mainVars PROVE ClosedAfterDelivery'
  BY <1>21 DEF PollExpires
<1>22. ASSUME Tick, UNCHANGED mainVars PROVE ClosedAfterDelivery'
  BY <1>22 DEF Tick
<1>23. ASSUME Recv, UNCHANGED mainVars PROVE ClosedAfterDelivery'
  BY <1>23 DEF Recv
<1>24. ASSUME RecvEnds, UNCHANGED mainVars PROVE ClosedAfterDelivery'
  <2>1. 1..Len(delivered) = WhollyWritten
    BY <1>24, AllReadAtClose DEF RecvEnds
  <2>2. UNCHANGED <<delivered, script, written>>
    BY <1>24 DEF RecvEnds
  <2> QED
    BY <2>1, <2>2 DEF ClosedAfterDelivery, WhollyWritten, Framed
<1>25. ASSUME RecvFails, UNCHANGED mainVars PROVE ClosedAfterDelivery'
  BY <1>25 DEF RecvFails, Fail
<1>26. ASSUME PollFails, UNCHANGED mainVars PROVE ClosedAfterDelivery'
  BY <1>26 DEF PollFails, Fail
<1>27. ASSUME ProxyWrites, UNCHANGED mainVars PROVE ClosedAfterDelivery'
  BY <1>27 DEF ProxyWrites, Greeted, InSession
<1>28. ASSUME ProxyCloses, UNCHANGED mainVars PROVE ClosedAfterDelivery'
  BY <1>28 DEF ProxyCloses
<1>30. ASSUME HandleFrame, UNCHANGED mainVars PROVE ClosedAfterDelivery'
  <2>1. Handled
    BY <1>30, HandleFrameCases, LimitInRange DEF HandleFrame, LimitUsable
  <2> QED
    BY <2>1 DEF Handled
<1>31. ASSUME CloseSession, UNCHANGED mainVars PROVE ClosedAfterDelivery'
  BY <1>31 DEF CloseSession
<1>32. ASSUME SessionEnds, UNCHANGED mainVars PROVE ClosedAfterDelivery'
  BY <1>32 DEF SessionEnds
<1>33. ASSUME LlmShutdown PROVE ClosedAfterDelivery'
  BY <1>33 DEF LlmShutdown, Exit
<1>34. ASSUME CallbackStep \/ ProxyReads, UNCHANGED mainVars PROVE ClosedAfterDelivery'
  <2>1. Aside
    BY <1>34, AsideSteps
  <2> QED
    BY <2>1 DEF Aside
<1>29. CASE UNCHANGED vars
  BY <1>29 DEF vars
<1> QED
  BY <1>1, <1>2, <1>3, <1>4, <1>5, <1>6, <1>7, <1>8, <1>9, <1>10, <1>11, <1>12,
     <1>13, <1>14, <1>15, <1>16, <1>17, <1>18, <1>19, <1>20, <1>21, <1>22, <1>23,
     <1>24, <1>25, <1>26, <1>27, <1>28, <1>29, <1>30, <1>31, <1>32, <1>33, <1>34
  DEF Next, MainStep, StreamNext, SessionStep, CloseStep, ProxyStep, SendStep,
      ReceiveStep

-----------------------------------------------------------------------------

\* The calls: a pending one is one that LiteLlm has not done with, and a callback
\* that sends belongs to a pending one.
CallInv ==
  /\ working \in Nat /\ pending \in 0..working
  /\ answering \in BOOLEAN /\ closing \in BOOLEAN /\ writable \in BOOLEAN
  /\ answering => pending > 0

(***************************************************************************)
(* The part about the calls holds initially.                               *)
(***************************************************************************)
LEMMA CallInit == Init => CallInv
<1> SUFFICES ASSUME Init PROVE CallInv
  OBVIOUS
<1>1. working = 0 /\ pending = 0
  BY DEF Init
<1>2. working \in Nat /\ pending \in 0..working
  BY <1>1
<1>3. answering = FALSE /\ closing = FALSE /\ writable = TRUE
  BY DEF Init
<1> QED
  BY <1>2, <1>3, Zenon DEF CallInv

(***************************************************************************)
(* Every step preserves the part about the calls.                          *)
(***************************************************************************)
LEMMA CallNext ==
  ASSUME CallInv, [Next]_vars
  PROVE  CallInv'
<1> USE DEF CallInv, mainVars, callVars, sendVars, receiveVars, proxyVars, streamVars
<1>1. ASSUME ParseHelp PROVE CallInv'
  BY <1>1 DEF ParseHelp, Exit
<1>2. ASSUME ParseRefuses PROVE CallInv'
  BY <1>2 DEF ParseRefuses, Exit
<1>3. ASSUME ParseOption PROVE CallInv'
  BY <1>3 DEF ParseOption
<1>4. ASSUME ParseEnds PROVE CallInv'
  BY <1>4 DEF ParseEnds, Exit
<1>5. ASSUME Initialized PROVE CallInv'
  BY <1>5 DEF Initialized
<1>6. ASSUME InitializeFails PROVE CallInv'
  BY <1>6 DEF InitializeFails, Exit
<1>7. ASSUME RunReturns PROVE CallInv'
  BY <1>7 DEF RunReturns
<1>8. ASSUME Connects PROVE CallInv'
  BY <1>8 DEF Connects, SendFrame
<1>9. ASSUME ConnectFails PROVE CallInv'
  BY <1>9 DEF ConnectFails, Fail
<1>10. ASSUME Signal PROVE CallInv'
  BY <1>10 DEF Signal, Exit
<1>11. ASSUME Exited PROVE CallInv'
  BY <1>11 DEF Exited, vars
<1>12. ASSUME SendSome, UNCHANGED mainVars PROVE CallInv'
  BY <1>12 DEF SendSome, StartReceive
<1>13. ASSUME SendFails, UNCHANGED mainVars PROVE CallInv'
  BY <1>13 DEF SendFails, GivesUp
<1>14. ASSUME ReceiveStopped, UNCHANGED mainVars PROVE CallInv'
  BY <1>14 DEF ReceiveStopped, Fail
<1>15. ASSUME ReceiveTimesOut, UNCHANGED mainVars PROVE CallInv'
  BY <1>15 DEF ReceiveTimesOut, Fail
<1>16. ASSUME StartPoll, UNCHANGED mainVars PROVE CallInv'
  BY <1>16 DEF StartPoll
<1>17. ASSUME HeaderReceived, UNCHANGED mainVars PROVE CallInv'
  BY <1>17 DEF HeaderReceived, Fail
<1>18. ASSUME PayloadReceived, UNCHANGED mainVars PROVE CallInv'
  BY <1>18 DEF PayloadReceived
<1>19. ASSUME PollDisconnected, UNCHANGED mainVars PROVE CallInv'
  BY <1>19 DEF PollDisconnected, Fail
<1>20. ASSUME PollReady, UNCHANGED mainVars PROVE CallInv'
  BY <1>20 DEF PollReady
<1>21. ASSUME PollExpires, UNCHANGED mainVars PROVE CallInv'
  BY <1>21 DEF PollExpires
<1>22. ASSUME Tick, UNCHANGED mainVars PROVE CallInv'
  BY <1>22 DEF Tick
<1>23. ASSUME Recv, UNCHANGED mainVars PROVE CallInv'
  BY <1>23 DEF Recv
<1>24. ASSUME RecvEnds, UNCHANGED mainVars PROVE CallInv'
  BY <1>24 DEF RecvEnds, Fail
<1>25. ASSUME RecvFails, UNCHANGED mainVars PROVE CallInv'
  BY <1>25 DEF RecvFails, Fail
<1>26. ASSUME PollFails, UNCHANGED mainVars PROVE CallInv'
  BY <1>26 DEF PollFails, Fail
<1>27. ASSUME ProxyWrites, UNCHANGED mainVars PROVE CallInv'
  BY <1>27 DEF ProxyWrites
<1>28. ASSUME ProxyCloses, UNCHANGED mainVars PROVE CallInv'
  BY <1>28 DEF ProxyCloses
<1>30. ASSUME HandleFrame, UNCHANGED mainVars PROVE CallInv'
  <2>1. CASE HandleHelloAck
    BY <2>1 DEF HandleHelloAck, SendFrame
  <2>2. CASE IgnoreMessage \/ ReplyToMessage \/ RefuseMessage
    <3>1. UNCHANGED <<callVars, writable>>
      BY <2>2 DEF IgnoreMessage, ReplyToMessage, RefuseMessage, SendFrame
    <3> QED
      BY <3>1
  <2>3. CASE AcceptCall
    BY <2>3 DEF AcceptCall
  <2>4. CASE RejectCall
    BY <2>4 DEF RejectCall, SendFrame, GivesUp
  <2> QED
    BY <1>30, <2>1, <2>2, <2>3, <2>4 DEF HandleFrame, HandleMessage
<1>31. ASSUME CloseSession, UNCHANGED mainVars PROVE CallInv'
  BY <1>31 DEF CloseSession
<1>32. ASSUME SessionEnds, UNCHANGED mainVars PROVE CallInv'
  BY <1>32 DEF SessionEnds
<1>33. ASSUME LlmShutdown PROVE CallInv'
  BY <1>33 DEF LlmShutdown, Exit
<1>34. ASSUME CallbackBegins PROVE CallInv'
  <2>1. /\ UNCHANGED working
        /\ pending' = pending \/ (pending > 0 /\ pending' = pending - 1)
    BY <1>34 DEF CallbackBegins
  <2>2. working' \in Nat /\ pending' \in 0..working'
    BY <2>1
  <2>3. answering' \in BOOLEAN /\ closing' \in BOOLEAN /\ writable' \in BOOLEAN
    BY <1>34, Zenon DEF CallbackBegins, GivesUp
  <2>4. answering' => pending > 0 /\ pending' = pending
    BY <1>34, Zenon DEF CallbackBegins
  <2>5. answering' => pending' > 0
    BY <2>4, Zenon
  <2> QED
    BY <2>2, <2>3, <2>5, Zenon
<1>35. ASSUME CallbackSends PROVE CallInv'
  <2>1. /\ UNCHANGED working
        /\ pending' = pending \/ (pending > 0 /\ pending' = pending - 1)
    BY <1>35 DEF CallbackSends
  <2>2. working' \in Nat /\ pending' \in 0..working'
    BY <2>1
  <2>3. answering' \in BOOLEAN /\ closing' \in BOOLEAN /\ writable' \in BOOLEAN
    BY <1>35, Zenon DEF CallbackSends
  <2>4. answering' = FALSE
    BY <1>35 DEF CallbackSends
  <2> QED
    BY <2>2, <2>3, <2>4, Zenon
<1>36. ASSUME CallbackFails PROVE CallInv'
  <2>1. /\ UNCHANGED working
        /\ pending' = pending \/ (pending > 0 /\ pending' = pending - 1)
    BY <1>36 DEF CallbackFails
  <2>2. working' \in Nat /\ pending' \in 0..working'
    BY <2>1
  <2>3. answering' \in BOOLEAN /\ closing' \in BOOLEAN /\ writable' \in BOOLEAN
    BY <1>36, Zenon DEF CallbackFails, GivesUp
  <2>4. answering' = FALSE
    BY <1>36 DEF CallbackFails
  <2> QED
    BY <2>2, <2>3, <2>4, Zenon
<1>37. ASSUME WorkerFinishes PROVE CallInv'
  BY <1>37 DEF WorkerFinishes
<1>38. ASSUME ProxyReads PROVE CallInv'
  BY <1>38 DEF ProxyReads
<1>29. CASE UNCHANGED vars
  BY <1>29 DEF vars
<1> QED
  BY <1>1, <1>2, <1>3, <1>4, <1>5, <1>6, <1>7, <1>8, <1>9, <1>10, <1>11, <1>12,
     <1>13, <1>14, <1>15, <1>16, <1>17, <1>18, <1>19, <1>20, <1>21, <1>22, <1>23,
     <1>24, <1>25, <1>26, <1>27, <1>28, <1>29, <1>30, <1>31, <1>32, <1>33, <1>34,
     <1>35, <1>36, <1>37, <1>38
  DEF Next, MainStep, StreamNext, SessionStep, CloseStep, ProxyStep, SendStep,
      ReceiveStep, CallbackStep
-----------------------------------------------------------------------------

\* The frames that have passed the last look at the stop flag.
Passed == Len(delivered) + (IF pc = "handle" THEN 1 ELSE 0)

\* Once a stop is requested, no further frame passes: the one that had may be handled.
PassedInv == passed \in Nat /\ (stop => Passed \leq passed)

(***************************************************************************)
(* It holds initially.                                                     *)
(***************************************************************************)
LEMMA PassedInit == Init => PassedInv
  BY DEF Init, PassedInv

\* Steps with which no frame passes.
SamePassed ==
  /\ UNCHANGED <<passed, stop, delivered>>
  /\ pc' = "handle" => pc = "handle"

(***************************************************************************)
(* Such steps preserve it.                                                 *)
(***************************************************************************)
LEMMA PassedKept ==
  ASSUME PassedInv, Len(delivered) \in Nat, SamePassed
  PROVE  PassedInv'
  BY DEF PassedInv, SamePassed, Passed

(***************************************************************************)
(* Every step preserves it: a frame passes only if no stop is requested,   *)
(* and handling it makes one more delivered of the one that had passed.    *)
(***************************************************************************)
LEMMA PassedNext ==
  ASSUME PassedInv, DataInv, LimitUsable, [Next]_vars
  PROVE  PassedInv'
<1>0. delivered \in Seq(Seq(Byte)) /\ buf \in Seq(Byte) /\ Len(delivered) \in Nat
  BY DEF DataInv
<1> USE <1>0, PassedKept DEF SamePassed, mainVars, sendVars, receiveVars, proxyVars, streamVars
<1>1. ASSUME ParseHelp PROVE PassedInv'
  BY <1>1 DEF ParseHelp, Exit
<1>2. ASSUME ParseRefuses PROVE PassedInv'
  BY <1>2 DEF ParseRefuses, Exit
<1>3. ASSUME ParseOption PROVE PassedInv'
  BY <1>3 DEF ParseOption
<1>4. ASSUME ParseEnds PROVE PassedInv'
  BY <1>4 DEF ParseEnds, Exit
<1>5. ASSUME Initialized PROVE PassedInv'
  BY <1>5 DEF Initialized
<1>6. ASSUME InitializeFails PROVE PassedInv'
  BY <1>6 DEF InitializeFails, Exit
<1>7. ASSUME RunReturns PROVE PassedInv'
  BY <1>7 DEF RunReturns
<1>8. ASSUME Connects PROVE PassedInv'
  BY <1>8 DEF Connects, SendFrame, Fail
<1>9. ASSUME ConnectFails PROVE PassedInv'
  BY <1>9 DEF ConnectFails, Fail
<1>10. ASSUME Signal PROVE PassedInv'
  <2>1. delivered' = delivered
    BY <1>10 DEF Signal
  <2>2. CASE UNCHANGED <<stop, passed>> /\ pc' = "exited"
    BY <2>1, <2>2
  <2>3. CASE passed' = Passed /\ (pc' = "handle" => pc = "handle")
    BY <2>1, <2>3 DEF PassedInv, Passed
  <2> QED
    BY <1>10, <2>2, <2>3 DEF Signal, Exit, Passed
<1>11. ASSUME Exited PROVE PassedInv'
  BY <1>11 DEF Exited, vars
<1>12. ASSUME SendSome, UNCHANGED mainVars PROVE PassedInv'
  BY <1>12 DEF SendSome, StartReceive
<1>13. ASSUME SendFails, UNCHANGED mainVars PROVE PassedInv'
  BY <1>13, SendFailsCases DEF StartReceive
<1>14. ASSUME ReceiveStopped, UNCHANGED mainVars PROVE PassedInv'
  BY <1>14 DEF ReceiveStopped, Fail
<1>15. ASSUME ReceiveTimesOut, UNCHANGED mainVars PROVE PassedInv'
  BY <1>15 DEF ReceiveTimesOut, Fail
<1>16. ASSUME StartPoll, UNCHANGED mainVars PROVE PassedInv'
  BY <1>16 DEF StartPoll
<1>17. ASSUME HeaderReceived, UNCHANGED mainVars PROVE PassedInv'
  BY <1>17 DEF HeaderReceived, Fail
<1>18. ASSUME PayloadReceived, UNCHANGED mainVars PROVE PassedInv'
  BY <1>18 DEF PayloadReceived, StopsHere, PassedInv
<1>19. ASSUME PollDisconnected, UNCHANGED mainVars PROVE PassedInv'
  BY <1>19 DEF PollDisconnected, Fail
<1>20. ASSUME PollReady, UNCHANGED mainVars PROVE PassedInv'
  BY <1>20 DEF PollReady
<1>21. ASSUME PollExpires, UNCHANGED mainVars PROVE PassedInv'
  BY <1>21 DEF PollExpires
<1>22. ASSUME Tick, UNCHANGED mainVars PROVE PassedInv'
  BY <1>22 DEF Tick
<1>23. ASSUME Recv, UNCHANGED mainVars PROVE PassedInv'
  BY <1>23 DEF Recv
<1>24. ASSUME RecvEnds, UNCHANGED mainVars PROVE PassedInv'
  BY <1>24 DEF RecvEnds, Fail
<1>25. ASSUME RecvFails, UNCHANGED mainVars PROVE PassedInv'
  BY <1>25 DEF RecvFails, Fail
<1>26. ASSUME PollFails, UNCHANGED mainVars PROVE PassedInv'
  BY <1>26 DEF PollFails, Fail
<1>27. ASSUME ProxyWrites, UNCHANGED mainVars PROVE PassedInv'
  BY <1>27 DEF ProxyWrites
<1>28. ASSUME ProxyCloses, UNCHANGED mainVars PROVE PassedInv'
  BY <1>28 DEF ProxyCloses
<1>30. ASSUME HandleFrame, UNCHANGED mainVars PROVE PassedInv'
  <2>1. Handled
    BY <1>30, HandleFrameCases DEF HandleFrame, LimitUsable
  <2>2. delivered' = Append(delivered, buf) /\ pc = "handle" /\ pc' # "handle"
        /\ UNCHANGED <<passed, stop>>
    BY <1>30, <2>1 DEF Handled, StartReceive
  <2>3. Len(delivered') = Len(delivered) + 1
    BY <2>2
  <2> QED
    BY <2>2, <2>3 DEF PassedInv, Passed
<1>31. ASSUME CloseSession, UNCHANGED mainVars PROVE PassedInv'
  BY <1>31 DEF CloseSession
<1>32. ASSUME SessionEnds, UNCHANGED mainVars PROVE PassedInv'
  BY <1>32 DEF SessionEnds
<1>33. ASSUME LlmShutdown PROVE PassedInv'
  BY <1>33 DEF LlmShutdown, Exit
<1>34. ASSUME CallbackStep \/ ProxyReads, UNCHANGED mainVars PROVE PassedInv'
  <2>1. Aside
    BY <1>34, AsideSteps
  <2> QED
    BY <1>34, <2>1 DEF Aside
<1>29. CASE UNCHANGED vars
  BY <1>29 DEF vars
<1> QED
  BY <1>1, <1>2, <1>3, <1>4, <1>5, <1>6, <1>7, <1>8, <1>9, <1>10, <1>11, <1>12,
     <1>13, <1>14, <1>15, <1>16, <1>17, <1>18, <1>19, <1>20, <1>21, <1>22, <1>23,
     <1>24, <1>25, <1>26, <1>27, <1>28, <1>29, <1>30, <1>31, <1>32, <1>33, <1>34
  DEF Next, MainStep, StreamNext, SessionStep, CloseStep, ProxyStep, SendStep,
      ReceiveStep
-----------------------------------------------------------------------------

Inv ==
  /\ ControlInv /\ ClockInv /\ MainInv /\ HelloFits /\ DataInv
  /\ DeliveredInv /\ ReadInv /\ ClosedAfterDelivery /\ CommandInv
  /\ CallInv /\ PassedInv

(***************************************************************************)
(* The inductive invariant holds in every reachable state.                 *)
(***************************************************************************)
LEMMA InvHolds == Spec => []Inv
<1>1. Init => Inv
  BY ControlInit, ClockInit, MainInit, DataInit, FramesInit, CommandInit, CallInit,
     PassedInit
  DEF Inv, Init, HelloFits, ClosedAfterDelivery
<1>2. Inv /\ [Next]_vars => Inv'
  <2> SUFFICES ASSUME Inv, [Next]_vars PROVE Inv'
    OBVIOUS
  <2>1. LimitUsable
    BY LimitInRange DEF Inv
  <2> QED
    BY <2>1, ControlNext, ClockNext, MainNext, HelloNext, DataNext, FramesNext,
       ClosedNext, CommandNext, CallNext, PassedNext
    DEF Inv
<1> QED
  BY <1>1, <1>2, PTL DEF Spec

(***************************************************************************)
(* Types, and the bounds of receive_exact: it never holds more than the    *)
(* eight bytes of a header or a payload within the limit, whatever the     *)
(* proxy sends (reverse_client.cpp, ReceiveFrame).                         *)
(***************************************************************************)
THEOREM TypeCorrect == Spec => []TypeOK
<1>1. Inv => TypeOK
  BY DEF Inv, TypeOK, ControlInv, Starting, Receiving, Finishing, ClockInv, DataInv, CallInv
<1> QED
  BY <1>1, InvHolds, PTL

(***************************************************************************)
(* The handshake's deadline covers the header and the payload together and *)
(* is exceeded by less than one poll, for any timeout, poll interval and   *)
(* dripping of the bytes.                                                  *)
(***************************************************************************)
THEOREM DeadlineMet == Spec => []DeadlineHolds
<1>1. Inv => DeadlineHolds
  BY StreamAssumption DEF Inv, ClockInv, DeadlineHolds, ClockMax
<1> QED
  BY <1>1, InvHolds, PTL

(***************************************************************************)
(* For every command line main accepts, hello is refused as too long only  *)
(* if the token has bytes that JSON escapes.                               *)
(***************************************************************************)
THEOREM HelloAccepted == Spec => []HelloFits
<1>1. Inv => HelloFits
  BY DEF Inv
<1> QED
  BY <1>1, InvHolds, PTL

(***************************************************************************)
(* A command line is accepted exactly when it is one, for lines of any     *)
(* length and numbers of any number of digits: the options are then the    *)
(* values written last, and otherwise the exit status is 2, or 0 when help *)
(* is asked for before anything is wrong.                                  *)
(***************************************************************************)
THEOREM CommandLineCorrect == Spec => []AcceptedAsWritten
<1>1. Inv => AcceptedAsWritten
  BY DEF Inv, CommandInv
<1> QED
  BY <1>1, InvHolds, PTL

(***************************************************************************)
(* For every script, frame limit and way of cutting the stream into        *)
(* pieces, ReceiveFrame returns the payloads of the frames sent, whole and *)
(* in order, takes nothing else for a frame, and loses none of them to an  *)
(* orderly close.                                                          *)
(***************************************************************************)
THEOREM FramesCorrect == Spec => []FramesFaithful
<1>1. Inv => FramesFaithful
  <2> SUFFICES ASSUME Inv PROVE DeliveredIsSent
    BY DEF Inv, FramesFaithful
  <2>1. /\ MainInv /\ DataInv /\ DeliveredInv
    BY DEF Inv
  <2> DEFINE d == Len(delivered)
  <2>2. /\ script \in Seq(String) /\ Len(script) \in Nat /\ d \in 0..Len(script)
        /\ Here = Position(script, d) /\ Here \in Nat /\ Here \leq written /\ written \in Nat
    BY <2>1, ScriptStrings, HereNatural DEF DataInv, DeliveredInv, Here
  <2>3. ASSUME NEW k \in 1..d PROVE k \in WhollyWritten
    <3>1. k \in 1..Len(script) /\ \A j \in 1..k : script[j].frame
      BY <2>1, <2>2 DEF DeliveredInv
    <3>2. Position(script, k) \leq Position(script, d) /\ Position(script, k) \in Nat
      <4>1. k \in 0..d /\ d \in 0..Len(script)
        BY <2>2
      <4>2. \A m \in 0..d : Position(script, m) \leq Position(script, d)
        BY <2>2, <4>1, BytesOfScript
      <4>3. Position(script, k) \in 0..Len(Bytes(script)) /\ Bytes(script) \in Seq(Byte)
        BY <2>2, <4>1, BytesOfScript
      <4> QED
        BY <4>1, <4>2, <4>3
    <3>3. Position(script, k) \leq written
      BY <2>2, <3>2
    <3> QED
      BY <3>1, <3>3 DEF WhollyWritten, Framed, Position
  <2> QED
    BY <2>1, <2>3 DEF DeliveredInv, DeliveredIsSent
<1> QED
  BY <1>1, InvHolds, PTL

(***************************************************************************)
(* For every script and way of cutting the stream into pieces: once a      *)
(* signal has come, the frames handled are those of which ReceiveFrame had *)
(* received all the payload and looked at stopRequested for the last time  *)
(* before it.                                                              *)
(***************************************************************************)
THEOREM StopRespected == Spec => []HandledIfPassed
<1>1. Inv => HandledIfPassed
  <2> SUFFICES ASSUME Inv, stop PROVE Len(delivered) \leq passed
    BY DEF HandledIfPassed
  <2>1. Len(delivered) \in Nat /\ passed \in Nat /\ Passed \leq passed
    BY DEF Inv, DataInv, PassedInv
  <2> QED
    BY <2>1 DEF Passed
<1> QED
  BY <1>1, InvHolds, PTL

=============================================================================
