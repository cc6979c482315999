--------------------------- MODULE RecursionLemmas ---------------------------
(***************************************************************************)
(* Induction over the natural numbers, stated with a set instead of a      *)
(* predicate, and what it gives for functions defined by recursion over an *)
(* interval: they exist, and satisfy the equation that defines them.  The  *)
(* loops of the source over the characters of an argument or the strings   *)
(* of a stream are modelled by such functions.                             *)
(***************************************************************************)
EXTENDS Integers, WellFoundedInduction, TLAPS

(***************************************************************************)
(* A set that has 0, and with every number its successor, has all of them. *)
(* The least number that it lacks would have a predecessor in it.          *)
(***************************************************************************)
LEMMA NatSetInduction ==
  ASSUME NEW S, 0 \in S, \A n \in Nat : n \in S => n + 1 \in S
  PROVE  Nat \subseteq S
<1> SUFFICES ASSUME Nat \ S # {} PROVE FALSE
  OBVIOUS
<1> DEFINE R == OpToRel(<, Nat)
<1>1. PICK x \in Nat \ S : \A y \in Nat \ S : ~ (<<y, x>> \in R)
  <2>1. IsWellFoundedOn(R, Nat)
    BY NatLessThanWellFounded
  <2> HIDE DEF R
  <2>2. Nat \ S \subseteq Nat
    OBVIOUS
  <2> QED
    BY <2>1, <2>2, WFMin
<1>2. x # 0 /\ x - 1 \in Nat /\ x - 1 < x
  OBVIOUS
<1>3. <<x - 1, x>> \in R
  BY <1>2 DEF OpToRel
<1>4. x - 1 \in S
  BY <1>1, <1>2, <1>3
<1> QED
  BY <1>2, <1>4

(***************************************************************************)
(* The same for the numbers up to N.                                       *)
(***************************************************************************)
LEMMA IntervalInduction ==
  ASSUME NEW N \in Nat, NEW S, 0 \in S,
         \A n \in 1..N : n - 1 \in S => n \in S
  PROVE  0..N \subseteq S
<1> DEFINE T == {n \in Nat : n \leq N => n \in S}
<1>1. 0 \in T
  OBVIOUS
<1>2. \A n \in Nat : n \in T => n + 1 \in T
  <2> SUFFICES ASSUME NEW n \in Nat, n \in T, n + 1 \leq N PROVE n + 1 \in S
    OBVIOUS
  <2>1. n \in S
    OBVIOUS
  <2>2. n + 1 \in 1..N /\ (n + 1) - 1 = n
    OBVIOUS
  <2> QED
    BY <2>1, <2>2
<1>3. Nat \subseteq T
  <2> HIDE DEF T
  <2> QED
    BY <1>1, <1>2, NatSetInduction
<1> QED
  BY <1>3

\* g is the function on 0..N that begins with c and goes on by the step F.
Iterates(g, c, F, V, N) ==
  /\ g \in [0..N -> V]
  /\ g[0] = c
  /\ \A n \in 1..N : g[n] = F[<<g[n-1], n>>]

(***************************************************************************)
(* A value c for 0 and a step F from each value to the next one define a   *)
(* function on 0..N.                                                       *)
(***************************************************************************)
LEMMA FiniteRecursion ==
  ASSUME NEW V, NEW c \in V, NEW N \in Nat, NEW F \in [V \X (1..N) -> V]
  PROVE  \E g : Iterates(g, c, F, V, N)
<1> DEFINE Solves(g, k) == g[0] = c /\ \A n \in 1..k : g[n] = F[<<g[n-1], n>>]
           S == {k \in 0..N : \E g \in [0..k -> V] : Solves(g, k)}
<1>1. 0 \in S
  <2> DEFINE g0 == [i \in 0..0 |-> c]
  <2>1. g0 \in [0..0 -> V] /\ Solves(g0, 0)
    OBVIOUS
  <2> HIDE DEF g0, Solves
  <2> QED
    BY <2>1
<1>2. \A k \in 1..N : k - 1 \in S => k \in S
  <2> SUFFICES ASSUME NEW k \in 1..N, k - 1 \in S PROVE k \in S
    OBVIOUS
  <2>1. PICK g \in [0..(k-1) -> V] : Solves(g, k-1)
    OBVIOUS
  <2> DEFINE next == F[<<g[k-1], k>>]
             h == [i \in 0..k |-> IF i < k THEN g[i] ELSE next]
  <2>2. g[k-1] \in V
    OBVIOUS
  <2>3. next \in V
    BY <2>2
  <2> HIDE DEF next
  <2>4. h \in [0..k -> V]
    BY <2>3
  <2>5. h[k] = F[<<h[k-1], k>>]
    <3>1. h[k] = next /\ h[k-1] = g[k-1]
      OBVIOUS
    <3> HIDE DEF h
    <3> QED
      BY <3>1 DEF next
  <2>6. ASSUME NEW n \in 1..(k-1) PROVE h[n] = F[<<h[n-1], n>>]
    <3>1. h[n] = g[n] /\ h[n-1] = g[n-1]
      OBVIOUS
    <3> QED
      BY <2>1, <3>1
  <2>7. h[0] = c
    BY <2>1
  <2>8. Solves(h, k)
    <3> HIDE DEF h
    <3>1. ASSUME NEW n \in 1..k PROVE h[n] = F[<<h[n-1], n>>]
      <4>1. n = k \/ n \in 1..(k-1)
        OBVIOUS
      <4> QED
        BY <2>5, <2>6, <4>1
    <3> QED
      BY <2>7, <3>1
  <2> HIDE DEF h, Solves
  <2> QED
    BY <2>4, <2>8
<1>3. 0..N \subseteq S
  <2> HIDE DEF S
  <2> QED
    BY <1>1, <1>2, IntervalInduction
<1>4. N \in 0..N
  OBVIOUS
<1> QED
  BY <1>3, <1>4 DEF Iterates

\* The value that F steps to depends on the values of what is smaller.
StepsFromSmaller(F, V, T, size) ==
  /\ size \in [T -> Nat]
  /\ F \in [[T -> V] \X T -> V]
  /\ \A g, h \in [T -> V], t \in T :
       (\A u \in T : size[u] < size[t] => g[u] = h[u])
         => F[<<g, t>>] = F[<<h, t>>]

\* g is a function on T that takes these steps.
StepsBy(g, F, V, T) == g \in [T -> V] /\ \A t \in T : g[t] = F[<<g, t>>]

(***************************************************************************)
(* A step F from the values of what is smaller to a value defines a        *)
(* function on T, when each member of T has a size.                        *)
(***************************************************************************)
LEMMA SizeRecursion ==
  ASSUME NEW V, NEW d \in V, NEW T, NEW size, NEW F, StepsFromSmaller(F, V, T, size)
  PROVE  \E g : StepsBy(g, F, V, T)
<1> USE DEF StepsFromSmaller
<1> DEFINE Solves(g, n) == \A t \in T : size[t] < n => g[t] = F[<<g, t>>]
           S == {n \in Nat : \E g \in [T -> V] : Solves(g, n)}
           Apply(g) == [t \in T |-> F[<<g, t>>]]
<1>1. ASSUME NEW g \in [T -> V] PROVE Apply(g) \in [T -> V]
  OBVIOUS
<1>2. 0 \in S
  <2>1. [t \in T |-> d] \in [T -> V]
    OBVIOUS
  <2>2. \A t \in T : ~ (size[t] < 0)
    OBVIOUS
  <2> QED
    BY <2>1, <2>2
<1>3. \A n \in Nat : n \in S => n + 1 \in S
  <2> SUFFICES ASSUME NEW n \in Nat, n \in S PROVE n + 1 \in S
    OBVIOUS
  <2>1. PICK g \in [T -> V] : Solves(g, n)
    OBVIOUS
  <2>2. ASSUME NEW t \in T, size[t] < n + 1 PROVE Apply(g)[t] = F[<<Apply(g), t>>]
    <3>1. \A u \in T : size[u] < size[t] => Apply(g)[u] = g[u]
      <4> SUFFICES ASSUME NEW u \in T, size[u] < size[t] PROVE Apply(g)[u] = g[u]
        OBVIOUS
      <4>1. size[u] < n
        <5>1. size[u] \in Nat /\ size[t] \in Nat
          OBVIOUS
        <5> QED
          BY <2>2, <5>1
      <4> QED
        BY <2>1, <4>1
    <3>2. F[<<Apply(g), t>>] = F[<<g, t>>]
      <4>1. Apply(g) \in [T -> V]
        BY <1>1
      <4> HIDE DEF Apply
      <4> QED
        BY <3>1, <4>1
    <3>3. Apply(g)[t] = F[<<g, t>>]
      OBVIOUS
    <3> QED
      BY <3>2, <3>3
  <2>3. Apply(g) \in [T -> V]
    BY <1>1
  <2>4. Solves(Apply(g), n + 1)
    <3> HIDE DEF Apply
    <3> QED
      BY <2>2
  <2> HIDE DEF Apply, Solves
  <2> QED
    BY <2>3, <2>4
<1>4. \A n \in Nat : \E g \in [T -> V] : Solves(g, n)
  <2>1. Nat \subseteq S
    <3> HIDE DEF S
    <3> QED
      BY <1>2, <1>3, NatSetInduction
  <2> HIDE DEF Solves
  <2> QED
    BY <2>1
<1>5. ASSUME NEW g \in [T -> V], NEW h \in [T -> V], NEW m \in Nat, NEW n \in Nat,
             Solves(g, m), Solves(h, n)
      PROVE  \A t \in T : size[t] < m /\ size[t] < n => g[t] = h[t]
  <2> DEFINE I == {k \in Nat : \A t \in T : size[t] < k /\ size[t] < m /\ size[t] < n
                                 => g[t] = h[t]}
  <2>1. 0 \in I
    OBVIOUS
  <2>2. \A k \in Nat : k \in I => k + 1 \in I
    <3> SUFFICES ASSUME NEW k \in Nat, k \in I, NEW t \in T,
                        size[t] < k + 1, size[t] < m, size[t] < n
                 PROVE  g[t] = h[t]
      OBVIOUS
    <3>1. \A u \in T : size[u] < size[t] => g[u] = h[u]
      <4> SUFFICES ASSUME NEW u \in T, size[u] < size[t] PROVE g[u] = h[u]
        OBVIOUS
      <4>1. size[u] \in Nat /\ size[t] \in Nat
        OBVIOUS
      <4>2. size[u] < k /\ size[u] < m /\ size[u] < n
        BY <4>1
      <4> QED
        BY <4>2
    <3>2. F[<<g, t>>] = F[<<h, t>>]
      BY <3>1
    <3> QED
      BY <1>5, <3>2
  <2>3. Nat \subseteq I
    <3> HIDE DEF I
    <3> QED
      BY <2>1, <2>2, NatSetInduction
  <2> TAKE t \in T
  <2>4. size[t] + 1 \in I /\ size[t] < size[t] + 1
    BY <2>3
  <2> QED
    BY <2>4
<1> DEFINE s(n) == CHOOSE g \in [T -> V] : Solves(g, n)
           G == [t \in T |-> s(size[t] + 1)[t]]
<1>6. \A n \in Nat : s(n) \in [T -> V] /\ Solves(s(n), n)
  <2> HIDE DEF Solves
  <2> QED
    BY <1>4
<1> HIDE DEF s
<1>7. G \in [T -> V]
  BY <1>6
<1>8. ASSUME NEW t \in T PROVE G[t] = F[<<G, t>>]
  <2> DEFINE g == s(size[t] + 1)
  <2>1. size[t] \in Nat /\ size[t] < size[t] + 1
    OBVIOUS
  <2>2. g \in [T -> V] /\ Solves(g, size[t] + 1)
    <3>1. size[t] + 1 \in Nat
      BY <2>1
    <3> HIDE DEF Solves
    <3> QED
      BY <1>6, <3>1
  <2>3. \A u \in T : size[u] < size[t] => G[u] = g[u]
    <3> SUFFICES ASSUME NEW u \in T, size[u] < size[t] PROVE s(size[u] + 1)[u] = g[u]
      OBVIOUS
    <3>1. size[u] \in Nat
      OBVIOUS
    <3>2. /\ size[u] < size[u] + 1 /\ size[u] < size[t] + 1
          /\ size[u] + 1 \in Nat /\ size[t] + 1 \in Nat
      BY <2>1, <3>1
    <3> DEFINE h == s(size[u] + 1)
    <3>3. h \in [T -> V] /\ Solves(h, size[u] + 1)
      <4> HIDE DEF Solves
      <4> QED
        BY <1>6, <3>2
    <3> HIDE DEF g, h, Solves
    <3>4. h[u] = g[u]
      BY <1>5, <2>2, <3>2, <3>3
    <3> QED
      BY <3>4 DEF h
  <2>4. F[<<G, t>>] = F[<<g, t>>]
    <3> HIDE DEF G, g
    <3> QED
      BY <1>7, <2>2, <2>3
  <2>5. g[t] = F[<<g, t>>]
    <3> HIDE DEF g
    <3> QED
      BY <2>1, <2>2
  <2> QED
    BY <2>4, <2>5
<1> HIDE DEF G
<1> QED
  BY <1>7, <1>8 DEF StepsBy

=============================================================================
