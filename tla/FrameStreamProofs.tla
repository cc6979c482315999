-------------------------- MODULE FrameStreamProofs --------------------------
(***************************************************************************)
(* What a byte stream means as frames: lemmas about the operators of       *)
(* FrameStream, for scripts, sizes and payloads of any length.             *)
(***************************************************************************)
EXTENDS FrameStream, RecursionLemmas, SequenceTheorems

String == [frame : BOOLEAN, bytes : Seq(Byte)]

(***************************************************************************)
(* What \o returns: the elements of its first argument, then those of the  *)
(* second.                                                                 *)
(***************************************************************************)
LEMMA Concatenation ==
  ASSUME NEW T, NEW a \in Seq(T), NEW b \in Seq(T)
  PROVE  /\ a \o b \in Seq(T)
         /\ Len(a \o b) = Len(a) + Len(b)
         /\ \A i \in 1..Len(a) : (a \o b)[i] = a[i]
         /\ \A i \in 1..Len(b) : (a \o b)[Len(a) + i] = b[i]
  OBVIOUS

(***************************************************************************)
(* The places of a second part lie within the whole.                       *)
(***************************************************************************)
LEMMA WithinSum ==
  ASSUME NEW a \in Nat, NEW b \in Nat, NEW c, c = a + b
  PROVE  a \leq c /\ \A i \in 1..b : a + i \in 1..c
  OBVIOUS

-----------------------------------------------------------------------------

(***************************************************************************)
(* Bytes concatenates the strings one after the other: its recursive       *)
(* function exists, consists of byte sequences, and satisfies its          *)
(* equation.                                                               *)
(***************************************************************************)
LEMMA BytesEquation ==
  ASSUME NEW s \in Seq(String)
  PROVE  \E g \in [0..Len(s) -> Seq(Byte)] :
           /\ g[0] = <<>>
           /\ \A n \in 1..Len(s) : g[n] = g[n-1] \o s[n].bytes
           /\ Bytes(s) = g[Len(s)]
<1> DEFINE N == Len(s)
           V == Seq(Byte)
           F == [p \in V \X (1..N) |-> p[1] \o s[p[2]].bytes]
           Eq(f) == f = [n \in 0..N |-> IF n = 0 THEN <<>> ELSE f[n-1] \o s[n].bytes]
           u == CHOOSE f : Eq(f)
<1>1. N \in Nat /\ <<>> \in V
  OBVIOUS
<1>2. ASSUME NEW n \in 1..N PROVE s[n].bytes \in V
  <2>1. s[n] \in String
    OBVIOUS
  <2> QED
    BY <2>1 DEF String
<1>3. F \in [V \X (1..N) -> V]
  <2>1. ASSUME NEW p \in V \X (1..N) PROVE p[1] \o s[p[2]].bytes \in V
    BY <1>2
  <2> QED
    BY <2>1
<1>4. PICK g : Iterates(g, <<>>, F, V, N)
  <2> HIDE DEF F, N, V
  <2> QED
    BY <1>1, <1>3, FiniteRecursion
<1>5. \A n \in 1..N : g[n] = g[n-1] \o s[n].bytes
  <2> TAKE n \in 1..N
  <2> HIDE DEF V, N
  <2>1. n-1 \in 0..N
    BY <1>1
  <2>2. <<g[n-1], n>> \in V \X (1..N)
    BY <1>4, <2>1 DEF Iterates
  <2> QED
    BY <1>4, <2>2 DEF Iterates
<1>6. Eq(g)
  <2> HIDE DEF N, V
  <2>1. \A n \in 0..N : n = 0 \/ n \in 1..N
    BY <1>1
  <2> QED
   BY <1>4, <1>5, <2>1 DEF Iterates
<1>7. Eq(u)
  <2> HIDE DEF Eq
  <2> QED
    BY <1>6
<1>8. Bytes(s) = u[N]
  BY DEF Bytes
<1> HIDE DEF u, N, V, F
<1>9. u[N] = g[N]
  <2> DEFINE S == {n \in 0..N : u[n] = g[n]}
  <2>1. 0 \in S
    BY <1>1, <1>4, <1>7 DEF Iterates
  <2>2. \A n \in 1..N : n - 1 \in S => n \in S
    <3> SUFFICES ASSUME NEW n \in 1..N, u[n-1] = g[n-1] PROVE u[n] = g[n]
      BY <1>1
    <3>1. n \in 0..N /\ n # 0
      BY <1>1
    <3>2. u[n] = u[n-1] \o s[n].bytes
      BY <1>7, <3>1
    <3> QED
      BY <1>5, <3>2
  <2>3. 0..N \subseteq S
    <3> HIDE DEF S
    <3> QED
      BY <1>1, <2>1, <2>2, IntervalInduction
  <2> QED
    BY <1>1, <2>3
<1> QED
  BY <1>4, <1>5, <1>8, <1>9 DEF N, V, Iterates

\* Where the k-th string of s ends in the stream.
Position(s, k) == Len(Bytes(SubSeq(s, 1, k)))

(***************************************************************************)
(* The bytes of the first k strings are the k-th value of that function.   *)
(***************************************************************************)
LEMMA BytesUpTo ==
  ASSUME NEW s \in Seq(String),
         NEW g \in [0..Len(s) -> Seq(Byte)],
         g[0] = <<>>,
         \A n \in 1..Len(s) : g[n] = g[n-1] \o s[n].bytes,
         NEW k \in 0..Len(s)
  PROVE  Bytes(SubSeq(s, 1, k)) = g[k]
<1> DEFINE t == SubSeq(s, 1, k)
<1>1. t \in Seq(String) /\ Len(t) = k /\ \A n \in 1..k : t[n] = s[n]
  OBVIOUS
<1> HIDE DEF t
<1>2. PICK h \in [0..k -> Seq(Byte)] :
           /\ h[0] = <<>>
           /\ \A n \in 1..k : h[n] = h[n-1] \o t[n].bytes
           /\ Bytes(t) = h[k]
  BY <1>1, BytesEquation
<1> DEFINE S == {n \in 0..k : h[n] = g[n]}
<1>3. k \in Nat /\ 1..k \subseteq 1..Len(s)
  OBVIOUS
<1>4. 0 \in S
  BY <1>2, <1>3
<1>5. ASSUME NEW n \in 1..k, n - 1 \in S PROVE n \in S
  <2>1. n \in 0..k /\ n \in 1..Len(s) /\ h[n-1] = g[n-1] /\ t[n] = s[n]
    BY <1>1, <1>3, <1>5
  <2>2. h[n] = h[n-1] \o t[n].bytes /\ g[n] = g[n-1] \o s[n].bytes
    BY <1>2, <2>1
  <2> QED
    BY <2>1, <2>2
<1>6. 0..k \subseteq S
  <2> HIDE DEF S
  <2> QED
    BY <1>3, <1>4, <1>5, IntervalInduction
<1> QED
  BY <1>2, <1>3, <1>6 DEF t

(***************************************************************************)
(* A script as one stream: string k begins where the first k - 1 end, and  *)
(* its bytes are found there. This is all that the proofs use of Bytes.    *)
(***************************************************************************)
LEMMA BytesOfScript ==
  ASSUME NEW s \in Seq(String)
  PROVE  /\ Bytes(s) \in Seq(Byte)
         /\ Position(s, 0) = 0
         /\ Position(s, Len(s)) = Len(Bytes(s))
         /\ \A k \in 0..Len(s) : Position(s, k) \in 0..Len(Bytes(s))
         /\ \A k \in 1..Len(s) :
              Position(s, k) = Position(s, k-1) + Len(s[k].bytes)
         /\ \A k \in 1..Len(s) : \A i \in 1..Len(s[k].bytes) :
              Bytes(s)[Position(s, k-1) + i] = s[k].bytes[i]
         /\ \A k \in 0..Len(s) : \A m \in 0..k : Position(s, m) \leq Position(s, k)
<1> DEFINE N == Len(s)
<1>1. PICK g \in [0..N -> Seq(Byte)] :
           /\ g[0] = <<>>
           /\ \A n \in 1..N : g[n] = g[n-1] \o s[n].bytes
           /\ Bytes(s) = g[N]
  BY BytesEquation
<1>2. N \in Nat
  OBVIOUS
<1>3. ASSUME NEW n \in 1..N PROVE s[n].bytes \in Seq(Byte)
  <2>1. s[n] \in String
    OBVIOUS
  <2> QED
    BY <2>1 DEF String
<1>4. \A k \in 0..N : Position(s, k) = Len(g[k])
  BY <1>1, BytesUpTo DEF Position
<1> HIDE DEF N
<1>5. ASSUME NEW k \in 1..N
      PROVE  /\ g[k] \in Seq(Byte) /\ g[k-1] \in Seq(Byte)
             /\ Len(g[k]) = Len(g[k-1]) + Len(s[k].bytes)
             /\ \A i \in 1..Len(g[k-1]) : g[k][i] = g[k-1][i]
             /\ \A i \in 1..Len(s[k].bytes) : g[k][Len(g[k-1]) + i] = s[k].bytes[i]
  <2>1. k-1 \in 0..N /\ k \in 0..N
    BY <1>2
  <2>2. g[k] \in Seq(Byte) /\ g[k-1] \in Seq(Byte)
    BY <2>1
  <2>3. g[k] = g[k-1] \o s[k].bytes
    BY <1>1
  <2> QED
    <3> DEFINE p == g[k-1]
               q == s[k].bytes
    <3>1. p \in Seq(Byte) /\ q \in Seq(Byte) /\ g[k] = p \o q
      BY <1>3, <2>2, <2>3
    <3> HIDE DEF p, q
    <3>2. /\ p \o q \in Seq(Byte)
          /\ Len(p \o q) = Len(p) + Len(q)
          /\ \A i \in 1..Len(p) : (p \o q)[i] = p[i]
          /\ \A i \in 1..Len(q) : (p \o q)[Len(p) + i] = q[i]
      BY <3>1, Concatenation
    <3> QED
      BY <3>1, <3>2 DEF p, q
<1> DEFINE Pre(m, k) == /\ Len(g[m]) \leq Len(g[k])
                        /\ \A i \in 1..Len(g[m]) : g[k][i] = g[m][i]
           S == {k \in 0..N : \A m \in 0..k : Pre(m, k)}
<1>6. 0 \in S
  <2>1. g[0] \in Seq(Byte)
    BY <1>2
  <2> QED
    BY <1>2, <2>1
<1>7. ASSUME NEW k \in 1..N, k - 1 \in S PROVE k \in S
  <2> SUFFICES ASSUME NEW m \in 0..k PROVE Pre(m, k)
    BY <1>2
  <2>1. CASE m = k
    <3>1. Len(g[k]) \in Nat
      BY <1>5
    <3> QED
      BY <2>1, <3>1
  <2>2. CASE m \in 0..(k-1)
    <3>1. Pre(m, k-1)
      BY <1>7, <2>2
    <3>2. m \in 0..N
      BY <1>2, <2>2
    <3>3. /\ Len(g[m]) \in Nat /\ Len(g[k-1]) \in Nat
          /\ Len(g[k]) \in Nat /\ Len(s[k].bytes) \in Nat
      BY <1>3, <1>5, <3>2
    <3>4. Len(g[k-1]) \leq Len(g[k])
      BY <1>5, <3>3, WithinSum
    <3>5. ASSUME NEW i \in 1..Len(g[m]) PROVE g[k][i] = g[m][i]
      <4>1. i \in 1..Len(g[k-1])
        BY <3>1, <3>3
      <4> QED
        BY <1>5, <3>1, <4>1
    <3> QED
      BY <3>1, <3>3, <3>4, <3>5
  <2> QED
    BY <1>2, <2>1, <2>2
<1>8. 0..N \subseteq S
  <2> HIDE DEF S
  <2> QED
    BY <1>2, <1>6, <1>7, IntervalInduction
<1>9. \A k \in 0..N : Pre(k, N)
  BY <1>2, <1>8
<1>15. ASSUME NEW k \in 0..N, NEW m \in 0..k PROVE Position(s, m) \leq Position(s, k)
  <2>1. m \in 0..N
    BY <1>2
  <2>2. Pre(m, k)
    BY <1>8
  <2> QED
    BY <1>4, <2>1, <2>2
<1>10. Bytes(s) = g[N] /\ g[N] \in Seq(Byte)
  BY <1>1, <1>2
<1> HIDE DEF S
<1>11. Position(s, 0) = 0 /\ Position(s, N) = Len(Bytes(s))
  BY <1>1, <1>2, <1>4
<1>12. ASSUME NEW k \in 0..N PROVE Position(s, k) \in 0..Len(Bytes(s))
  <2>1. g[k] \in Seq(Byte)
    OBVIOUS
  <2> QED
    BY <1>4, <1>9, <1>10, <2>1
<1>13. ASSUME NEW k \in 1..N
       PROVE Position(s, k) = Position(s, k-1) + Len(s[k].bytes)
  <2>1. k-1 \in 0..N /\ k \in 0..N
    BY <1>2
  <2> QED
    BY <1>4, <1>5, <2>1
<1>14. ASSUME NEW k \in 1..N, NEW i \in 1..Len(s[k].bytes)
       PROVE  Bytes(s)[Position(s, k-1) + i] = s[k].bytes[i]
  <2>1. k-1 \in 0..N /\ k \in 0..N
    BY <1>2
  <2>2. Len(g[k-1]) \in Nat /\ Len(s[k].bytes) \in Nat
    BY <1>3, <1>5
  <2>3. Len(g[k-1]) + i \in 1..Len(g[k])
    <3>1. Len(g[k]) = Len(g[k-1]) + Len(s[k].bytes)
      BY <1>5
    <3> QED
      BY <2>2, <3>1, WithinSum
  <2>4. g[N][Len(g[k-1]) + i] = g[k][Len(g[k-1]) + i]
    BY <1>9, <2>1, <2>3
  <2> QED
    BY <1>4, <1>5, <1>10, <2>1, <2>4
<1> QED
  BY <1>10, <1>11, <1>12, <1>13, <1>14, <1>15 DEF N

(***************************************************************************)
(* protocol_codec's four bytes of a size determine it: writing the number  *)
(* read from them gives them back.                                         *)
(***************************************************************************)
LEMMA SizeRoundTrip ==
  ASSUME NEW a \in Byte, NEW b \in Byte, NEW c \in Byte, NEW d \in Byte
  PROVE  EncodeSize(a * 2^24 + b * 2^16 + c * 2^8 + d) = <<a, b, c, d>>
<1> DEFINE n == a * 2^24 + b * 2^16 + c * 2^8 + d
<1>1. n \div 2^24 = a
  BY DEF Byte
<1>2. n \div 2^16 = a * 256 + b
  BY DEF Byte
<1>3. n \div 2^8 = (a * 256 + b) * 256 + c
  BY DEF Byte
<1>4. n = ((a * 256 + b) * 256 + c) * 256 + d
  BY DEF Byte
<1>5. \A m \in Nat, r \in Byte : (m * 256 + r) % 256 = r
  BY DEF Byte
<1>6. a * 256 + b \in Nat /\ (a * 256 + b) * 256 + c \in Nat /\ a \in Nat
  BY DEF Byte
<1> HIDE DEF n
<1> QED
  BY <1>1, <1>2, <1>3, <1>4, <1>5, <1>6 DEF EncodeSize

(***************************************************************************)
(* EncodeFrame of the payload of a complete frame is the frame, byte for   *)
(* byte.                                                                   *)
(***************************************************************************)
LEMMA FrameRoundTrip ==
  ASSUME NEW b \in Seq(Byte), HasMagic(b), Len(b) = HeaderBytes + DecodeSize(b),
         DecodeSize(b) \in Nat
  PROVE  EncodeFrame(SubSeq(b, HeaderBytes + 1, Len(b))) = b
<1> DEFINE n == DecodeSize(b)
           p == SubSeq(b, HeaderBytes + 1, Len(b))
<1>1. b[1] = 76 /\ b[2] = 84 /\ b[3] = 83 /\ b[4] = 49
  <2>1. SubSeq(b, 1, 4) = <<76, 84, 83, 49>>
    BY DEF HasMagic, Magic
  <2>2. \A i \in 1..4 : SubSeq(b, 1, 4)[i] = b[i]
    BY DEF HeaderBytes
  <2> DEFINE m == <<76, 84, 83, 49>>
  <2>3. m[1] = 76 /\ m[2] = 84 /\ m[3] = 83 /\ m[4] = 49
    OBVIOUS
  <2> HIDE DEF m
  <2>4. \A i \in 1..4 : m[i] = b[i]
    BY <2>1, <2>2 DEF m
  <2> QED
    BY <2>3, <2>4
<1>2. b[5] \in Byte /\ b[6] \in Byte /\ b[7] \in Byte /\ b[8] \in Byte
  BY DEF HeaderBytes
<1>3. EncodeSize(n) = <<b[5], b[6], b[7], b[8]>>
  BY <1>2, SizeRoundTrip DEF DecodeSize
<1>4. p \in Seq(Byte) /\ Len(p) = n /\ \A i \in 1..n : p[i] = b[8 + i]
  BY DEF HeaderBytes
<1> HIDE DEF p, n
<1>5. EncodeFrame(p) = <<76, 84, 83, 49>> \o <<b[5], b[6], b[7], b[8]>> \o p
  BY <1>3, <1>4 DEF EncodeFrame, Magic
<1> DEFINE h == <<76, 84, 83, 49>> \o <<b[5], b[6], b[7], b[8]>>
<1>6. h \in Seq(Byte) /\ Len(h) = 8 /\ \A i \in 1..8 : h[i] = b[i]
  BY <1>1, <1>2 DEF Byte
<1> HIDE DEF h
<1>7. /\ h \o p \in Seq(Byte)
      /\ Len(h \o p) = Len(h) + Len(p)
      /\ \A i \in 1..Len(h) : (h \o p)[i] = h[i]
      /\ \A i \in 1..Len(p) : (h \o p)[Len(h) + i] = p[i]
  <2>1. h \in Seq(Byte) /\ p \in Seq(Byte)
    BY <1>4, <1>6
  <2> QED
    BY <2>1, Concatenation
<1>8. Len(b) = 8 + n /\ n \in Nat
  BY DEF HeaderBytes, n
<1> DEFINE f == h \o p
<1>9. /\ f \in Seq(Byte) /\ Len(f) = Len(b)
      /\ \A i \in 1..8 : f[i] = h[i]
      /\ \A i \in 1..n : f[8 + i] = p[i]
  BY <1>4, <1>6, <1>7, <1>8
<1> HIDE DEF f
<1>10. ASSUME NEW i \in 1..Len(b) PROVE f[i] = b[i]
  <2>1. CASE i \in 1..8
    BY <1>6, <1>9, <2>1
  <2>2. CASE i - 8 \in 1..n
    <3>1. 8 + (i - 8) = i
      OBVIOUS
    <3> QED
      BY <1>4, <1>9, <2>2, <3>1
  <2> QED
    BY <1>8, <2>1, <2>2
<1>11. f = b
  BY <1>9, <1>10, SeqEqual
<1> QED
  BY <1>5, <1>11 DEF f, h, p

(***************************************************************************)
(* For every size that four bytes can hold, the number DecodeSize reads    *)
(* from a header is the one EncodeSize wrote there, whatever follows       *)
(* (protocol_codec.cpp, EncodeFrame and DecodeFrameSize).                  *)
(***************************************************************************)
THEOREM HeaderRoundTrip ==
  ASSUME NEW n \in 0 .. 2^32 - 1, NEW p \in Seq(Byte)
  PROVE  DecodeSize(Magic \o EncodeSize(n) \o p) = n
<1> DEFINE a == n \div 2^24
           b == (n \div 2^16) % 256
           c == (n \div 2^8) % 256
           d == n % 256
           h == Magic \o <<a, b, c, d>>
<1>1. a \in Byte /\ b \in Byte /\ c \in Byte /\ d \in Byte
  BY DEF Byte
<1>2. n = a * 2^24 + b * 2^16 + c * 2^8 + d
  OBVIOUS
<1>3. EncodeSize(n) = <<a, b, c, d>>
  BY DEF EncodeSize
<1> HIDE DEF a, b, c, d
<1>4. h \in Seq(Byte) /\ Len(h) = 8 /\ h[5] = a /\ h[6] = b /\ h[7] = c /\ h[8] = d
  BY <1>1 DEF Magic, Byte
<1> HIDE DEF h
<1> DEFINE f == h \o p
<1>5. \A i \in 5..8 : f[i] = h[i]
  <2>1. h \in Seq(Byte) /\ p \in Seq(Byte)
    BY <1>4
  <2>2. \A i \in 1..Len(h) : f[i] = h[i]
    BY <2>1, Concatenation
  <2> HIDE DEF f
  <2> QED
    BY <1>4, <2>2
<1>6. Magic \o EncodeSize(n) \o p = h \o p
  BY <1>3 DEF h
<1> QED
  <2>1. 5 \in 5..8 /\ 6 \in 5..8 /\ 7 \in 5..8 /\ 8 \in 5..8
    OBVIOUS
  <2>2. f[5] = a /\ f[6] = b /\ f[7] = c /\ f[8] = d
    BY <1>4, <1>5, <2>1
  <2>3. DecodeSize(Magic \o EncodeSize(n) \o p) = DecodeSize(f)
    BY <1>6
  <2> HIDE DEF f
  <2> QED
    BY <1>2, <2>2, <2>3 DEF DecodeSize
-----------------------------------------------------------------------------

(***************************************************************************)
(* Bytes are natural numbers.                                              *)
(***************************************************************************)
LEMMA ByteNatural == \A x \in Byte : x \in Nat
  BY DEF Byte

(***************************************************************************)
(* DecodeSize reads the size the proxy wrote.                              *)
(***************************************************************************)
LEMMA SizeAnnounced == \A h : Announced(h) = DecodeSize(h)
  BY DEF Announced, DecodeSize

(***************************************************************************)
(* DecodeSize reads a natural number from any eight bytes.                 *)
(***************************************************************************)
LEMMA DecodedNatural ==
  ASSUME NEW h \in Seq(Byte), Len(h) \geq 8
  PROVE  DecodeSize(h) \in Nat
<1>1. h[5] \in Nat /\ h[6] \in Nat /\ h[7] \in Nat /\ h[8] \in Nat
  <2>1. h[5] \in Byte /\ h[6] \in Byte /\ h[7] \in Byte /\ h[8] \in Byte
    OBVIOUS
  <2> QED
    BY <2>1, ByteNatural
<1>2. 2^24 \in Nat /\ 2^16 \in Nat /\ 2^8 \in Nat
  OBVIOUS
<1>3. \A x, y \in Nat : x * y \in Nat /\ x + y \in Nat
  OBVIOUS
<1>4. h[5] * 2^24 \in Nat /\ h[6] * 2^16 \in Nat /\ h[7] * 2^8 \in Nat
  BY <1>1, <1>2, <1>3
<1> QED
  BY <1>1, <1>3, <1>4 DEF DecodeSize

(***************************************************************************)
(* The strings of a script are sequences of bytes.                         *)
(***************************************************************************)
LEMMA ScriptPieces ==
  ASSUME NEW max, NEW s, IsScript(s, max)
  PROVE  s \in Seq(String) /\ \A k \in 1..Len(s) : s[k].bytes \in Seq(Byte)
<1>1. s \in Seq(String)
  BY DEF IsScript, String
<1>2. ASSUME NEW k \in 1..Len(s) PROVE s[k].bytes \in Seq(Byte)
  <2>1. s[k] \in String
    BY <1>1
  <2> QED
    BY <2>1 DEF String
<1> QED
  BY <1>1, <1>2

(***************************************************************************)
(* What ReceiveFrame makes of a header depends on its eight bytes only.    *)
(***************************************************************************)
LEMMA SameHeader ==
  ASSUME NEW a \in Seq(Byte), NEW b \in Seq(Byte), Len(a) \geq 8, Len(b) \geq 8,
         \A i \in 1..8 : a[i] = b[i]
  PROVE  (HasMagic(a) <=> HasMagic(b)) /\ DecodeSize(a) = DecodeSize(b)
<1>1. SubSeq(a, 1, 4) = SubSeq(b, 1, 4)
  <2> DEFINE x == SubSeq(a, 1, 4)
             y == SubSeq(b, 1, 4)
  <2>1. /\ x \in Seq(Byte) /\ Len(x) = 4 /\ \A i \in 1..4 : x[i] = a[i]
        /\ y \in Seq(Byte) /\ Len(y) = 4 /\ \A i \in 1..4 : y[i] = b[i]
    BY SMTT(30)
  <2> HIDE DEF x, y
  <2>2. \A i \in 1..Len(x) : x[i] = y[i]
    BY <2>1
  <2>3. x = y
    BY <2>1, <2>2, SeqEqual
  <2> QED
    BY <2>3 DEF x, y
<1>2. DecodeSize(a) = DecodeSize(b)
  <2>1. a[5] = b[5] /\ a[6] = b[6] /\ a[7] = b[7] /\ a[8] = b[8]
    OBVIOUS
  <2> QED
    BY <2>1 DEF DecodeSize
<1> QED
  BY <1>1, <1>2 DEF HasMagic

(***************************************************************************)
(* The eight bytes found in the stream where a string of the script begins *)
(* are that string's header.                                               *)
(***************************************************************************)
LEMMA HeaderOfString ==
  ASSUME NEW max, NEW s, IsScript(s, max), NEW k \in 1..Len(s),
         Len(s[k].bytes) \geq 8
  PROVE  LET here == Position(s, k-1)
             h    == SubSeq(Bytes(s), here + 1, here + 8)
             b    == s[k].bytes
         IN  (HasMagic(h) <=> HasMagic(b)) /\ DecodeSize(h) = DecodeSize(b)
<1> DEFINE here == Position(s, k-1)
           h    == SubSeq(Bytes(s), here + 1, here + 8)
           b    == s[k].bytes
           B    == Bytes(s)
<1>1. s \in Seq(String) /\ b \in Seq(Byte)
  BY ScriptPieces
<1>2. /\ B \in Seq(Byte) /\ here \in Nat
      /\ here + Len(b) \leq Len(B)
      /\ \A i \in 1..Len(b) : B[here + i] = b[i]
  <2>1. k-1 \in 0..Len(s) /\ k \in 0..Len(s)
    OBVIOUS
  <2>2. /\ B \in Seq(Byte) /\ here \in 0..Len(B)
        /\ Position(s, k) \in 0..Len(B) /\ Position(s, k) = here + Len(b)
        /\ \A i \in 1..Len(b) : B[here + i] = b[i]
    BY <1>1, <2>1, BytesOfScript
  <2> HIDE DEF here, b, B
  <2> QED
    BY <2>2
<1> HIDE DEF here, b, B
<1> DEFINE g == SubSeq(B, here + 1, here + 8)
<1>3. g \in Seq(Byte) /\ Len(g) = 8 /\ \A i \in 1..8 : g[i] = B[here + i]
  BY <1>1, <1>2 DEF b
<1> HIDE DEF g
<1>4. Len(b) \geq 8 /\ Len(g) \geq 8
  BY <1>3 DEF b
<1>5. \A i \in 1..8 : g[i] = b[i]
  <2>1. Len(b) \in Nat
    BY <1>1
  <2>2. \A i \in 1..8 : i \in 1..Len(b)
    BY <1>4, <2>1
  <2> QED
    BY <1>2, <1>3, <2>2
<1> QED
  BY <1>1, <1>3, <1>4, <1>5, SameHeader DEF g, B, b, here

(***************************************************************************)
(* The heart of the argument. When the stream, read from the end of the    *)
(* d-th string, has a valid header that announces n bytes, and n bytes     *)
(* after it, then the next string is a frame, it ends there, and the n     *)
(* bytes are its payload.                                                  *)
(***************************************************************************)
LEMMA NextFrame ==
  ASSUME NEW max \in Nat, NEW s, IsScript(s, max),
         NEW d \in 0..Len(s), NEW n \in 1..max,
         LET h == SubSeq(Bytes(s), Position(s, d) + 1, Position(s, d) + 8)
         IN  HasMagic(h) /\ DecodeSize(h) = n,
         Position(s, d) + 8 + n \leq Len(Bytes(s))
  PROVE  /\ d + 1 \in 1..Len(s) /\ s[d+1].frame
         /\ Position(s, d + 1) = Position(s, d) + 8 + n
         /\ EncodeFrame(SubSeq(Bytes(s), Position(s, d) + 9, Position(s, d) + 8 + n))
              = s[d+1].bytes
<1> DEFINE here == Position(s, d)
           B    == Bytes(s)
           h    == SubSeq(B, here + 1, here + 8)
           k    == d + 1
           b    == s[k].bytes
<1>1. s \in Seq(String)
  BY ScriptPieces
<1>2. B \in Seq(Byte) /\ here \in 0..Len(B) /\ Position(s, Len(s)) = Len(B)
  BY <1>1, BytesOfScript
<1>3. HasMagic(h) /\ DecodeSize(h) = n /\ here + 8 + n \leq Len(B)
  OBVIOUS
<1>4. k \in 1..Len(s) /\ k - 1 = d
  <2>1. d # Len(s)
    <3> HIDE DEF B
    <3> QED
      BY <1>2, <1>3
  <2> QED
    BY <1>1, <2>1
<1> HIDE DEF k, h, here, B
<1>5. b \in Seq(Byte)
  BY <1>4, ScriptPieces
<1>6. /\ Position(s, k) = here + Len(b) /\ Position(s, k) \leq Len(B)
      /\ \A i \in 1..Len(b) : B[here + i] = b[i]
  <2>1. k \in 0..Len(s)
    BY <1>1, <1>4
  <2>2. Position(s, k) \in 0..Len(B)
    BY <1>1, <2>1, BytesOfScript DEF B
  <2>3. Position(s, k) = Position(s, k-1) + Len(b)
    BY <1>1, <1>4, BytesOfScript
  <2>4. \A i \in 1..Len(b) : B[Position(s, k-1) + i] = b[i]
    BY <1>1, <1>4, BytesOfScript DEF B
  <2> HIDE DEF b
  <2> QED
    BY <1>2, <1>4, <2>2, <2>3, <2>4 DEF here
<1>7. Len(b) \geq 8 => (HasMagic(h) <=> HasMagic(b)) /\ DecodeSize(h) = DecodeSize(b)
  BY <1>4, HeaderOfString DEF h, here, B
<1>8. /\ s[k].frame => IsFrame(b, max)
      /\ ~s[k].frame => \/ k = Len(s) /\ Incomplete(b)
                        \/ Len(b) \geq HeaderBytes /\ ~Announces(b, max)
  BY <1>4 DEF IsScript
<1> HIDE DEF b
<1>9. s[k].frame
  <2> SUFFICES ASSUME ~s[k].frame PROVE FALSE
    OBVIOUS
  <2>1. CASE k = Len(s) /\ Incomplete(b)
    <3>1. Len(B) = here + Len(b)
      BY <1>2, <1>6, <2>1
    <3>2. Len(b) \geq 8 + n
      BY <1>2, <1>3, <1>5, <3>1
    <3>3. DecodeSize(b) = n
      BY <1>3, <1>5, <1>7, <3>2
    <3> QED
      BY <1>5, <2>1, <3>2, <3>3, SizeAnnounced DEF Incomplete, HeaderBytes
  <2>2. CASE Len(b) \geq HeaderBytes /\ ~Announces(b, max)
    <3>1. HasMagic(b) /\ DecodeSize(b) = n
      BY <1>3, <1>7, <2>2 DEF HeaderBytes
    <3> QED
      BY <2>2, <3>1, SizeAnnounced DEF Announces
  <2> QED
    BY <1>8, <2>1, <2>2
<1>10. /\ HasMagic(b) /\ Len(b) = HeaderBytes + DecodeSize(b)
       /\ Len(b) \geq 8 /\ DecodeSize(b) \in Nat
  <2>1. IsFrame(b, max)
    BY <1>8, <1>9
  <2> QED
    BY <1>5, <2>1, SizeAnnounced DEF IsFrame, Announces, HeaderBytes
<1>11. Len(b) = 8 + n
  BY <1>3, <1>7, <1>10 DEF HeaderBytes
<1> DEFINE p == SubSeq(B, here + 9, here + 8 + n)
           q == SubSeq(b, 9, 8 + n)
<1>12. p = q
  <2>1. n \in Nat /\ here \in Nat
    BY <1>2
  <2>2. p \in Seq(Byte) /\ Len(p) = n /\ \A i \in 1..n : p[i] = B[here + (8 + i)]
    BY <1>2, <1>3, <2>1
  <2>3. q \in Seq(Byte) /\ Len(q) = n /\ \A i \in 1..n : q[i] = b[8 + i]
    BY <1>5, <1>11, <2>1
  <2> HIDE DEF p, q
  <2>4. ASSUME NEW i \in 1..n PROVE p[i] = q[i]
    <3>1. 8 + i \in 1..Len(b)
      BY <1>11, <2>1
    <3> QED
      BY <1>6, <2>2, <2>3, <3>1
  <2> QED
    BY <2>2, <2>3, <2>4, SeqEqual
<1>13. EncodeFrame(q) = b
  <2>1. EncodeFrame(SubSeq(b, HeaderBytes + 1, Len(b))) = b
    BY <1>5, <1>10, FrameRoundTrip
  <2>2. HeaderBytes + 1 = 9
    BY DEF HeaderBytes
  <2> QED
    BY <1>11, <2>1, <2>2
<1>14. Position(s, k) = here + 8 + n
  BY <1>2, <1>6, <1>11
<1> QED
  BY <1>4, <1>9, <1>12, <1>13, <1>14 DEF k, here, B, b

(***************************************************************************)
(* A piece of the stream, and the bytes recv takes next, are a longer      *)
(* piece.                                                                  *)
(***************************************************************************)
LEMMA Appended ==
  ASSUME NEW B \in Seq(Byte), NEW m \in Nat, NEW b, NEW n \in Nat, b \in Seq(Byte),
         b = SubSeq(B, m + 1, m + Len(b)),
         m + Len(b) + n \leq Len(B)
  PROVE  LET c == b \o SubSeq(B, m + Len(b) + 1, m + Len(b) + n)
         IN  Len(c) = Len(b) + n /\ c = SubSeq(B, m + 1, m + (Len(b) + n))
<1> DEFINE k == m + Len(b)
           p == SubSeq(B, k + 1, k + n)
<1>1. Len(b) \in Nat /\ k \in Nat /\ k + n \leq Len(B)
  OBVIOUS
<1>2. b = SubSeq(B, m + 1, k)
  OBVIOUS
<1>3. p \in Seq(Byte) /\ Len(p) = n
  <2> HIDE DEF k
  <2> QED
    BY <1>1
<1>4. Len(b \o p) = Len(b) + n
  <2> HIDE DEF p
  <2> QED
    BY <1>1, <1>3, ConcatProperties
<1>5. b \o p = SubSeq(B, m + 1, k + n)
  <2>1. m + 1 \in 1..Len(B) + 1 /\ k \in (m + 1) - 1 .. Len(B) /\ k + n \in k..Len(B)
    BY <1>1
  <2>2. SubSeq(B, m + 1, k) \o SubSeq(B, k + 1, k + n) = SubSeq(B, m + 1, k + n)
    <3> HIDE DEF k
    <3> QED
      BY <2>1, ConcatAdjacentSubSeq
  <2> QED
    BY <1>2, <2>2
<1>6. k + n = m + (Len(b) + n)
  BY <1>1
<1> QED
  BY <1>4, <1>5, <1>6

=============================================================================
