-------------------------- MODULE ChatSessionProofs --------------------------
(***************************************************************************)
(* What holds of lite-llm-chat for any command line, any input and         *)
(* whatever the runtime returns: proofs about the specification of         *)
(* ChatSession.                                                            *)
(***************************************************************************)
EXTENDS ChatSession, RecursionLemmas, SequenceTheorems

(***************************************************************************)
(* What a conversation consists of. Answered adds, call by call, the turns *)
(* of one session that were answered; here for any sequence of calls, so   *)
(* that the calls before and after a step can be compared.                 *)
(***************************************************************************)
Outcomes == Replies \cup {Failed}
CallRecords == [session : Nat, messages : Seq(Messages) \ {<<>>}, at : Nat,
                outcome : Outcomes]

\* What a call adds to the conversation sid.
Turn(c, sid) ==
  IF c.session = sid /\ c.outcome # Failed
  THEN <<c.messages[Len(c.messages)], Assistant(c.outcome)>>
  ELSE <<>>

\* Answered for any sequence of calls.
AnsweredIn(cs, sid, n) ==
  LET turns[k \in 0..n-1] ==
        IF k = 0 THEN <<>> ELSE turns[k - 1] \o Turn(cs[k], sid)
  IN  turns[n - 1]

(***************************************************************************)
(* Answered is that of the calls made so far.                              *)
(***************************************************************************)
LEMMA AnsweredIsIn ==
  ASSUME NEW sid, NEW n
  PROVE  Answered(sid, n) = AnsweredIn(calls, sid, n)
  BY DEF Answered, AnsweredIn, Turn

(***************************************************************************)
(* A call adds messages.                                                   *)
(***************************************************************************)
LEMMA TurnType ==
  ASSUME NEW c \in CallRecords, NEW sid
  PROVE  Turn(c, sid) \in Seq(Messages)
<1>1. CASE c.session = sid /\ c.outcome # Failed
  <2>1. c.messages \in Seq(Messages) /\ c.messages # <<>>
    BY DEF CallRecords
  <2>2. Len(c.messages) \in 1..Len(c.messages)
    BY <2>1
  <2>3. c.messages[Len(c.messages)] \in Messages
    BY <2>1, <2>2
  <2>4. c.outcome \in Replies
    BY <1>1 DEF CallRecords, Outcomes
  <2>5. Assistant(c.outcome) \in Messages
    BY <2>4 DEF Messages, Assistant
  <2> QED
    BY <1>1, <2>3, <2>5 DEF Turn
<1>2. CASE ~ (c.session = sid /\ c.outcome # Failed)
  BY <1>2 DEF Turn
<1> QED
  BY <1>1, <1>2

\* g gives, for each number of calls, the turns that those calls added.
Turns(g, cs, sid, N) ==
  /\ g \in [0..N -> Seq(Messages)]
  /\ g[0] = <<>>
  /\ \A n \in 1..N : g[n] = g[n-1] \o Turn(cs[n], sid)

(***************************************************************************)
(* The recursive function of AnsweredIn exists, consists of sequences of   *)
(* messages, and satisfies its equation.                                   *)
(***************************************************************************)
LEMMA AnsweredEquation ==
  ASSUME NEW cs \in Seq(CallRecords), NEW sid, NEW N \in 0..Len(cs)
  PROVE  \E g : Turns(g, cs, sid, N) /\ AnsweredIn(cs, sid, N + 1) = g[N]
<1> DEFINE V == Seq(Messages)
           F == [p \in V \X (1..N) |-> p[1] \o Turn(cs[p[2]], sid)]
           Eq(f) == f = [n \in 0..N |-> IF n = 0 THEN <<>> ELSE f[n-1] \o Turn(cs[n], sid)]
           u == CHOOSE f : Eq(f)
<1>1. N \in Nat /\ <<>> \in V /\ (N + 1) - 1 = N
  OBVIOUS
<1>2. ASSUME NEW n \in 1..N PROVE Turn(cs[n], sid) \in V
  <2>1. cs[n] \in CallRecords
    OBVIOUS
  <2> QED
    BY <2>1, TurnType
<1>3. F \in [V \X (1..N) -> V]
  <2>1. ASSUME NEW p \in V \X (1..N) PROVE p[1] \o Turn(cs[p[2]], sid) \in V
    BY <1>2
  <2> QED
    BY <2>1
<1>4. PICK g : Iterates(g, <<>>, F, V, N)
  <2> HIDE DEF F, V
  <2> QED
    BY <1>1, <1>3, FiniteRecursion
<1>5. \A n \in 1..N : g[n] = g[n-1] \o Turn(cs[n], sid)
  <2> TAKE n \in 1..N
  <2> HIDE DEF V
  <2>1. n-1 \in 0..N
    BY <1>1
  <2>2. <<g[n-1], n>> \in V \X (1..N)
    BY <1>4, <2>1 DEF Iterates
  <2> QED
    BY <1>4, <2>2 DEF Iterates
<1>6. Eq(g)
  <2> HIDE DEF V
  <2>1. \A n \in 0..N : n = 0 \/ n \in 1..N
    BY <1>1
  <2> QED
   BY <1>4, <1>5, <2>1 DEF Iterates
<1>7. Eq(u)
  <2> HIDE DEF Eq
  <2> QED
    BY <1>6
<1>8. AnsweredIn(cs, sid, N + 1) = u[N]
  BY <1>1 DEF AnsweredIn
<1> HIDE DEF u, V, F
<1>9. u[N] = g[N]
  <2> DEFINE S == {n \in 0..N : u[n] = g[n]}
  <2>1. 0 \in S
    BY <1>1, <1>4, <1>7 DEF Iterates
  <2>2. \A n \in 1..N : n - 1 \in S => n \in S
    <3> SUFFICES ASSUME NEW n \in 1..N, u[n-1] = g[n-1] PROVE u[n] = g[n]
      BY <1>1
    <3>1. n \in 0..N /\ n # 0
      BY <1>1
    <3>2. u[n] = u[n-1] \o Turn(cs[n], sid)
      BY <1>7, <3>1
    <3> QED
      BY <1>5, <3>2
  <2>3. 0..N \subseteq S
    <3> HIDE DEF S
    <3> QED
      BY <1>1, <2>1, <2>2, IntervalInduction
  <2> QED
    BY <1>1, <2>3
<1> QED
  BY <1>4, <1>5, <1>8, <1>9 DEF V, Iterates, Turns

(***************************************************************************)
(* Two functions that start alike and add the same turns are the same.     *)
(***************************************************************************)
LEMMA SameTurns ==
  ASSUME NEW M \in Nat, NEW N \in 0..M, NEW cs, NEW ds, NEW sid, NEW g, NEW h,
         Turns(g, cs, sid, M), Turns(h, ds, sid, N), \A n \in 1..N : cs[n] = ds[n]
  PROVE  g[N] = h[N]
<1> DEFINE S == {n \in 0..N : g[n] = h[n]}
<1>1. 0 \in S
  BY DEF Turns
<1>2. \A n \in 1..N : n - 1 \in S => n \in S
  <2> SUFFICES ASSUME NEW n \in 1..N, g[n-1] = h[n-1] PROVE g[n] = h[n]
    OBVIOUS
  <2>1. n \in 1..M
    OBVIOUS
  <2>2. g[n] = g[n-1] \o Turn(cs[n], sid)
    BY <2>1 DEF Turns
  <2>3. h[n] = h[n-1] \o Turn(ds[n], sid)
    BY DEF Turns
  <2> QED
    BY <2>2, <2>3
<1>3. 0..N \subseteq S
  <2> HIDE DEF S
  <2> QED
    BY <1>1, <1>2, IntervalInduction
<1> QED
  BY <1>3

(***************************************************************************)
(* Before the first call nothing was answered.                             *)
(***************************************************************************)
LEMMA AnsweredNothing ==
  ASSUME NEW cs \in Seq(CallRecords), NEW sid
  PROVE  AnsweredIn(cs, sid, 1) = <<>>
<1>1. 0 \in 0..Len(cs) /\ 0 + 1 = 1
  OBVIOUS
<1>2. PICK g : Turns(g, cs, sid, 0) /\ AnsweredIn(cs, sid, 0 + 1) = g[0]
  BY <1>1, AnsweredEquation
<1> QED
  BY <1>1, <1>2 DEF Turns

(***************************************************************************)
(* A later call changes nothing of what was answered before it.            *)
(***************************************************************************)
LEMMA AnsweredKept ==
  ASSUME NEW cs \in Seq(CallRecords), NEW c \in CallRecords, NEW sid,
         NEW N \in 0..Len(cs)
  PROVE  AnsweredIn(Append(cs, c), sid, N + 1) = AnsweredIn(cs, sid, N + 1)
<1> DEFINE ds == Append(cs, c)
<1>1. ds \in Seq(CallRecords) /\ N \in 0..Len(ds) /\ \A n \in 1..N : ds[n] = cs[n]
  OBVIOUS
<1> HIDE DEF ds
<1>2. PICK g : Turns(g, cs, sid, N) /\ AnsweredIn(cs, sid, N + 1) = g[N]
  BY AnsweredEquation
<1>3. PICK h : Turns(h, ds, sid, N) /\ AnsweredIn(ds, sid, N + 1) = h[N]
  BY <1>1, AnsweredEquation
<1>4. g[N] = h[N]
  <2>1. N \in Nat /\ N \in 0..N
    OBVIOUS
  <2> QED
    BY <1>1, <1>2, <1>3, <2>1, SameTurns
<1> QED
  BY <1>2, <1>3, <1>4 DEF ds

(***************************************************************************)
(* Each call adds its turn, if it was answered and in this session.        *)
(***************************************************************************)
LEMMA AnsweredStep ==
  ASSUME NEW cs \in Seq(CallRecords), NEW sid, NEW N \in 1..Len(cs)
  PROVE  AnsweredIn(cs, sid, N + 1) = AnsweredIn(cs, sid, N) \o Turn(cs[N], sid)
<1>1. N \in 0..Len(cs) /\ N - 1 \in 0..Len(cs) /\ (N - 1) + 1 = N /\ N - 1 \in 0..N
  OBVIOUS
<1>2. PICK g : Turns(g, cs, sid, N) /\ AnsweredIn(cs, sid, N + 1) = g[N]
  BY <1>1, AnsweredEquation
<1>3. PICK h : Turns(h, cs, sid, N-1) /\ AnsweredIn(cs, sid, (N - 1) + 1) = h[N-1]
  BY <1>1, AnsweredEquation
<1>4. g[N-1] = h[N-1]
  <2>1. N \in Nat
    OBVIOUS
  <2> QED
    BY <1>1, <1>2, <1>3, <2>1, SameTurns
<1>5. g[N] = g[N-1] \o Turn(cs[N], sid)
  <2>1. N \in 1..N
    OBVIOUS
  <2> QED
    BY <1>2, <2>1 DEF Turns
<1>6. AnsweredIn(cs, sid, N) = h[N-1]
  BY <1>1, <1>3
<1> QED
  BY <1>2, <1>4, <1>5, <1>6

(***************************************************************************)
(* What was answered is a sequence of messages.                            *)
(***************************************************************************)
LEMMA AnsweredType ==
  ASSUME NEW cs \in Seq(CallRecords), NEW sid, NEW N \in 0..Len(cs)
  PROVE  AnsweredIn(cs, sid, N + 1) \in Seq(Messages)
<1>1. PICK g : Turns(g, cs, sid, N) /\ AnsweredIn(cs, sid, N + 1) = g[N]
  BY AnsweredEquation
<1> QED
  BY <1>1 DEF Turns

(***************************************************************************)
(* A session that no call had, such as that after a /clear, has no         *)
(* answers.                                                                *)
(***************************************************************************)
LEMMA AnsweredOther ==
  ASSUME NEW cs \in Seq(CallRecords), NEW sid,
         \A n \in 1..Len(cs) : cs[n].session # sid
  PROVE  AnsweredIn(cs, sid, Len(cs) + 1) = <<>>
<1> DEFINE N == Len(cs)
<1>1. N \in Nat /\ N \in 0..Len(cs)
  OBVIOUS
<1>2. PICK g : Turns(g, cs, sid, N) /\ AnsweredIn(cs, sid, N + 1) = g[N]
  BY <1>1, AnsweredEquation
<1> DEFINE S == {n \in 0..N : g[n] = <<>>}
<1>3. 0 \in S
  BY <1>1, <1>2 DEF Turns
<1>4. \A n \in 1..N : n - 1 \in S => n \in S
  <2> SUFFICES ASSUME NEW n \in 1..N, g[n-1] = <<>> PROVE g[n] = <<>>
    BY <1>1
  <2>1. Turn(cs[n], sid) = <<>>
    BY DEF Turn
  <2>2. g[n] = g[n-1] \o Turn(cs[n], sid)
    BY <1>2 DEF Turns
  <2>3. <<>> \o <<>> = <<>>
    OBVIOUS
  <2> QED
    BY <2>1, <2>2, <2>3
<1>5. 0..N \subseteq S
  <2> HIDE DEF S, N
  <2> QED
    BY <1>1, <1>3, <1>4, IntervalInduction
<1> QED
  BY <1>1, <1>2, <1>5

-----------------------------------------------------------------------------
(***************************************************************************)
(* Where a turn begins in the input, and what it consists of.              *)
(***************************************************************************)
Input == Lines \cup Commands

\* lines are those of the input t after its last command, which is at l, up to n.
Since(t, l, n, lines) ==
  /\ l \in 0..n
  /\ l # 0 => t[l] \in Commands
  /\ \A j \in (l+1)..n : t[j] \notin Commands
  /\ lines = SubSeq(t, l + 1, n)

\* The last line of the turn that was sent when the input had at lines.
UpTo(t, at) == IF t[at] = "/send" THEN at - 1 ELSE at

(***************************************************************************)
(* What was typed stays typed.                                             *)
(***************************************************************************)
LEMMA SinceKept ==
  ASSUME NEW t \in Seq(Input), NEW e \in Input, NEW n \in 0..Len(t), NEW l, NEW lines,
         Since(t, l, n, lines)
  PROVE  Since(Append(t, e), l, n, lines)
<1> DEFINE u == Append(t, e)
<1>1. u \in Seq(Input) /\ Len(u) = Len(t) + 1 /\ \A i \in 1..Len(t) : u[i] = t[i]
  OBVIOUS
<1> HIDE DEF u
<1>2. l \in 0..n /\ lines = SubSeq(t, l + 1, n)
  BY DEF Since
<1>3. SubSeq(u, l + 1, n) = SubSeq(t, l + 1, n)
  <2>1. \A i \in (l+1)..n : i \in 1..Len(t)
    BY <1>2
  <2> QED
    BY <1>1, <1>2, <2>1
<1>4. l # 0 => u[l] \in Commands
  <2> SUFFICES ASSUME l # 0 PROVE u[l] \in Commands
    OBVIOUS
  <2>1. l \in 1..Len(t)
    BY <1>2
  <2>2. t[l] \in Commands
    BY DEF Since
  <2> QED
    BY <1>1, <2>1, <2>2
<1>5. \A j \in (l+1)..n : u[j] \notin Commands
  <2> TAKE j \in (l+1)..n
  <2>1. j \in 1..Len(t)
    BY <1>2
  <2> QED
    BY <1>1, <2>1 DEF Since
<1> QED
  BY <1>2, <1>3, <1>4, <1>5 DEF Since, u

(***************************************************************************)
(* One more line that is not a command belongs to the draft.               *)
(***************************************************************************)
LEMMA SinceNext ==
  ASSUME NEW t \in Seq(Input), NEW e \in Lines, NEW l, NEW lines,
         Lines \cap Commands = {},
         Since(t, l, Len(t), lines)
  PROVE  Since(Append(t, e), l, Len(t) + 1, Append(lines, e))
<1> DEFINE u == Append(t, e)
           n == Len(t)
<1>1. e \in Input /\ e \notin Commands
  BY DEF Input
<1>2. u \in Seq(Input) /\ Len(u) = n + 1 /\ \A i \in 1..n : u[i] = t[i]
  BY <1>1
<1>3. u[n + 1] = e /\ n \in Nat
  BY <1>1
<1> HIDE DEF u, n
<1>4. l \in 0..n /\ lines = SubSeq(t, l + 1, n)
  BY DEF Since, n
<1>5. l \in 0..(n + 1) /\ (l # 0 => l \in 1..n)
  BY <1>3, <1>4
<1>6. l # 0 => u[l] \in Commands
  BY <1>2, <1>5 DEF Since
<1>7. \A j \in (l+1)..(n+1) : u[j] \notin Commands
  <2> TAKE j \in (l+1)..(n+1)
  <2>1. j = n + 1 \/ (j \in (l+1)..n /\ j \in 1..n)
    BY <1>3, <1>4
  <2> QED
    BY <1>1, <1>2, <1>3, <2>1 DEF Since, n
<1>8. SubSeq(u, l + 1, n + 1) = Append(SubSeq(t, l + 1, n), e)
  <2> DEFINE a == SubSeq(t, l + 1, n)
             b == SubSeq(u, l + 1, n + 1)
  <2>1. a \in Seq(Input) /\ Len(a) = n - l /\ \A i \in 1..(n - l) : a[i] = t[l + i]
    BY <1>3, <1>4 DEF n
  <2>2. b \in Seq(Input) /\ Len(b) = n + 1 - l /\ \A i \in 1..(n + 1 - l) : b[i] = u[l + i]
    BY <1>2, <1>3, <1>5
  <2> HIDE DEF a, b
  <2>3. Append(a, e) \in Seq(Input) /\ Len(Append(a, e)) = n - l + 1
    BY <1>1, <2>1
  <2>4. Append(a, e)[n - l + 1] = e /\ \A i \in 1..(n - l) : Append(a, e)[i] = a[i]
    BY <1>1, <2>1
  <2> DEFINE c == Append(a, e)
  <2> HIDE DEF c
  <2>5. \A i \in 1..Len(b) : b[i] = c[i]
    <3> TAKE i \in 1..Len(b)
    <3>1. i \in 1..(n + 1 - l)
      BY <2>2
    <3>2. CASE i \in 1..(n - l)
      <4>1. l + i \in 1..n
        BY <1>3, <1>4, <3>2
      <4> QED
        BY <1>2, <2>1, <2>2, <2>4, <3>1, <3>2, <4>1 DEF c
    <3>3. CASE i = n - l + 1
      <4>1. l + i = n + 1
        BY <1>3, <1>4, <3>3
      <4> QED
        BY <1>3, <2>2, <2>4, <3>1, <3>3, <4>1 DEF c
    <3>4. i \in 1..(n - l) \/ i = n - l + 1
      BY <1>3, <1>4, <3>1
    <3> QED
      BY <3>2, <3>3, <3>4
  <2>6. Len(b) = Len(c)
    BY <1>3, <1>4, <2>2, <2>3 DEF c
  <2> QED
    BY <2>2, <2>3, <2>5, <2>6, SeqEqual DEF a, b, c
<1> QED
  BY <1>4, <1>5, <1>6, <1>7, <1>8 DEF Since, u, n

(***************************************************************************)
(* Where such lines begin is what LastCommand says.                        *)
(***************************************************************************)
LEMMA SinceLast ==
  ASSUME NEW n \in Nat, NEW l, NEW lines, Since(typed, l, n, lines)
  PROVE  LastCommand(n + 1) = l
<1> DEFINE c == {i \in 1..((n + 1) - 1) : typed[i] \in Commands}
<1>1. l \in 0..n /\ (n + 1) - 1 = n
  BY DEF Since
<1>2. ASSUME NEW i \in c PROVE i \leq l /\ l # 0
  <2>1. i \in 1..n /\ typed[i] \in Commands
    BY <1>1
  <2>2. i \notin (l+1)..n
    BY <2>1 DEF Since
  <2> QED
    BY <1>1, <2>1, <2>2
<1>3. l # 0 => l \in c
  BY <1>1 DEF Since
<1>4. CASE l = 0
  <2>1. c = {}
    BY <1>2, <1>4
  <2> QED
    BY <1>4, <2>1 DEF LastCommand
<1>5. CASE l # 0
  <2>1. c # {} /\ l \in c /\ \A j \in c : j \leq l
    BY <1>2, <1>3, <1>5
  <2>2. ASSUME NEW i \in c, \A j \in c : j \leq i PROVE i = l
    <3>1. l \leq i /\ i \leq l /\ i \in 1..n
      BY <1>1, <2>1, <2>2
    <3> QED
      BY <1>1, <3>1
  <2>3. LastCommand(n + 1) = CHOOSE i \in c : \A j \in c : j \leq i
    BY <2>1 DEF LastCommand
  <2> HIDE DEF c
  <2> QED
    BY <2>1, <2>2, <2>3
<1> QED
  BY <1>4, <1>5

-----------------------------------------------------------------------------
(***************************************************************************)
(* The loop of ParseArguments, as far as its types.                        *)
(***************************************************************************)
\* What ParseArguments has gathered.
Gathered ==
  [index : Nat, config : Arguments \cup {NoWord}, prompt : Arguments \cup {NoWord},
   interactive : BOOLEAN, end : {"none", "help", "error"}]

(***************************************************************************)
(* One more argument read keeps the types of what was gathered.            *)
(***************************************************************************)
LEMMA ParseOptionType ==
  ASSUME argv \in Seq(Arguments), NEW p \in Gathered
  PROVE  ParseOption(p) \in Gathered \cup {p}
<1> DEFINE i == p.index
<1> SUFFICES ASSUME p.end = "none", ~ (i > Len(argv)) PROVE ParseOption(p) \in Gathered
  BY DEF ParseOption
<1>1. i \in Nat /\ i + 1 \in Nat /\ i + 2 \in Nat
  BY DEF Gathered
<1>2. i < Len(argv) => argv[i + 1] \in Arguments
  BY <1>1
<1>3. [p EXCEPT !.end = "help"] \in Gathered /\ [p EXCEPT !.end = "error"] \in Gathered
  BY DEF Gathered
<1>4. [p EXCEPT !.interactive = TRUE, !.index = i + 1] \in Gathered
  BY <1>1 DEF Gathered
<1>5. i < Len(argv) => [p EXCEPT !.config = argv[i + 1], !.index = AfterValue(i)] \in Gathered
  BY <1>1, <1>2 DEF Gathered, AfterValue
<1>6. i < Len(argv) => [p EXCEPT !.prompt = argv[i + 1], !.index = AfterValue(i)] \in Gathered
  BY <1>1, <1>2 DEF Gathered, AfterValue
<1> QED
  BY <1>3, <1>4, <1>5, <1>6 DEF ParseOption

\* The values of the loop after each number of options.
Loop(g) ==
  /\ g \in [0..Len(argv) -> Gathered]
  /\ g[0] = Unparsed
  /\ \A n \in 1..Len(argv) : g[n] = ParseOption(g[n-1])

(***************************************************************************)
(* The recursive function of Parsed exists and satisfies its equation.     *)
(***************************************************************************)
LEMMA ParsedEquation ==
  ASSUME argv \in Seq(Arguments)
  PROVE  \E g : Loop(g) /\ Parsed = g[Len(argv)]
<1> DEFINE N == Len(argv)
           F == [p \in Gathered \X (1..N) |-> ParseOption(p[1])]
           Eq(f) == f = [n \in 0..N |-> IF n = 0 THEN Unparsed ELSE ParseOption(f[n-1])]
           u == CHOOSE f : Eq(f)
<1>1. N \in Nat
  OBVIOUS
<1>2. Unparsed \in Gathered
  BY DEF Unparsed, Gathered
<1>3. F \in [Gathered \X (1..N) -> Gathered]
  <2>1. ASSUME NEW p \in Gathered \X (1..N) PROVE ParseOption(p[1]) \in Gathered
    <3>1. p[1] \in Gathered
      OBVIOUS
    <3> QED
      BY <3>1, ParseOptionType
  <2> QED
    BY <2>1
<1>4. PICK g : Iterates(g, Unparsed, F, Gathered, N)
  <2> HIDE DEF F, N
  <2> QED
    BY <1>1, <1>2, <1>3, FiniteRecursion
<1>5. \A n \in 1..N : g[n] = ParseOption(g[n-1])
  <2> TAKE n \in 1..N
  <2> HIDE DEF N
  <2>1. n-1 \in 0..N
    BY <1>1
  <2>2. <<g[n-1], n>> \in Gathered \X (1..N)
    BY <1>4, <2>1 DEF Iterates
  <2> QED
    BY <1>4, <2>2 DEF Iterates
<1>6. Eq(g)
  <2> HIDE DEF N
  <2>1. \A n \in 0..N : n = 0 \/ n \in 1..N
    BY <1>1
  <2> QED
   BY <1>4, <1>5, <2>1 DEF Iterates
<1>7. Eq(u)
  <2> HIDE DEF Eq
  <2> QED
    BY <1>6
<1>8. Parsed = u[N]
  BY DEF Parsed
<1> HIDE DEF u, F, N
<1>9. u[N] = g[N]
  <2> DEFINE S == {n \in 0..N : u[n] = g[n]}
  <2>1. 0 \in S
    BY <1>1, <1>4, <1>7 DEF Iterates
  <2>2. \A n \in 1..N : n - 1 \in S => n \in S
    <3> SUFFICES ASSUME NEW n \in 1..N, u[n-1] = g[n-1] PROVE u[n] = g[n]
      BY <1>1
    <3>1. n \in 0..N /\ n # 0
      BY <1>1
    <3>2. u[n] = ParseOption(u[n-1])
      BY <1>7, <3>1
    <3> QED
      BY <1>5, <3>2
  <2>3. 0..N \subseteq S
    <3> HIDE DEF S
    <3> QED
      BY <1>1, <2>1, <2>2, IntervalInduction
  <2> QED
    BY <1>1, <2>3
<1>10. Loop(g)
  BY <1>4, <1>5 DEF Iterates, Loop, N
<1> QED
  BY <1>8, <1>9, <1>10 DEF N

(***************************************************************************)
(* So what ParseArguments gathers has its type.                            *)
(***************************************************************************)
LEMMA ParsedType ==
  ASSUME argv \in Seq(Arguments)
  PROVE  Parsed \in Gathered
<1>1. PICK g : Loop(g) /\ Parsed = g[Len(argv)]
  BY ParsedEquation
<1>2. Len(argv) \in 0..Len(argv)
  OBVIOUS
<1> QED
  BY <1>1, <1>2 DEF Loop

-----------------------------------------------------------------------------
\* A call has at least the message of its turn.
TypesInv == TypeOK /\ calls \in Seq(CallRecords)

\* Where the tool is says what it has done: nothing before it reads, and in the mode
\* for a file nothing is typed and one call is made.
ControlInv ==
  /\ pc # "exit" => status = 0
  /\ pc \in {"parse", "create", "file"} =>
       /\ ~closed /\ session = 0
       /\ calls = <<>> /\ typed = <<>> /\ history = <<>> /\ draft = <<>>
  /\ pc = "read" => interactive /\ ~closed
  /\ pc = "generate" => history # <<>>
  /\ pc = "file" => ~interactive
  /\ ~interactive => /\ typed = <<>> /\ ~closed
                     /\ pc = "generate" => calls = <<>>

(***************************************************************************)
(* ParseArguments goes on, or the process exits with 0 or 2.               *)
(***************************************************************************)
LEMMA ParseOutcome ==
  ASSUME TypesInv, ParseArguments
  PROVE  \/ pc' = "create" /\ status' = status
         \/ pc' = "exit" /\ status' \in {0, 2}
<1>1. Parsed.end \in {"none", "help", "error"}
  BY ParsedType DEF TypesInv, TypeOK, Gathered
<1> QED
  BY <1>1 DEF ParseArguments, Exit

(***************************************************************************)
(* The initial states have the types.                                      *)
(***************************************************************************)
LEMMA TypesInit ==
  ASSUME Init PROVE TypesInv
<1>1. PICK n \in 0..MaxArguments : argv \in [1..n -> Arguments]
  BY DEF Init
<1>2. n \in Nat
  BY ChatAssumption
<1>3. argv \in Seq(Arguments)
  BY <1>1, <1>2
<1>4. /\ draft \in Seq(Lines) /\ history \in Seq(Messages)
      /\ typed \in Seq(Lines \cup Commands) /\ calls \in Seq(CallRecords)
  BY DEF Init
<1>5. interactive \in BOOLEAN /\ closed \in BOOLEAN /\ freshLine \in BOOLEAN
  BY DEF Init
<1>6. /\ pc \in {"parse", "create", "file", "read", "generate", "exit"}
      /\ status \in {0, 2, 3, 4, 5} /\ session \in Nat
  BY DEF Init
<1> QED
  BY <1>3, <1>4, <1>5, <1>6 DEF TypesInv, TypeOK

(***************************************************************************)
(* ControlInv holds initially.                                             *)
(***************************************************************************)
LEMMA ControlInit ==
  ASSUME Init PROVE ControlInv
  BY DEF Init, ControlInv

(***************************************************************************)
(* Each step keeps the relations between the place in the program, the     *)
(* mode and what is still empty.                                           *)
(***************************************************************************)
LEMMA ControlStep ==
  ASSUME TypesInv, ControlInv, [Next]_vars
  PROVE  ControlInv'
<1> USE DEF ControlInv
<1>1. ASSUME ParseArguments PROVE ControlInv'
  <2>1. (pc' = "create" /\ status' = status) \/ pc' = "exit"
    BY <1>1, ParseOutcome
  <2> QED
    BY <1>1, <2>1 DEF ParseArguments
<1>2. ASSUME CreateFails PROVE ControlInv'
  BY <1>2 DEF CreateFails, Exit
<1>3. ASSUME CreateSucceeds PROVE ControlInv'
  BY <1>3 DEF CreateSucceeds
<1>4. ASSUME ReadFileFails PROVE ControlInv'
  BY <1>4 DEF ReadFileFails, Exit
<1>5. ASSUME ReadFile PROVE ControlInv'
  BY <1>5 DEF ReadFile, User
<1>6. ASSUME TypeLine PROVE ControlInv'
  BY <1>6 DEF TypeLine, MayType, AddLine
<1>7. ASSUME TypeQuit PROVE ControlInv'
  BY <1>7 DEF TypeQuit, MayType, Exit
<1>8. ASSUME TypeClear PROVE ControlInv'
  BY <1>8 DEF TypeClear, MayType
<1>9. ASSUME TypeSend PROVE ControlInv'
  <2>1. CASE draft = <<>>
    BY <1>9, <2>1 DEF TypeSend, MayType
  <2>2. CASE draft # <<>>
    <3>1. history' # <<>>
      BY <1>9, <2>2 DEF TypeSend, Submit, TypesInv, TypeOK
    <3> QED
      BY <1>9, <2>2, <3>1 DEF TypeSend, MayType, Submit
  <2> QED
    BY <2>1, <2>2
<1>10. ASSUME InputEnds PROVE ControlInv'
  <2>1. CASE draft = <<>>
    BY <1>10, <2>1 DEF InputEnds, NothingToSubmit, Exit
  <2>2. CASE draft # <<>>
    <3>1. history' # <<>>
      BY <1>10, <2>2 DEF InputEnds, NothingToSubmit, Submit, TypesInv, TypeOK
    <3> QED
      BY <1>10, <2>2, <3>1 DEF InputEnds, NothingToSubmit, Submit
  <2> QED
    BY <2>1, <2>2
<1>11. ASSUME NEW text \in Replies, GenerateSucceeds(text) PROVE ControlInv'
  BY <1>11 DEF GenerateSucceeds, Call, Exit, Assistant
<1>12. ASSUME GenerateFails PROVE ControlInv'
  BY <1>12 DEF GenerateFails, Call, Exit, WithoutTurn
<1>13. ASSUME Ended PROVE ControlInv'
  BY <1>13 DEF Ended, vars
<1>14. CASE UNCHANGED vars
  BY <1>14 DEF vars
<1> QED
  BY <1>1, <1>2, <1>3, <1>4, <1>5, <1>6, <1>7, <1>8, <1>9, <1>10, <1>11, <1>12,
     <1>13, <1>14
  DEF Next

(***************************************************************************)
(* Each step keeps the types. That of the mode comes from ParsedType, and  *)
(* a call has messages by ControlInv.                                      *)
(***************************************************************************)
LEMMA TypesStep ==
  ASSUME TypesInv, ControlInv, [Next]_vars
  PROVE  TypesInv'
<1> USE DEF TypesInv, TypeOK
<1>0. session + 1 \in Nat
  OBVIOUS
<1>1. ASSUME ParseArguments PROVE TypesInv'
  <2>1. Parsed.interactive \in BOOLEAN
    BY ParsedType DEF Gathered
  <2>2. interactive' \in BOOLEAN
    BY <1>1, <2>1 DEF ParseArguments
  <2>3. pc' \in {"create", "exit"} /\ status' \in {0, 2, 3, 4, 5}
    BY <1>1, ParseOutcome
  <2> QED
    BY <1>1, <2>2, <2>3 DEF ParseArguments
<1>2. ASSUME CreateFails PROVE TypesInv'
  BY <1>2 DEF CreateFails, Exit, NoRuntime
<1>3. ASSUME CreateSucceeds PROVE TypesInv'
  <2>1. session' \in Nat /\ argv' \in Seq(Arguments)
    BY <1>3 DEF CreateSucceeds
  <2> QED
    BY <1>3, <2>1 DEF CreateSucceeds
<1>4. ASSUME ReadFileFails PROVE TypesInv'
  BY <1>4 DEF ReadFileFails, Exit
<1>5. ASSUME ReadFile PROVE TypesInv'
  <2>1. PICK line \in Lines : history' = <<User(<<line>>)>>
    BY <1>5 DEF ReadFile
  <2>2. User(<<line>>) \in Messages
    BY DEF User, Messages
  <2>3. history' \in Seq(Messages)
    BY <2>1, <2>2
  <2> QED
    BY <1>5, <2>3 DEF ReadFile
<1>6. ASSUME TypeLine PROVE TypesInv'
  BY <1>6 DEF TypeLine, MayType, AddLine
<1>7. ASSUME TypeQuit PROVE TypesInv'
  BY <1>7 DEF TypeQuit, MayType, Exit, Commands
<1>8. ASSUME TypeClear PROVE TypesInv'
  BY <1>8, <1>0 DEF TypeClear, MayType, Commands
<1>9. ASSUME TypeSend PROVE TypesInv'
  <2>1. typed' \in Seq(Lines \cup Commands)
    BY <1>9 DEF TypeSend, Commands
  <2>2. User(draft) \in Messages
    BY DEF User, Messages
  <2>3. history' \in Seq(Messages) /\ draft' \in Seq(Lines)
    <3>1. Append(history, User(draft)) \in Seq(Messages) /\ <<>> \in Seq(Lines)
      BY <2>2
    <3> QED
      BY <1>9, <3>1 DEF TypeSend, Submit
  <2> QED
    BY <1>9, <2>1, <2>3 DEF TypeSend, Submit
<1>10. ASSUME InputEnds PROVE TypesInv'
  <2>1. User(draft) \in Messages
    BY DEF User, Messages
  <2>2. history' \in Seq(Messages) /\ draft' \in Seq(Lines)
    <3>1. Append(history, User(draft)) \in Seq(Messages) /\ <<>> \in Seq(Lines)
      BY <2>1
    <3> QED
      BY <1>10, <3>1 DEF InputEnds, Submit
  <2> QED
    BY <1>10, <2>2 DEF InputEnds, Submit, Exit
<1>11. ASSUME NEW text \in Replies, GenerateSucceeds(text) PROVE TypesInv'
  <2>1. calls' \in Seq(CallRecords)
    <3>1. [session |-> session, messages |-> history, at |-> Len(typed), outcome |-> text]
            \in CallRecords
      BY <1>11 DEF GenerateSucceeds, ControlInv, CallRecords, Outcomes
    <3> QED
      BY <1>11, <3>1 DEF GenerateSucceeds, Call
  <2>2. freshLine' \in BOOLEAN
    BY <1>11 DEF GenerateSucceeds, FinishStreamedResponse, AfterStreaming
  <2>3. Assistant(text) \in Messages
    BY DEF Assistant, Messages
  <2>4. history' \in Seq(Messages)
    <3>1. Append(history, Assistant(text)) \in Seq(Messages)
      BY <2>3
    <3> QED
      BY <1>11, <3>1 DEF GenerateSucceeds
  <2>5. pc' \in {"read", "exit"} /\ status' \in {0, 2, 3, 4, 5}
    BY <1>11 DEF GenerateSucceeds, Exit
  <2> QED
    BY <1>11, <2>1, <2>2, <2>4, <2>5 DEF GenerateSucceeds
<1>12. ASSUME GenerateFails PROVE TypesInv'
  <2>1. calls' \in Seq(CallRecords)
    <3>1. [session |-> session, messages |-> history, at |-> Len(typed), outcome |-> Failed]
            \in CallRecords
      BY <1>12 DEF GenerateFails, ControlInv, CallRecords, Outcomes
    <3> QED
      BY <1>12, <3>1 DEF GenerateFails, Call
  <2>2. freshLine' \in BOOLEAN
    BY <1>12 DEF GenerateFails
  <2>4. history' \in Seq(Messages)
    <3>1. WithoutTurn(history) \in Seq(Messages)
      BY DEF WithoutTurn
    <3> QED
      BY <1>12, <3>1 DEF GenerateFails
  <2>5. pc' \in {"read", "exit"} /\ status' \in {0, 2, 3, 4, 5}
    BY <1>12 DEF GenerateFails, Exit
  <2> QED
    BY <1>12, <2>1, <2>2, <2>4, <2>5 DEF GenerateFails
<1>13. ASSUME Ended PROVE TypesInv'
  BY <1>13 DEF Ended, vars
<1>14. CASE UNCHANGED vars
  BY <1>14 DEF vars
<1> QED
  BY <1>1, <1>2, <1>3, <1>4, <1>5, <1>6, <1>7, <1>8, <1>9, <1>10, <1>11, <1>12,
     <1>13, <1>14
  DEF Next

-----------------------------------------------------------------------------
LastMessage(m) == m[Len(m)]

\* The draft d is what the input t ends with, after its last command.
Drafted(t, d) == \E l \in 0..Len(t) : Since(t, l, Len(t), d)

\* The turn that was sent when the input had at lines consists of these lines.
Sent(t, at, lines) == \E l \in 0..Len(t) : Since(t, l, UpTo(t, at), lines)

\* Each call sent a turn of the input.
CallsSent(cs, t) ==
  \A n \in DOMAIN cs :
    /\ cs[n].at \in 1..Len(t)
    /\ Sent(t, cs[n].at, LastMessage(cs[n].messages).content)

\* The turn that is being generated is what was typed for it.
TurnSent ==
  /\ typed # <<>> /\ draft = <<>>
  /\ IF closed THEN typed[Len(typed)] \notin Commands
               ELSE typed[Len(typed)] = "/send"
  /\ Sent(typed, Len(typed), LastMessage(history).content)

\* What was typed, what of it is in the draft, and what was sent.
TypedInv ==
  /\ pc = "read" => Drafted(typed, draft)
  /\ pc = "generate" /\ interactive => TurnSent
  /\ interactive => CallsSent(calls, typed)

(***************************************************************************)
(* The lines of a turn that was sent lie within the input.                 *)
(***************************************************************************)
LEMMA UpToRange ==
  ASSUME NEW t \in Seq(Input), NEW at \in 1..Len(t)
  PROVE  UpTo(t, at) \in 0..Len(t)
  BY DEF UpTo

(***************************************************************************)
(* A turn that was sent stays the same lines of a longer input.            *)
(***************************************************************************)
LEMMA SentKept ==
  ASSUME NEW t \in Seq(Input), NEW e \in Input, NEW at \in 1..Len(t), NEW lines,
         Sent(t, at, lines)
  PROVE  Sent(Append(t, e), at, lines)
<1> DEFINE u == Append(t, e)
<1>1. u[at] = t[at] /\ Len(u) = Len(t) + 1
  OBVIOUS
<1>2. UpTo(u, at) = UpTo(t, at)
  BY <1>1 DEF UpTo
<1>3. UpTo(t, at) \in 0..Len(t)
  BY UpToRange
<1>4. PICK l \in 0..Len(t) : Since(t, l, UpTo(t, at), lines)
  BY DEF Sent
<1>5. Since(u, l, UpTo(t, at), lines)
  BY <1>3, <1>4, SinceKept
<1>6. l \in 0..Len(u)
  BY <1>1
<1> HIDE DEF u
<1> QED
  BY <1>2, <1>5, <1>6 DEF Sent, u

(***************************************************************************)
(* So typing on changes no turn that was sent,                             *)
(***************************************************************************)
LEMMA CallsSentTyped ==
  ASSUME NEW cs \in Seq(CallRecords), NEW t \in Seq(Input), NEW e \in Input,
         CallsSent(cs, t)
  PROVE  CallsSent(cs, Append(t, e))
<1> DEFINE u == Append(t, e)
<1>1. Len(u) = Len(t) + 1
  OBVIOUS
<1> SUFFICES ASSUME NEW n \in DOMAIN cs
             PROVE  /\ cs[n].at \in 1..Len(u)
                    /\ Sent(u, cs[n].at, LastMessage(cs[n].messages).content)
  BY DEF CallsSent
<1>2. cs[n].at \in 1..Len(t) /\ Sent(t, cs[n].at, LastMessage(cs[n].messages).content)
  BY DEF CallsSent
<1>3. Sent(u, cs[n].at, LastMessage(cs[n].messages).content)
  BY <1>2, SentKept
<1>4. cs[n].at \in 1..Len(u)
  BY <1>1, <1>2
<1> QED
  BY <1>3, <1>4

(***************************************************************************)
(* and one more call is one more turn sent.                                *)
(***************************************************************************)
LEMMA CallsSentCalled ==
  ASSUME NEW cs \in Seq(CallRecords), NEW t \in Seq(Input), NEW c \in CallRecords,
         CallsSent(cs, t),
         c.at \in 1..Len(t), Sent(t, c.at, LastMessage(c.messages).content)
  PROVE  CallsSent(Append(cs, c), t)
<1> DEFINE ds == Append(cs, c)
           N == Len(cs)
<1>1. DOMAIN ds = 1..(N + 1) /\ ds[N + 1] = c /\ \A n \in 1..N : ds[n] = cs[n]
  OBVIOUS
<1>2. DOMAIN cs = 1..N /\ N \in Nat
  OBVIOUS
<1> HIDE DEF ds, N
<1> SUFFICES ASSUME NEW n \in DOMAIN ds
             PROVE  /\ ds[n].at \in 1..Len(t)
                    /\ Sent(t, ds[n].at, LastMessage(ds[n].messages).content)
  BY DEF CallsSent, ds
<1>3. n = N + 1 \/ n \in DOMAIN cs
  BY <1>1, <1>2
<1> QED
  BY <1>1, <1>2, <1>3 DEF CallsSent

(***************************************************************************)
(* After a command the draft is empty.                                     *)
(***************************************************************************)
LEMMA SinceHere ==
  ASSUME NEW t \in Seq(Input), t # <<>>, t[Len(t)] \in Commands
  PROVE  Drafted(t, <<>>)
<1> DEFINE n == Len(t)
<1>1. n \in Nat /\ n \in 0..n /\ (n+1)..n = {}
  OBVIOUS
<1>2. SubSeq(t, n + 1, n) = <<>>
  BY <1>1, SubSeqEmpty
<1> QED
  BY <1>1, <1>2 DEF Drafted, Since

(***************************************************************************)
(* A draft that is not empty ends with a line that is not a command.       *)
(***************************************************************************)
LEMMA DraftEndsTyped ==
  ASSUME NEW t \in Seq(Input), NEW d, Drafted(t, d), d # <<>>
  PROVE  t # <<>> /\ t[Len(t)] \notin Commands
<1> DEFINE n == Len(t)
<1>1. PICK l \in 0..n : Since(t, l, n, d)
  BY DEF Drafted
<1>2. n \in Nat
  OBVIOUS
<1> HIDE DEF n
<1>3. l # n
  <2> SUFFICES ASSUME l = n PROVE FALSE
    OBVIOUS
  <2>1. SubSeq(t, n + 1, n) = <<>>
    BY <1>2, SubSeqEmpty
  <2> QED
    BY <1>1, <2>1 DEF Since
<1>4. n \in (l+1)..n /\ n # 0
  BY <1>1, <1>2, <1>3
<1>5. t[n] \notin Commands
  BY <1>1, <1>4 DEF Since
<1> QED
  BY <1>4, <1>5 DEF n

(***************************************************************************)
(* An empty draft follows a command or the start of the input.             *)
(***************************************************************************)
LEMMA EmptyDraftTyped ==
  ASSUME NEW t \in Seq(Input), Drafted(t, <<>>), t # <<>>
  PROVE  t[Len(t)] \in Commands
<1> DEFINE n == Len(t)
<1>1. PICK l \in 0..n : Since(t, l, n, <<>>)
  BY DEF Drafted
<1>2. n \in Nat /\ n # 0
  OBVIOUS
<1>3. l = n
  <2>1. Len(SubSeq(t, l + 1, n)) = n - l
    BY <1>1, <1>2
  <2>2. SubSeq(t, l + 1, n) = <<>> /\ Len(<<>>) = 0
    BY <1>1 DEF Since
  <2>3. n - l = 0
    BY <2>1, <2>2
  <2> QED
    BY <1>1, <1>2, <2>3
<1> QED
  BY <1>1, <1>2, <1>3 DEF Since

(***************************************************************************)
(* The last message is the one that was appended.                          *)
(***************************************************************************)
LEMMA LastOfAppended ==
  ASSUME NEW T, NEW s \in Seq(T), NEW e \in T
  PROVE  LastMessage(Append(s, e)) = e
  BY DEF LastMessage

(***************************************************************************)
(* A line typed is a line of the draft.                                    *)
(***************************************************************************)
LEMMA DraftNext ==
  ASSUME NEW t \in Seq(Input), NEW e \in Lines, NEW d, Drafted(t, d)
  PROVE  Drafted(Append(t, e), Append(d, e))
<1> DEFINE u == Append(t, e)
<1>1. PICK l \in 0..Len(t) : Since(t, l, Len(t), d)
  BY DEF Drafted
<1>2. Since(u, l, Len(t) + 1, Append(d, e))
  BY <1>1, ChatAssumption, SinceNext
<1>3. e \in Input
  BY DEF Input
<1>4. Len(u) = Len(t) + 1 /\ l \in 0..Len(u)
  BY <1>3
<1> HIDE DEF u
<1> QED
  BY <1>2, <1>4 DEF Drafted, u

(***************************************************************************)
(* A command typed leaves an empty draft.                                  *)
(***************************************************************************)
LEMMA DraftCommand ==
  ASSUME NEW t \in Seq(Input), NEW e \in Commands
  PROVE  Drafted(Append(t, e), <<>>)
<1>1. e \in Input
  BY DEF Input
<1> DEFINE u == Append(t, e)
<1>2. u \in Seq(Input) /\ u # <<>> /\ Len(u) = Len(t) + 1 /\ u[Len(t) + 1] = e
  BY <1>1, AppendProperties
<1> HIDE DEF u
<1>3. Drafted(u, <<>>)
  BY <1>2, SinceHere
<1> QED
  BY <1>3 DEF u

(***************************************************************************)
(* What /send submits is the draft,                                        *)
(***************************************************************************)
LEMMA DraftSent ==
  ASSUME NEW t \in Seq(Input), NEW d, Drafted(t, d)
  PROVE  Sent(Append(t, "/send"), Len(t) + 1, d)
<1> DEFINE u == Append(t, "/send")
<1>1. PICK l \in 0..Len(t) : Since(t, l, Len(t), d)
  BY DEF Drafted
<1>2. "/send" \in Input
  BY DEF Input, Commands
<1>3. Len(t) \in 0..Len(t)
  OBVIOUS
<1>4. Since(u, l, Len(t), d)
  BY <1>1, <1>2, <1>3, SinceKept
<1>5. u[Len(t) + 1] = "/send" /\ (Len(t) + 1) - 1 = Len(t)
  BY <1>2
<1>6. UpTo(u, Len(t) + 1) = Len(t)
  BY <1>5 DEF UpTo
<1>7. l \in 0..Len(u)
  BY <1>2
<1> HIDE DEF u
<1> QED
  BY <1>4, <1>6, <1>7 DEF Sent, u

(***************************************************************************)
(* and so is what the end of the input submits.                            *)
(***************************************************************************)
LEMMA DraftSentAtEnd ==
  ASSUME NEW t \in Seq(Input), NEW d, Drafted(t, d), d # <<>>
  PROVE  Sent(t, Len(t), d)
<1>1. t[Len(t)] # "/send"
  BY DraftEndsTyped DEF Commands
<1>2. UpTo(t, Len(t)) = Len(t)
  BY <1>1 DEF UpTo
<1> QED
  BY <1>2 DEF Sent, Drafted

(***************************************************************************)
(* When the tool reads, the draft is what was typed since the last         *)
(* command.                                                                *)
(***************************************************************************)
LEMMA DraftStep ==
  ASSUME TypesInv, ControlInv, TypedInv, [Next]_vars, pc' = "read"
  PROVE  Drafted(typed', draft')
<1>0. typed \in Seq(Input)
  BY DEF TypesInv, TypeOK, Input
<1>1. ASSUME ParseArguments PROVE Drafted(typed', draft')
  BY <1>1, ParseOutcome
<1>2. ASSUME CreateFails PROVE Drafted(typed', draft')
  BY <1>2 DEF CreateFails, Exit
<1>3. ASSUME CreateSucceeds PROVE Drafted(typed', draft')
  <2>1. typed' = <<>> /\ draft' = <<>>
    BY <1>3 DEF CreateSucceeds, ControlInv
  <2>2. Since(<<>>, 0, 0, <<>>) /\ Len(<<>>) = 0
    BY SubSeqEmpty DEF Since
  <2> QED
    BY <2>1, <2>2 DEF Drafted
<1>4. ASSUME ReadFileFails PROVE Drafted(typed', draft')
  BY <1>4 DEF ReadFileFails, Exit
<1>5. ASSUME ReadFile PROVE Drafted(typed', draft')
  BY <1>5 DEF ReadFile
<1>6. ASSUME TypeLine PROVE Drafted(typed', draft')
  <2>1. PICK line \in Lines : draft' = Append(draft, line) /\ typed' = Append(typed, line)
    BY <1>6 DEF TypeLine, AddLine
  <2>2. Drafted(typed, draft)
    BY <1>6 DEF TypeLine, MayType, TypedInv
  <2> QED
    BY <1>0, <2>1, <2>2, DraftNext
<1>7. ASSUME TypeQuit PROVE Drafted(typed', draft')
  BY <1>7 DEF TypeQuit, MayType, Exit
<1>8. ASSUME TypeClear PROVE Drafted(typed', draft')
  <2>1. draft' = <<>> /\ typed' = Append(typed, "/clear") /\ "/clear" \in Commands
    BY <1>8 DEF TypeClear, Commands
  <2> QED
    BY <1>0, <2>1, DraftCommand
<1>9. ASSUME TypeSend PROVE Drafted(typed', draft')
  <2>1. draft' = <<>> /\ typed' = Append(typed, "/send") /\ "/send" \in Commands
    BY <1>9 DEF TypeSend, Submit, Commands
  <2> QED
    BY <1>0, <2>1, DraftCommand
<1>10. ASSUME InputEnds PROVE Drafted(typed', draft')
  BY <1>10 DEF InputEnds, Exit, Submit
<1>11. ASSUME NEW text \in Replies, GenerateSucceeds(text) PROVE Drafted(typed', draft')
  <2>1. interactive /\ ~closed /\ pc = "generate" /\ UNCHANGED <<typed, draft>>
    BY <1>11 DEF GenerateSucceeds, Exit
  <2>2. draft = <<>> /\ typed # <<>> /\ typed[Len(typed)] = "/send"
    BY <2>1 DEF TypedInv, TurnSent
  <2>3. Drafted(typed, <<>>)
    BY <1>0, <2>2, SinceHere DEF Commands
  <2> QED
    BY <2>1, <2>2, <2>3
<1>12. ASSUME GenerateFails PROVE Drafted(typed', draft')
  <2>1. interactive /\ ~closed /\ pc = "generate" /\ UNCHANGED <<typed, draft>>
    BY <1>12 DEF GenerateFails, Exit
  <2>2. draft = <<>> /\ typed # <<>> /\ typed[Len(typed)] = "/send"
    BY <2>1 DEF TypedInv, TurnSent
  <2>3. Drafted(typed, <<>>)
    BY <1>0, <2>2, SinceHere DEF Commands
  <2> QED
    BY <2>1, <2>2, <2>3
<1>13. ASSUME Ended PROVE Drafted(typed', draft')
  BY <1>13 DEF Ended, vars
<1>14. CASE UNCHANGED vars
  BY <1>14 DEF vars, TypedInv
<1> QED
  BY <1>1, <1>2, <1>3, <1>4, <1>5, <1>6, <1>7, <1>8, <1>9, <1>10, <1>11, <1>12,
     <1>13, <1>14
  DEF Next

(***************************************************************************)
(* When it generates, the new turn is what was typed before the /send or   *)
(* the end of the input.                                                   *)
(***************************************************************************)
LEMMA TurnStep ==
  ASSUME TypesInv, ControlInv, TypedInv, [Next]_vars, pc' = "generate", interactive'
  PROVE  TurnSent'
<1>0. typed \in Seq(Input) /\ history \in Seq(Messages) /\ User(draft) \in Messages
  BY DEF TypesInv, TypeOK, Input, User, Messages
<1> DEFINE h == Append(history, User(draft))
<1>00. LastMessage(h).content = draft
  <2>1. LastMessage(h) = User(draft)
    BY <1>0, LastOfAppended
  <2> QED
    BY <2>1 DEF User
<1> HIDE DEF h
<1>1. ASSUME ParseArguments PROVE TurnSent'
  BY <1>1, ParseOutcome
<1>2. ASSUME CreateFails PROVE TurnSent'
  BY <1>2 DEF CreateFails, Exit
<1>3. ASSUME CreateSucceeds PROVE TurnSent'
  BY <1>3 DEF CreateSucceeds
<1>4. ASSUME ReadFileFails PROVE TurnSent'
  BY <1>4 DEF ReadFileFails, Exit
<1>5. ASSUME ReadFile PROVE TurnSent'
  BY <1>5 DEF ReadFile, ControlInv
<1>6. ASSUME TypeLine PROVE TurnSent'
  BY <1>6 DEF TypeLine, MayType
<1>7. ASSUME TypeQuit PROVE TurnSent'
  BY <1>7 DEF TypeQuit, MayType, Exit
<1>8. ASSUME TypeClear PROVE TurnSent'
  BY <1>8 DEF TypeClear, MayType
<1>9. ASSUME TypeSend PROVE TurnSent'
  <2>1. pc = "read" /\ draft # <<>>
    BY <1>9 DEF TypeSend, MayType
  <2>2. draft' = <<>> /\ history' = h /\ ~closed' /\ typed' = Append(typed, "/send")
    BY <1>9, <2>1 DEF TypeSend, Submit, ControlInv, h
  <2>3. Drafted(typed, draft)
    BY <2>1 DEF TypedInv
  <2>4. Sent(typed', Len(typed) + 1, draft)
    BY <1>0, <2>2, <2>3, DraftSent
  <2>5. "/send" \in Input
    BY DEF Input, Commands
  <2>6. typed' # <<>> /\ Len(typed') = Len(typed) + 1 /\ typed'[Len(typed) + 1] = "/send"
    BY <1>0, <2>2, <2>5
  <2> QED
    BY <1>00, <2>2, <2>4, <2>6 DEF TurnSent
<1>10. ASSUME InputEnds PROVE TurnSent'
  <2>1. pc = "read" /\ draft # <<>>
    BY <1>10 DEF InputEnds, NothingToSubmit, Exit
  <2>2. draft' = <<>> /\ history' = h /\ closed' /\ typed' = typed
    BY <1>10, <2>1 DEF InputEnds, NothingToSubmit, Submit, h
  <2>3. Drafted(typed, draft)
    BY <2>1 DEF TypedInv
  <2>4. Sent(typed, Len(typed), draft)
    BY <1>0, <2>1, <2>3, DraftSentAtEnd
  <2>5. typed # <<>> /\ typed[Len(typed)] \notin Commands
    BY <1>0, <2>1, <2>3, DraftEndsTyped
  <2> QED
    BY <1>00, <2>2, <2>4, <2>5 DEF TurnSent
<1>11. ASSUME NEW text \in Replies, GenerateSucceeds(text) PROVE TurnSent'
  BY <1>11 DEF GenerateSucceeds, Exit
<1>12. ASSUME GenerateFails PROVE TurnSent'
  BY <1>12 DEF GenerateFails, Exit
<1>13. ASSUME Ended PROVE TurnSent'
  BY <1>13 DEF Ended, vars
<1>14. CASE UNCHANGED vars
  BY <1>14 DEF vars, TypedInv, TurnSent
<1> QED
  BY <1>1, <1>2, <1>3, <1>4, <1>5, <1>6, <1>7, <1>8, <1>9, <1>10, <1>11, <1>12,
     <1>13, <1>14
  DEF Next

(***************************************************************************)
(* Each call was for such a turn.                                          *)
(***************************************************************************)
LEMMA CallsStep ==
  ASSUME TypesInv, ControlInv, TypedInv, [Next]_vars, interactive'
  PROVE  CallsSent(calls', typed')
<1>0. typed \in Seq(Input) /\ calls \in Seq(CallRecords)
  BY DEF TypesInv, TypeOK, Input
<1>1. ASSUME ParseArguments PROVE CallsSent(calls', typed')
  <2>1. calls' = <<>>
    BY <1>1 DEF ParseArguments, ControlInv
  <2> QED
    BY <2>1 DEF CallsSent
<1>2. ASSUME CreateFails PROVE CallsSent(calls', typed')
  BY <1>2 DEF CreateFails, TypedInv
<1>3. ASSUME CreateSucceeds PROVE CallsSent(calls', typed')
  BY <1>3 DEF CreateSucceeds, TypedInv
<1>4. ASSUME ReadFileFails PROVE CallsSent(calls', typed')
  BY <1>4 DEF ReadFileFails, TypedInv
<1>5. ASSUME ReadFile PROVE CallsSent(calls', typed')
  BY <1>5 DEF ReadFile, TypedInv
<1>6. ASSUME TypeLine PROVE CallsSent(calls', typed')
  <2>1. PICK line \in Lines : typed' = Append(typed, line)
    BY <1>6 DEF TypeLine
  <2>2. line \in Input /\ UNCHANGED <<calls, interactive>>
    BY <1>6 DEF TypeLine, Input
  <2> QED
    BY <1>0, <2>1, <2>2, CallsSentTyped DEF TypedInv
<1>7. ASSUME TypeQuit PROVE CallsSent(calls', typed')
  <2>1. typed' = Append(typed, "/quit") /\ "/quit" \in Input /\ UNCHANGED <<calls, interactive>>
    BY <1>7 DEF TypeQuit, Input, Commands
  <2> QED
    BY <1>0, <2>1, CallsSentTyped DEF TypedInv
<1>8. ASSUME TypeClear PROVE CallsSent(calls', typed')
  <2>1. typed' = Append(typed, "/clear") /\ "/clear" \in Input /\ UNCHANGED <<calls, interactive>>
    BY <1>8 DEF TypeClear, Input, Commands
  <2> QED
    BY <1>0, <2>1, CallsSentTyped DEF TypedInv
<1>9. ASSUME TypeSend PROVE CallsSent(calls', typed')
  <2>1. typed' = Append(typed, "/send") /\ "/send" \in Input /\ UNCHANGED <<calls, interactive>>
    BY <1>9 DEF TypeSend, Input, Commands
  <2> QED
    BY <1>0, <2>1, CallsSentTyped DEF TypedInv
<1>10. ASSUME InputEnds PROVE CallsSent(calls', typed')
  BY <1>10 DEF InputEnds, TypedInv
<1>11. ASSUME NEW text \in Replies, GenerateSucceeds(text) PROVE CallsSent(calls', typed')
  <2> DEFINE c == [session |-> session, messages |-> history, at |-> Len(typed),
                   outcome |-> text]
  <2>1. calls' = Append(calls, c) /\ UNCHANGED <<typed, interactive>> /\ pc = "generate"
    BY <1>11 DEF GenerateSucceeds, Call
  <2>2. CallsSent(calls, typed) /\ TurnSent
    BY <2>1 DEF TypedInv
  <2>3. c \in CallRecords
    BY <2>1 DEF TypesInv, TypeOK, ControlInv, CallRecords, Outcomes
  <2>4. c.at \in 1..Len(typed) /\ Sent(typed, c.at, LastMessage(c.messages).content)
    BY <1>0, <2>2 DEF TurnSent
  <2> HIDE DEF c
  <2> QED
    BY <1>0, <2>1, <2>2, <2>3, <2>4, CallsSentCalled
<1>12. ASSUME GenerateFails PROVE CallsSent(calls', typed')
  <2> DEFINE c == [session |-> session, messages |-> history, at |-> Len(typed),
                   outcome |-> Failed]
  <2>1. calls' = Append(calls, c) /\ UNCHANGED <<typed, interactive>> /\ pc = "generate"
    BY <1>12 DEF GenerateFails, Call
  <2>2. CallsSent(calls, typed) /\ TurnSent
    BY <2>1 DEF TypedInv
  <2>3. c \in CallRecords
    BY <2>1 DEF TypesInv, TypeOK, ControlInv, CallRecords, Outcomes
  <2>4. c.at \in 1..Len(typed) /\ Sent(typed, c.at, LastMessage(c.messages).content)
    BY <1>0, <2>2 DEF TurnSent
  <2> HIDE DEF c
  <2> QED
    BY <1>0, <2>1, <2>2, <2>3, <2>4, CallsSentCalled
<1>13. ASSUME Ended PROVE CallsSent(calls', typed')
  BY <1>13 DEF Ended, vars, TypedInv
<1>14. CASE UNCHANGED vars
  BY <1>14 DEF vars, TypedInv
<1> QED
  BY <1>1, <1>2, <1>3, <1>4, <1>5, <1>6, <1>7, <1>8, <1>9, <1>10, <1>11, <1>12,
     <1>13, <1>14
  DEF Next

(***************************************************************************)
(* TypedInv holds initially.                                               *)
(***************************************************************************)
LEMMA TypedInit ==
  ASSUME Init PROVE TypedInv
  BY DEF Init, TypedInv

(***************************************************************************)
(* Each step keeps TypedInv.                                               *)
(***************************************************************************)
LEMMA TypedStep ==
  ASSUME TypesInv, ControlInv, TypedInv, [Next]_vars
  PROVE  TypedInv'
<1>1. pc' = "read" => Drafted(typed', draft')
  BY DraftStep
<1>2. pc' = "generate" /\ interactive' => TurnSent'
  BY TurnStep
<1>3. interactive' => CallsSent(calls', typed')
  BY CallsStep
<1> QED
  BY <1>1, <1>2, <1>3 DEF TypedInv

-----------------------------------------------------------------------------
\* Each call continues the conversation its session had before it.
Converse(cs) ==
  \A n \in DOMAIN cs : WithoutTurn(cs[n].messages) = AnsweredIn(cs, cs[n].session, n)

\* No call is of a session still to come.
EarlierSessions(cs, sid) == \A n \in DOMAIN cs : cs[n].session \leq sid

\* The history is what was answered in this session, and the turn in progress.
ConversationInv ==
  /\ EarlierSessions(calls, session)
  /\ pc = "read" => history = AnsweredIn(calls, session, Len(calls) + 1)
  /\ pc = "generate" =>
       WithoutTurn(history) = AnsweredIn(calls, session, Len(calls) + 1)
  /\ Converse(calls)

(***************************************************************************)
(* history.pop_back() undoes the push_back of the turn.                    *)
(***************************************************************************)
LEMMA WithoutAppended ==
  ASSUME NEW T, NEW s \in Seq(T), NEW e \in T
  PROVE  WithoutTurn(Append(s, e)) = s
<1> DEFINE u == Append(s, e)
<1>1. u \in Seq(T) /\ Len(u) = Len(s) + 1 /\ \A i \in 1..Len(s) : u[i] = s[i]
  BY AppendProperties
<1>2. Len(s) \in Nat /\ Len(u) - 1 = Len(s)
  BY <1>1
<1> HIDE DEF u
<1>3. SubSeq(u, 1, Len(s)) \in Seq(T) /\ Len(SubSeq(u, 1, Len(s))) = Len(s)
        /\ \A i \in 1..Len(s) : SubSeq(u, 1, Len(s))[i] = s[i]
  BY <1>1, <1>2
<1>4. SubSeq(u, 1, Len(s)) = s
  BY <1>3, SeqEqual
<1> QED
  BY <1>2, <1>4 DEF WithoutTurn, u

(***************************************************************************)
(* A turn and its answer complete the history.                             *)
(***************************************************************************)
LEMMA TurnCompletes ==
  ASSUME NEW s \in Seq(Messages), s # <<>>, NEW e \in Messages
  PROVE  WithoutTurn(s) \o <<s[Len(s)], e>> = Append(s, e)
<1> DEFINE n == Len(s)
           a == SubSeq(s, 1, n - 1)
           b == <<s[n], e>>
<1>1. n \in Nat /\ n # 0 /\ n \in 1..n
  OBVIOUS
<1>2. a \in Seq(Messages) /\ Len(a) = n - 1 /\ \A i \in 1..(n - 1) : a[i] = s[i]
  <2>1. n - 1 \in Int /\ 1 \in Int /\ \A i \in 1..(n - 1) : s[i] \in Messages
    BY <1>1
  <2> HIDE DEF n
  <2>2. /\ a \in Seq(Messages)
        /\ Len(a) = IF 1 <= n - 1 THEN (n - 1) - 1 + 1 ELSE 0
        /\ \A i \in 1..((n - 1) - 1 + 1) : a[i] = s[1 + i - 1]
    BY <2>1, SubSeqProperties
  <2> HIDE DEF a
  <2> QED
    BY <1>1, <2>2
<1>3. s[n] \in Messages
  BY <1>1
<1>4. b \in Seq(Messages) /\ Len(b) = 2 /\ b[1] = s[n] /\ b[2] = e
  BY <1>3
<1> HIDE DEF a, b
<1> DEFINE c == a \o b
           d == Append(s, e)
<1>5. c \in Seq(Messages) /\ Len(c) = Len(a) + Len(b)
        /\ \A i \in 1..(Len(a) + Len(b)) : c[i] = IF i <= Len(a) THEN a[i] ELSE b[i - Len(a)]
  <2>1. a \in Seq(Messages) /\ b \in Seq(Messages)
    BY <1>2, <1>4
  <2> QED
    BY <2>1, ConcatProperties
<1>6. Len(c) = n - 1 + 2
       /\ \A i \in 1..(n - 1 + 2) : c[i] = IF i \leq n - 1 THEN a[i] ELSE b[i - (n - 1)]
  <2> HIDE DEF c
  <2> QED
    BY <1>2, <1>4, <1>5
<1>7. d \in Seq(Messages) /\ Len(d) = n + 1 /\ d[n + 1] = e /\ \A i \in 1..n : d[i] = s[i]
  BY AppendProperties
<1> HIDE DEF c, d, n
<1>8. \A i \in 1..Len(c) : c[i] = d[i]
  <2> TAKE i \in 1..Len(c)
  <2>1. i \in 1..(n - 1 + 2)
    BY <1>6
  <2>2. CASE i \leq n - 1
    BY <1>1, <1>2, <1>6, <1>7, <2>1, <2>2
  <2>3. CASE i = n
    <3>1. i - (n - 1) = 1 /\ ~ (i \leq n - 1)
      BY <1>1, <2>3
    <3> QED
      BY <1>1, <1>4, <1>6, <1>7, <2>1, <2>3, <3>1
  <2>4. CASE i = n + 1
    <3>1. i - (n - 1) = 2 /\ ~ (i \leq n - 1)
      BY <1>1, <2>4
    <3> QED
      BY <1>1, <1>4, <1>6, <1>7, <2>1, <2>4, <3>1
  <2>5. i \leq n - 1 \/ i = n \/ i = n + 1
    BY <1>1, <2>1
  <2> QED
    BY <2>2, <2>3, <2>4, <2>5
<1>9. Len(c) = Len(d)
  BY <1>1, <1>6, <1>7
<1> QED
  BY <1>5, <1>7, <1>8, <1>9, SeqEqual DEF WithoutTurn, a, b, c, d, n

(***************************************************************************)
(* One more call that continues its conversation leaves those of the       *)
(* others as they were.                                                    *)
(***************************************************************************)
LEMMA ConverseCalled ==
  ASSUME NEW cs \in Seq(CallRecords), NEW c \in CallRecords, Converse(cs),
         WithoutTurn(c.messages) = AnsweredIn(cs, c.session, Len(cs) + 1)
  PROVE  Converse(Append(cs, c))
<1> DEFINE ds == Append(cs, c)
           N == Len(cs)
<1>1. DOMAIN ds = 1..(N + 1) /\ ds[N + 1] = c /\ \A n \in 1..N : ds[n] = cs[n]
  OBVIOUS
<1>2. DOMAIN cs = 1..N /\ N \in Nat /\ N \in 0..Len(cs)
  OBVIOUS
<1>3. ASSUME NEW sid, NEW n \in 0..N
      PROVE  AnsweredIn(ds, sid, n + 1) = AnsweredIn(cs, sid, n + 1)
  BY AnsweredKept
<1> HIDE DEF ds
<1> SUFFICES ASSUME NEW n \in DOMAIN ds
             PROVE  WithoutTurn(ds[n].messages) = AnsweredIn(ds, ds[n].session, n)
  BY DEF Converse, ds
<1>4. CASE n = N + 1
  BY <1>1, <1>2, <1>3, <1>4
<1>5. CASE n \in 1..N
  <2>1. n - 1 \in 0..N /\ (n - 1) + 1 = n
    BY <1>2, <1>5
  <2>2. AnsweredIn(ds, cs[n].session, (n - 1) + 1) = AnsweredIn(cs, cs[n].session, (n - 1) + 1)
    BY <1>3, <2>1
  <2>3. WithoutTurn(cs[n].messages) = AnsweredIn(cs, cs[n].session, n)
    BY <1>2, <1>5 DEF Converse
  <2> QED
    BY <1>1, <1>5, <2>1, <2>2, <2>3
<1>6. n = N + 1 \/ n \in 1..N
  BY <1>1, <1>2
<1> QED
  BY <1>4, <1>5, <1>6

(***************************************************************************)
(* The conversation after a call is that before it and the turn of the     *)
(* call.                                                                   *)
(***************************************************************************)
LEMMA AnswerAdded ==
  ASSUME NEW cs \in Seq(CallRecords), NEW c \in CallRecords, NEW sid
  PROVE  AnsweredIn(Append(cs, c), sid, Len(Append(cs, c)) + 1)
           = AnsweredIn(cs, sid, Len(cs) + 1) \o Turn(c, sid)
<1> DEFINE ds == Append(cs, c)
           N == Len(cs)
<1>1. ds \in Seq(CallRecords) /\ Len(ds) = N + 1 /\ ds[N + 1] = c
  OBVIOUS
<1>2. N \in Nat /\ N \in 0..Len(cs)
  OBVIOUS
<1>3. AnsweredIn(ds, sid, N + 1) = AnsweredIn(cs, sid, N + 1)
  BY <1>2, AnsweredKept
<1> HIDE DEF ds, N
<1>4. N + 1 \in 1..Len(ds)
  BY <1>1, <1>2
<1>5. AnsweredIn(ds, sid, (N + 1) + 1) = AnsweredIn(ds, sid, N + 1) \o Turn(ds[N + 1], sid)
  BY <1>1, <1>4, AnsweredStep
<1> QED
  BY <1>1, <1>3, <1>5 DEF ds, N

(***************************************************************************)
(* A call of the current session keeps all sessions up to it.              *)
(***************************************************************************)
LEMMA EarlierCalled ==
  ASSUME NEW cs \in Seq(CallRecords), NEW c \in CallRecords, NEW sid \in Nat,
         EarlierSessions(cs, sid), c.session = sid
  PROVE  EarlierSessions(Append(cs, c), sid)
<1> DEFINE ds == Append(cs, c)
           N == Len(cs)
<1>1. DOMAIN ds = 1..(N + 1) /\ ds[N + 1] = c /\ \A n \in 1..N : ds[n] = cs[n]
  OBVIOUS
<1>2. DOMAIN cs = 1..N /\ N \in Nat
  OBVIOUS
<1> HIDE DEF ds, N
<1>3. \A n \in DOMAIN ds : n = N + 1 \/ n \in 1..N
  BY <1>1, <1>2
<1>4. \A n \in DOMAIN ds : ds[n].session \leq sid
  BY <1>1, <1>2, <1>3 DEF EarlierSessions
<1> QED
  BY <1>4 DEF EarlierSessions, ds

(***************************************************************************)
(* ConversationInv holds initially.                                        *)
(***************************************************************************)
LEMMA ConversationInit ==
  ASSUME Init PROVE ConversationInv
  BY DEF Init, ConversationInv, EarlierSessions, Converse

(***************************************************************************)
(* Each step keeps ConversationInv: /clear begins a session that no call   *)
(* had, a failed turn is taken back, and an answered one is added together *)
(* with its answer.                                                        *)
(***************************************************************************)
LEMMA ConversationStep ==
  ASSUME TypesInv, ControlInv, ConversationInv, [Next]_vars
  PROVE  ConversationInv'
<1> DEFINE now == AnsweredIn(calls, session, Len(calls) + 1)
<1>0. /\ calls \in Seq(CallRecords) /\ session \in Nat /\ history \in Seq(Messages)
      /\ User(draft) \in Messages
  BY DEF TypesInv, TypeOK, User, Messages
<1>1. ASSUME ParseArguments PROVE ConversationInv'
  <2>1. pc' # "read" /\ pc' # "generate"
    BY <1>1, ParseOutcome
  <2> QED
    BY <1>1, <2>1 DEF ParseArguments, ConversationInv
<1>2. ASSUME CreateFails PROVE ConversationInv'
  BY <1>2 DEF CreateFails, Exit, ConversationInv
<1>3. ASSUME CreateSucceeds PROVE ConversationInv'
  <2>1. calls' = <<>> /\ history' = <<>> /\ pc' # "generate"
    BY <1>3 DEF CreateSucceeds, ControlInv
  <2>2. AnsweredIn(<<>>, session', 1) = <<>> /\ Len(<<>>) + 1 = 1
    <3>1. <<>> \in Seq(CallRecords) /\ Len(<<>>) + 1 = 1
      OBVIOUS
    <3> QED
      BY <3>1, AnsweredNothing
  <2>3. EarlierSessions(<<>>, session') /\ Converse(<<>>)
    BY DEF EarlierSessions, Converse
  <2> QED
    BY <2>1, <2>2, <2>3 DEF ConversationInv
<1>4. ASSUME ReadFileFails PROVE ConversationInv'
  BY <1>4 DEF ReadFileFails, Exit, ConversationInv
<1>5. ASSUME ReadFile PROVE ConversationInv'
  <2>1. PICK line \in Lines : history' = <<User(<<line>>)>>
    BY <1>5 DEF ReadFile
  <2>2. calls' = <<>> /\ pc' = "generate" /\ session' = session
    BY <1>5 DEF ReadFile, ControlInv
  <2>3. AnsweredIn(<<>>, session, 1) = <<>> /\ Len(<<>>) + 1 = 1
    <3>1. <<>> \in Seq(CallRecords) /\ Len(<<>>) + 1 = 1
      OBVIOUS
    <3> QED
      BY <3>1, AnsweredNothing
  <2>4. WithoutTurn(history') = <<>>
    <3>1. Len(history') - 1 = 0
      BY <2>1
    <3>2. SubSeq(history', 1, 0) = <<>>
      BY SubSeqEmpty
    <3> QED
      BY <3>1, <3>2 DEF WithoutTurn
  <2>5. EarlierSessions(<<>>, session) /\ Converse(<<>>)
    BY DEF EarlierSessions, Converse
  <2> QED
    BY <2>2, <2>3, <2>4, <2>5 DEF ConversationInv
<1>6. ASSUME TypeLine PROVE ConversationInv'
  BY <1>6 DEF TypeLine, MayType, ConversationInv
<1>7. ASSUME TypeQuit PROVE ConversationInv'
  BY <1>7 DEF TypeQuit, Exit, ConversationInv
<1>8. ASSUME TypeClear PROVE ConversationInv'
  <2>1. session' = session + 1 /\ history' = <<>> /\ calls' = calls /\ pc' = "read"
    BY <1>8 DEF TypeClear, MayType
  <2>2. \A n \in 1..Len(calls) : calls[n].session \leq session
    BY <1>0 DEF ConversationInv, EarlierSessions
  <2>3. \A n \in 1..Len(calls) : calls[n].session \in Nat
    <3>1. \A n \in 1..Len(calls) : calls[n] \in CallRecords
      BY <1>0
    <3> QED
      BY <3>1 DEF CallRecords
  <2>4. \A n \in 1..Len(calls) : calls[n].session # session' /\ calls[n].session \leq session'
    BY <1>0, <2>1, <2>2, <2>3
  <2>5. AnsweredIn(calls, session', Len(calls) + 1) = <<>>
    BY <1>0, <2>4, AnsweredOther
  <2>6. EarlierSessions(calls, session')
    BY <1>0, <2>4 DEF EarlierSessions
  <2> QED
    BY <2>1, <2>5, <2>6 DEF ConversationInv
<1>9. ASSUME TypeSend PROVE ConversationInv'
  <2>1. CASE draft = <<>>
    BY <1>9, <2>1 DEF TypeSend, MayType, ConversationInv
  <2>2. CASE draft # <<>>
    <3>1. pc' = "generate" /\ pc = "read" /\ history' = Append(history, User(draft))
             /\ UNCHANGED <<session, calls>>
      BY <1>9, <2>2 DEF TypeSend, MayType, Submit
    <3>2. WithoutTurn(history') = history
      BY <1>0, <3>1, WithoutAppended
    <3> QED
      BY <3>1, <3>2 DEF ConversationInv
  <2> QED
    BY <2>1, <2>2
<1>10. ASSUME InputEnds PROVE ConversationInv'
  <2>1. CASE draft = <<>>
    BY <1>10, <2>1 DEF InputEnds, NothingToSubmit, Exit, ConversationInv
  <2>2. CASE draft # <<>>
    <3>1. pc' = "generate" /\ pc = "read" /\ history' = Append(history, User(draft))
             /\ UNCHANGED <<session, calls>>
      BY <1>10, <2>2 DEF InputEnds, NothingToSubmit, Submit
    <3>2. WithoutTurn(history') = history
      BY <1>0, <3>1, WithoutAppended
    <3> QED
      BY <3>1, <3>2 DEF ConversationInv
  <2> QED
    BY <2>1, <2>2
<1>11. ASSUME NEW text \in Replies, GenerateSucceeds(text) PROVE ConversationInv'
  <2> DEFINE c == [session |-> session, messages |-> history, at |-> Len(typed),
                   outcome |-> text]
  <2>1. calls' = Append(calls, c) /\ UNCHANGED session /\ pc = "generate" /\ pc' # "generate"
    BY <1>11 DEF GenerateSucceeds, Call, Exit
  <2>2. c \in CallRecords /\ c.session = session /\ c.messages = history /\ history # <<>>
    BY <1>0, <2>1 DEF TypesInv, TypeOK, ControlInv, CallRecords, Outcomes
  <2>3. WithoutTurn(history) = now
    BY <2>1 DEF ConversationInv
  <2>4. c.outcome = text
    OBVIOUS
  <2> HIDE DEF c
  <2>5. Converse(calls')
    BY <1>0, <2>1, <2>2, <2>3, ConverseCalled DEF ConversationInv
  <2>6. EarlierSessions(calls', session')
    BY <1>0, <2>1, <2>2, EarlierCalled DEF ConversationInv
  <2>7. AnsweredIn(calls', session', Len(calls') + 1) = now \o Turn(c, session)
    BY <1>0, <2>1, <2>2, AnswerAdded
  <2>8. text # Failed /\ Assistant(text) \in Messages
    BY ChatAssumption DEF Assistant, Messages
  <2>9. Turn(c, session) = <<history[Len(history)], Assistant(text)>>
    BY <2>2, <2>4, <2>8 DEF Turn
  <2>10. now \o Turn(c, session) = Append(history, Assistant(text))
    BY <1>0, <2>2, <2>3, <2>8, <2>9, TurnCompletes
  <2>11. pc' = "read" => history' = Append(history, Assistant(text))
    BY <1>11 DEF GenerateSucceeds, Exit
  <2> QED
    BY <2>1, <2>5, <2>6, <2>7, <2>10, <2>11 DEF ConversationInv
<1>12. ASSUME GenerateFails PROVE ConversationInv'
  <2> DEFINE c == [session |-> session, messages |-> history, at |-> Len(typed),
                   outcome |-> Failed]
  <2>1. calls' = Append(calls, c) /\ UNCHANGED session /\ pc = "generate" /\ pc' # "generate"
    BY <1>12 DEF GenerateFails, Call, Exit
  <2>2. c \in CallRecords /\ c.session = session /\ c.messages = history /\ history # <<>>
    BY <1>0, <2>1 DEF TypesInv, TypeOK, ControlInv, CallRecords, Outcomes
  <2>3. WithoutTurn(history) = now
    BY <2>1 DEF ConversationInv
  <2>4. c.outcome = Failed
    OBVIOUS
  <2> HIDE DEF c
  <2>5. Converse(calls')
    BY <1>0, <2>1, <2>2, <2>3, ConverseCalled DEF ConversationInv
  <2>6. EarlierSessions(calls', session')
    BY <1>0, <2>1, <2>2, EarlierCalled DEF ConversationInv
  <2>7. AnsweredIn(calls', session', Len(calls') + 1) = now \o Turn(c, session)
    BY <1>0, <2>1, <2>2, AnswerAdded
  <2>8. Turn(c, session) = <<>>
    BY <2>4 DEF Turn
  <2>9. now \in Seq(Messages)
    <3>1. Len(calls) \in 0..Len(calls)
      BY <1>0
    <3> QED
      BY <1>0, <3>1, AnsweredType
  <2> HIDE DEF now
  <2>10. now \o Turn(c, session) = now
    BY <2>8, <2>9, ConcatEmptySeq
  <2>11. pc' = "read" => history' = WithoutTurn(history)
    BY <1>12 DEF GenerateFails, Exit
  <2> QED
    BY <2>1, <2>3, <2>5, <2>6, <2>7, <2>10, <2>11 DEF ConversationInv
<1>13. ASSUME Ended PROVE ConversationInv'
  BY <1>13 DEF Ended, vars, ConversationInv
<1>14. CASE UNCHANGED vars
  BY <1>14 DEF vars, ConversationInv
<1> QED
  BY <1>1, <1>2, <1>3, <1>4, <1>5, <1>6, <1>7, <1>8, <1>9, <1>10, <1>11, <1>12,
     <1>13, <1>14
  DEF Next

-----------------------------------------------------------------------------
LastCall(cs) == cs[Len(cs)]

\* Standard output is at the start of a line after a call that was answered.
LineInv == calls # <<>> /\ LastCall(calls).outcome # Failed => freshLine

(***************************************************************************)
(* What a call leaves as the last one.                                     *)
(***************************************************************************)
LEMMA CallIsLast ==
  ASSUME calls \in Seq(CallRecords), NEW outcome, Call(outcome)
  PROVE  /\ calls' # <<>> /\ LastCall(calls').outcome = outcome
         /\ LastCall(calls').at = Len(typed)
<1> DEFINE c == [session |-> session, messages |-> history, at |-> Len(typed),
                 outcome |-> outcome]
           ds == Append(calls, c)
<1>1. calls' = ds
  BY DEF Call
<1>2. ds # <<>> /\ ds[Len(ds)] = c
  OBVIOUS
<1>3. c.outcome = outcome /\ c.at = Len(typed)
  OBVIOUS
<1> QED
  BY <1>1, <1>2, <1>3 DEF LastCall

(***************************************************************************)
(* LineInv holds initially.                                                *)
(***************************************************************************)
LEMMA LineInit ==
  ASSUME Init PROVE LineInv
  BY DEF Init, LineInv

(***************************************************************************)
(* Each step keeps LineInv: only a call writes to standard output.         *)
(***************************************************************************)
LEMMA LineStep ==
  ASSUME TypesInv, LineInv, [Next]_vars
  PROVE  LineInv'
<1>0. calls \in Seq(CallRecords)
  BY DEF TypesInv
<1>1. ASSUME ParseArguments PROVE LineInv'
  BY <1>1 DEF ParseArguments, LineInv
<1>2. ASSUME CreateFails PROVE LineInv'
  BY <1>2 DEF CreateFails, LineInv
<1>3. ASSUME CreateSucceeds PROVE LineInv'
  BY <1>3 DEF CreateSucceeds, LineInv
<1>4. ASSUME ReadFileFails PROVE LineInv'
  BY <1>4 DEF ReadFileFails, LineInv
<1>5. ASSUME ReadFile PROVE LineInv'
  BY <1>5 DEF ReadFile, LineInv
<1>6. ASSUME TypeLine PROVE LineInv'
  BY <1>6 DEF TypeLine, LineInv
<1>7. ASSUME TypeQuit PROVE LineInv'
  BY <1>7 DEF TypeQuit, LineInv
<1>8. ASSUME TypeClear PROVE LineInv'
  BY <1>8 DEF TypeClear, LineInv
<1>9. ASSUME TypeSend PROVE LineInv'
  BY <1>9 DEF TypeSend, LineInv
<1>10. ASSUME InputEnds PROVE LineInv'
  BY <1>10 DEF InputEnds, LineInv
<1>11. ASSUME NEW text \in Replies, GenerateSucceeds(text) PROVE LineInv'
  <2>1. text \in Terminated => text # Empty
    BY ChatAssumption
  <2>2. freshLine'
    BY <1>11, <2>1 DEF GenerateSucceeds, FinishStreamedResponse, AfterStreaming
  <2> QED
    BY <2>2 DEF LineInv
<1>12. ASSUME GenerateFails PROVE LineInv'
  <2>1. LastCall(calls').outcome = Failed
    BY <1>12, <1>0, CallIsLast DEF GenerateFails
  <2> QED
    BY <2>1 DEF LineInv
<1>13. ASSUME Ended PROVE LineInv'
  BY <1>13 DEF Ended, vars, LineInv
<1>14. CASE UNCHANGED vars
  BY <1>14 DEF vars, LineInv
<1> QED
  BY <1>1, <1>2, <1>3, <1>4, <1>5, <1>6, <1>7, <1>8, <1>9, <1>10, <1>11, <1>12,
     <1>13, <1>14
  DEF Next

(***************************************************************************)
(* ExitTellsUnsent holds initially.                                       *)
(***************************************************************************)
LEMMA OutcomeInit ==
  ASSUME Init PROVE ExitTellsUnsent
  BY DEF Init, ExitTellsUnsent

(***************************************************************************)
(* Each step keeps ExitTellsUnsent. An input that ends with an empty      *)
(* draft ended with a command, by TypedInv, so its last call was not for   *)
(* its end.                                                                *)
(***************************************************************************)
LEMMA OutcomeStep ==
  ASSUME TypesInv, ControlInv, TypedInv, ExitTellsUnsent, [Next]_vars
  PROVE  ExitTellsUnsent'
<1>0. typed \in Seq(Input) /\ calls \in Seq(CallRecords)
  BY DEF TypesInv, TypeOK, Input
<1> USE DEF Unsent
<1>1. ASSUME ParseArguments PROVE ExitTellsUnsent'
  <2>1. calls' = <<>> /\ ~closed'
    BY <1>1 DEF ParseArguments, ControlInv
  <2>2. pc' # "exit" \/ status' # 5
    BY <1>1, ParseOutcome
  <2> QED
    BY <2>1, <2>2 DEF ExitTellsUnsent
<1>2. ASSUME CreateFails PROVE ExitTellsUnsent'
  <2>1. calls' = <<>> /\ status' # 5 /\ ~closed'
    BY <1>2 DEF CreateFails, Exit, ControlInv, NoRuntime
  <2> QED
    BY <2>1 DEF ExitTellsUnsent
<1>3. ASSUME CreateSucceeds PROVE ExitTellsUnsent'
  BY <1>3 DEF CreateSucceeds, ExitTellsUnsent
<1>4. ASSUME ReadFileFails PROVE ExitTellsUnsent'
  <2>1. calls' = <<>> /\ status' # 5 /\ ~closed'
    BY <1>4 DEF ReadFileFails, Exit, ControlInv
  <2> QED
    BY <2>1 DEF ExitTellsUnsent
<1>5. ASSUME ReadFile PROVE ExitTellsUnsent'
  BY <1>5 DEF ReadFile, ExitTellsUnsent
<1>6. ASSUME TypeLine PROVE ExitTellsUnsent'
  BY <1>6 DEF TypeLine, MayType, Submit, ExitTellsUnsent
<1>7. ASSUME TypeQuit PROVE ExitTellsUnsent'
  <2>1. status' = 0 /\ ~closed' /\ interactive'
    BY <1>7 DEF TypeQuit, MayType, Exit, ControlInv
  <2> QED
    BY <2>1 DEF ExitTellsUnsent
<1>8. ASSUME TypeClear PROVE ExitTellsUnsent'
  BY <1>8 DEF TypeClear, MayType, Submit, ExitTellsUnsent
<1>9. ASSUME TypeSend PROVE ExitTellsUnsent'
  BY <1>9 DEF TypeSend, MayType, Submit, ExitTellsUnsent
<1>10. ASSUME InputEnds PROVE ExitTellsUnsent'
  <2>1. CASE draft # <<>>
    BY <1>10, <2>1 DEF InputEnds, NothingToSubmit, Submit, ExitTellsUnsent
  <2>2. CASE draft = <<>>
    <3>1. /\ pc = "read" /\ interactive /\ status' = 0 /\ closed'
          /\ UNCHANGED <<typed, calls, interactive>>
      BY <1>10, <2>2 DEF InputEnds, NothingToSubmit, Exit, ControlInv
    <3>2. typed # <<>> => typed[Len(typed)] \in Commands
      BY <1>0, <2>2, <3>1, EmptyDraftTyped DEF TypedInv
    <3>3. typed # <<>> => typed[Len(typed)] \notin Lines
      BY <3>2, ChatAssumption
    <3> QED
      BY <3>1, <3>3 DEF ExitTellsUnsent
  <2> QED
    BY <2>1, <2>2
<1>11. ASSUME NEW text \in Replies, GenerateSucceeds(text) PROVE ExitTellsUnsent'
  <2> SUFFICES ASSUME pc' = "exit" PROVE ExitTellsUnsent'
    BY DEF ExitTellsUnsent
  <2>1. /\ calls' # <<>> /\ calls'[Len(calls')].outcome = text
        /\ calls'[Len(calls')].at = Len(typed)
    BY <1>11, <1>0, CallIsLast DEF GenerateSucceeds, LastCall
  <2>2. text # Failed
    BY ChatAssumption
  <2>3. status' = 0 /\ typed' = typed
    BY <1>11 DEF GenerateSucceeds, Exit
  <2> QED
    BY <2>1, <2>2, <2>3 DEF ExitTellsUnsent
<1>12. ASSUME GenerateFails PROVE ExitTellsUnsent'
  <2> SUFFICES ASSUME pc' = "exit" PROVE ExitTellsUnsent'
    BY DEF ExitTellsUnsent
  <2>1. /\ calls' # <<>> /\ calls'[Len(calls')].outcome = Failed
        /\ calls'[Len(calls')].at = Len(typed)
    BY <1>12, <1>0, CallIsLast DEF GenerateFails, LastCall
  <2>2. /\ status' = 5 /\ (closed' \/ ~interactive')
        /\ UNCHANGED <<typed, interactive, closed>> /\ pc = "generate"
    BY <1>12 DEF GenerateFails, Exit
  <2>3. interactive => typed # <<>> /\ typed[Len(typed)] \in Lines
    <3> SUFFICES ASSUME interactive PROVE typed # <<>> /\ typed[Len(typed)] \in Lines
      OBVIOUS
    <3>1. closed /\ typed # <<>> /\ typed[Len(typed)] \notin Commands
      BY <2>2 DEF TypedInv, TurnSent
    <3> QED
      BY <1>0, <3>1 DEF Input
  <2>4. interactive => Unsent'
    BY <2>2, <2>3
  <2>5. closed => interactive
    BY DEF ControlInv
  <2> HIDE DEF Unsent
  <2> QED
    BY <2>1, <2>2, <2>4, <2>5 DEF ExitTellsUnsent
<1>13. ASSUME Ended PROVE ExitTellsUnsent'
  BY <1>13 DEF Ended, vars, ExitTellsUnsent
<1>14. CASE UNCHANGED vars
  BY <1>14 DEF vars, ExitTellsUnsent
<1> QED
  BY <1>1, <1>2, <1>3, <1>4, <1>5, <1>6, <1>7, <1>8, <1>9, <1>10, <1>11, <1>12,
     <1>13, <1>14
  DEF Next

-----------------------------------------------------------------------------
(***************************************************************************)
(* The command line. An option that takes a value takes the next word,     *)
(* whatever that is, so a word is an option exactly when the longest run   *)
(* of -j and -p before it has even length; the loop of ParseArguments only *)
(* ever stops at such words.                                               *)
(***************************************************************************)
Valued == {"-j", "-p"}

\* How many words just before the i-th are options that take a value.
RunBefore(i) == {k \in 0..i-1 : \A j \in i-k..i-1 : argv[j] \in Valued}
IsLongest(i, k) == k \in RunBefore(i) /\ \A j \in RunBefore(i) : j \leq k

\* The i-th word, or the end of the command line, is where an option is expected.
AtOption(i) == \E k \in Nat : IsLongest(i, k) /\ k % 2 = 0

(***************************************************************************)
(* Nothing precedes the first word.                                        *)
(***************************************************************************)
LEMMA RunStarts == IsLongest(1, 0)
  BY DEF IsLongest, RunBefore

(***************************************************************************)
(* After a word of another kind the run is empty,                          *)
(***************************************************************************)
LEMMA RunRestarts ==
  ASSUME NEW i \in Nat, i # 0, argv[i] \notin Valued
  PROVE  IsLongest(i + 1, 0)
<1>1. 0 \in RunBefore(i + 1)
  BY DEF RunBefore
<1>2. ASSUME NEW m \in RunBefore(i + 1) PROVE m \leq 0
  <2>1. m \in 0..i /\ \A j \in (i + 1 - m)..i : argv[j] \in Valued
    BY DEF RunBefore
  <2>2. m # 0 => i \in (i + 1 - m)..i
    BY <2>1
  <2> QED
    BY <2>1, <2>2
<1> QED
  BY <1>1, <1>2 DEF IsLongest

(***************************************************************************)
(* and after an option that takes a value it is one longer.                *)
(***************************************************************************)
LEMMA RunGrows ==
  ASSUME NEW i \in Nat, i # 0, argv[i] \in Valued, NEW k \in Nat, IsLongest(i, k)
  PROVE  IsLongest(i + 1, k + 1)
<1>1. k \in 0..(i - 1) /\ \A j \in (i - k)..(i - 1) : argv[j] \in Valued
  BY DEF IsLongest, RunBefore
<1>2. k + 1 \in RunBefore(i + 1)
  <2>1. ASSUME NEW j \in (i + 1 - (k + 1))..(i + 1 - 1) PROVE argv[j] \in Valued
    <3>1. j = i \/ j \in (i - k)..(i - 1)
      BY <1>1
    <3> QED
      BY <1>1, <3>1
  <2>2. k + 1 \in 0..(i + 1 - 1)
    BY <1>1
  <2> QED
    BY <2>1, <2>2 DEF RunBefore
<1>3. ASSUME NEW m \in RunBefore(i + 1) PROVE m \leq k + 1
  <2>1. m \in 0..i /\ \A j \in (i + 1 - m)..i : argv[j] \in Valued
    BY DEF RunBefore
  <2>2. CASE m # 0
    <3>1. m - 1 \in 0..(i - 1)
      BY <2>1, <2>2
    <3>2. ASSUME NEW j \in (i - (m - 1))..(i - 1) PROVE argv[j] \in Valued
      <4>1. j \in (i + 1 - m)..i
        BY <2>1
      <4> QED
        BY <2>1, <4>1
    <3>3. m - 1 \in RunBefore(i)
      BY <3>1, <3>2 DEF RunBefore
    <3>4. m - 1 \leq k
      BY <3>3 DEF IsLongest
    <3> QED
      BY <2>1, <3>4
  <2> QED
    BY <2>1, <2>2
<1> QED
  BY <1>2, <1>3 DEF IsLongest

(***************************************************************************)
(* The run says whether a word is an option.                               *)
(***************************************************************************)
LEMMA OptionWhere ==
  ASSUME NEW i \in 1..Len(argv), NEW k \in Nat, IsLongest(i, k)
  PROVE  IsOption[i] <=> k % 2 = 0
<1> DEFINE run == RunBefore(i)
           c == CHOOSE m \in run : \A j \in run : j \leq m
<1>1. k \in run /\ \A j \in run : j \leq k
  BY DEF IsLongest
<1>2. \A m \in run : m \in Int
  BY DEF RunBefore
<1>3. c \in run /\ \A j \in run : j \leq c
  <2> HIDE DEF run
  <2> QED
    BY <1>1
<1>4. c = k
  <2> HIDE DEF run, c
  <2>1. c \leq k /\ k \leq c /\ c \in Int
    BY <1>1, <1>2, <1>3
  <2> QED
    BY <2>1
<1>5. IsOption[i] = (c % 2 = 0)
  BY DEF IsOption, RunBefore, Valued
<1> QED
  BY <1>4, <1>5

-----------------------------------------------------------------------------
\* No option lies between the one at i and n.
FollowedBy(i, n) ==
  \A k \in 1..Len(argv) : IsOption[k] => (k < n <=> k \leq i)

(***************************************************************************)
(* After an option without a value the next word is an option,             *)
(***************************************************************************)
LEMMA AfterPlain ==
  ASSUME NEW i \in 1..Len(argv), AtOption(i), argv[i] \notin Valued
  PROVE  IsOption[i] /\ AtOption(i + 1) /\ FollowedBy(i, i + 1)
<1>1. IsOption[i]
  BY OptionWhere DEF AtOption
<1>2. IsLongest(i + 1, 0)
  BY RunRestarts
<1>3. AtOption(i + 1)
  BY <1>2 DEF AtOption
<1> QED
  BY <1>1, <1>3 DEF FollowedBy

(***************************************************************************)
(* and after one with a value the word after the next, whatever the next   *)
(* one is.                                                                 *)
(***************************************************************************)
LEMMA AfterValued ==
  ASSUME argv \in Seq(Arguments),
         NEW i \in 1..Len(argv), AtOption(i), argv[i] \in Valued, i < Len(argv)
  PROVE  IsOption[i] /\ AtOption(i + 2) /\ FollowedBy(i, i + 2)
<1>1. PICK k \in Nat : IsLongest(i, k) /\ k % 2 = 0
  BY DEF AtOption
<1>2. IsOption[i]
  BY <1>1, OptionWhere
<1>3. IsLongest(i + 1, k + 1) /\ i + 1 \in 1..Len(argv)
  BY <1>1, RunGrows
<1>4. (k + 1) % 2 # 0 /\ (k + 2) % 2 = 0 /\ 0 % 2 = 0
  BY <1>1
<1>5. ~ IsOption[i + 1]
  BY <1>3, <1>4, OptionWhere
<1>6. AtOption(i + 2)
  <2>1. CASE argv[i + 1] \in Valued
    <3>1. IsLongest((i + 1) + 1, (k + 1) + 1)
      BY <1>3, <2>1, RunGrows
    <3>2. (i + 1) + 1 = i + 2 /\ (k + 1) + 1 = k + 2 /\ k + 2 \in Nat
      BY <1>1
    <3> QED
      BY <1>4, <3>1, <3>2 DEF AtOption
  <2>2. CASE argv[i + 1] \notin Valued
    <3>1. IsLongest((i + 1) + 1, 0)
      BY <1>3, <2>2, RunRestarts
    <3>2. (i + 1) + 1 = i + 2
      OBVIOUS
    <3> QED
      BY <1>4, <3>1, <3>2 DEF AtOption
  <2> QED
    BY <2>1, <2>2
<1>7. FollowedBy(i, i + 2)
  <2> SUFFICES ASSUME NEW m \in 1..Len(argv), IsOption[m] PROVE m < i + 2 <=> m \leq i
    BY DEF FollowedBy
  <2>1. m # i + 1
    BY <1>5
  <2> QED
    BY <2>1
<1> QED
  BY <1>2, <1>6, <1>7

Given(i, word) == {k \in 1..Len(argv) : IsOption[k] /\ argv[k] = word /\ k < i}

\* v is the value that word has when the words before the i-th are read.
ValueBefore(i, word, v) ==
  IF Given(i, word) = {} THEN v = NoWord
  ELSE \E k \in Given(i, word) : v = argv[k + 1] /\ \A j \in Given(i, word) : j \leq k

\* What the loop has read is what the words before its index say.
AsWritten(p) ==
  /\ p \in Gathered
  /\ p.index \in 1..(Len(argv) + 1)
  /\ AtOption(p.index)
  /\ \A k \in Ends : p.index \leq k
  /\ p.end # "none" => p.index \in Ends
  /\ p.end = "help" <=> p.end # "none" /\ argv[p.index] \in {"-h", "--help"}
  /\ p.interactive <=> Given(p.index, "-i") # {}
  /\ ValueBefore(p.index, "-j", p.config)
  /\ ValueBefore(p.index, "-p", p.prompt)

(***************************************************************************)
(* The options before the next place are those before this one, and this   *)
(* one.                                                                    *)
(***************************************************************************)
LEMMA GivenNext ==
  ASSUME NEW i \in 1..Len(argv), IsOption[i], NEW n \in Nat, FollowedBy(i, n), NEW word
  PROVE  /\ argv[i] = word => Given(n, word) = Given(i, word) \cup {i}
         /\ argv[i] # word => Given(n, word) = Given(i, word)
<1>1. ASSUME NEW k \in 1..Len(argv), IsOption[k], argv[k] = word
      PROVE  k < n <=> k < i \/ (argv[i] = word /\ k = i)
  <2>1. k < n <=> k \leq i
    BY <1>1 DEF FollowedBy
  <2> QED
    BY <1>1, <2>1
<1> QED
  BY <1>1 DEF Given, FollowedBy

(***************************************************************************)
(* Another option leaves a value as it was.                                *)
(***************************************************************************)
LEMMA ValueKept ==
  ASSUME NEW i \in 1..Len(argv), IsOption[i], NEW n \in Nat, FollowedBy(i, n), NEW word,
         argv[i] # word, NEW v, ValueBefore(i, word, v)
  PROVE  ValueBefore(n, word, v)
<1>1. Given(n, word) = Given(i, word)
  BY GivenNext
<1> QED
  BY <1>1 DEF ValueBefore

(***************************************************************************)
(* The option itself gives it the next word.                               *)
(***************************************************************************)
LEMMA ValueTaken ==
  ASSUME NEW i \in 1..Len(argv), IsOption[i], NEW n \in Nat, FollowedBy(i, n), NEW word,
         argv[i] = word
  PROVE  ValueBefore(n, word, argv[i + 1])
<1>1. Given(n, word) = Given(i, word) \cup {i}
  BY GivenNext
<1>2. \A j \in Given(i, word) : j \leq i
  BY DEF Given
<1>3. \A j \in Given(n, word) : j \leq i
  BY <1>1, <1>2
<1>4. i \in Given(n, word)
  BY <1>1
<1> QED
  BY <1>3, <1>4 DEF ValueBefore

(***************************************************************************)
(* Where the loop goes on, the command line has not gone wrong yet.        *)
(***************************************************************************)
LEMMA EndsNext ==
  ASSUME NEW i \in 1..Len(argv), NEW n \in Nat, FollowedBy(i, n), i \notin Ends,
         \A k \in Ends : i \leq k
  PROVE  \A k \in Ends : n \leq k
<1> TAKE k \in Ends
<1>1. k \in 1..Len(argv) /\ IsOption[k] /\ i \leq k /\ k # i
  BY DEF Ends
<1>2. k < n <=> k \leq i
  BY <1>1 DEF FollowedBy
<1> QED
  BY <1>1, <1>2

(***************************************************************************)
(* One round of the loop reads one option and its value, and goes on or    *)
(* ends as the command line says.                                          *)
(***************************************************************************)
LEMMA OptionTaken ==
  ASSUME argv \in Seq(Arguments),
         NEW p \in Gathered, AsWritten(p), p.end = "none", p.index \leq Len(argv)
  PROVE  LET q == ParseOption(p)
         IN  AsWritten(q) /\ (q.end # "none" \/ q.index > p.index)
<1> DEFINE i == p.index
           q == ParseOption(p)
<1>1. i \in 1..Len(argv) /\ AtOption(i) /\ Len(argv) \in Nat /\ ~ (i > Len(argv))
  BY DEF AsWritten
<1>2. /\ \A k \in Ends : i \leq k
      /\ p.interactive <=> Given(i, "-i") # {}
      /\ ValueBefore(i, "-j", p.config) /\ ValueBefore(i, "-p", p.prompt)
  BY DEF AsWritten
<1>3. q \in Gathered
  BY ParseOptionType
<1>4. IsOption[i]
  BY <1>1, OptionWhere DEF AtOption
<1> HIDE DEF i
<1>5. CASE argv[i] \in {"-h", "--help"}
  <2>1. q = [p EXCEPT !.end = "help"]
    BY <1>1, <1>5 DEF ParseOption, i
  <2>2. i \in Ends
    BY <1>1, <1>4, <1>5 DEF Ends
  <2>3. /\ q.end = "help" /\ q.index = i /\ q.interactive = p.interactive
        /\ q.config = p.config /\ q.prompt = p.prompt
    BY <2>1 DEF Gathered, i
  <2> HIDE DEF q
  <2>4. i \in 1..(Len(argv) + 1)
    BY <1>1
  <2>5. AsWritten(q)
    BY <1>1, <1>2, <1>3, <1>5, <2>2, <2>3, <2>4 DEF AsWritten
  <2> QED
    BY <2>3, <2>5 DEF q
<1>6. CASE argv[i] = "-i"
  <2>1. q = [p EXCEPT !.interactive = TRUE, !.index = i + 1]
    BY <1>1, <1>6 DEF ParseOption, i
  <2>2. /\ q.end = "none" /\ q.index = i + 1 /\ q.interactive = TRUE
        /\ q.config = p.config /\ q.prompt = p.prompt
    BY <2>1 DEF Gathered, i
  <2>3. AtOption(i + 1) /\ FollowedBy(i, i + 1)
    BY <1>1, <1>6, AfterPlain DEF Valued
  <2>4. i + 1 \in Nat /\ i + 1 \in 1..(Len(argv) + 1) /\ i + 1 > i
    BY <1>1
  <2>5. i \notin Ends
    BY <1>6 DEF Ends
  <2>6. \A k \in Ends : i + 1 \leq k
    BY <1>1, <1>2, <2>3, <2>4, <2>5, EndsNext
  <2>7. Given(i + 1, "-i") # {}
    <3>1. Given(i + 1, "-i") = Given(i, "-i") \cup {i}
      <4>1. i \in 1..Len(argv) /\ IsOption[i] /\ FollowedBy(i, i + 1) /\ i + 1 \in Nat
        BY <1>1, <1>4, <2>3, <2>4
      <4> QED
        BY <1>6, <4>1, GivenNext
    <3> QED
      BY <3>1
  <2>8. ValueBefore(i + 1, "-j", p.config)
    BY <1>1, <1>2, <1>4, <1>6, <2>3, <2>4, ValueKept
  <2>9. ValueBefore(i + 1, "-p", p.prompt)
    BY <1>1, <1>2, <1>4, <1>6, <2>3, <2>4, ValueKept
  <2> HIDE DEF q
  <2>10. AsWritten(q)
    BY <1>3, <2>2, <2>3, <2>4, <2>6, <2>7, <2>8, <2>9 DEF AsWritten
  <2> QED
    BY <2>2, <2>4, <2>10 DEF i, q
<1>7. CASE argv[i] = "-j" /\ i < Len(argv)
  <2>1. q = [p EXCEPT !.config = argv[i + 1], !.index = i + 2]
    BY <1>1, <1>7 DEF ParseOption, AfterValue, i
  <2>2. /\ q.end = "none" /\ q.index = i + 2 /\ q.interactive = p.interactive
        /\ q.config = argv[i + 1] /\ q.prompt = p.prompt
    BY <2>1 DEF Gathered, i
  <2>3. AtOption(i + 2) /\ FollowedBy(i, i + 2)
    BY <1>1, <1>7, AfterValued DEF Valued
  <2>4. i + 2 \in Nat /\ i + 2 \in 1..(Len(argv) + 1) /\ i + 2 > i
    BY <1>1, <1>7
  <2>5. i \notin Ends
    BY <1>1, <1>7 DEF Ends
  <2>6. \A k \in Ends : i + 2 \leq k
    BY <1>1, <1>2, <2>3, <2>4, <2>5, EndsNext
  <2>7. Given(i + 2, "-i") = Given(i, "-i")
    BY <1>1, <1>4, <1>7, <2>3, <2>4, GivenNext
  <2>8. ValueBefore(i + 2, "-j", argv[i + 1])
    BY <1>1, <1>2, <1>4, <1>7, <2>3, <2>4, ValueTaken
  <2>9. ValueBefore(i + 2, "-p", p.prompt)
    BY <1>1, <1>2, <1>4, <1>7, <2>3, <2>4, ValueKept
  <2> HIDE DEF q
  <2>10. AsWritten(q)
    BY <1>2, <1>3, <2>2, <2>3, <2>4, <2>6, <2>7, <2>8, <2>9 DEF AsWritten
  <2> QED
    BY <2>2, <2>4, <2>10 DEF i, q
<1>8. CASE argv[i] = "-p" /\ i < Len(argv)
  <2>1. q = [p EXCEPT !.prompt = argv[i + 1], !.index = i + 2]
    BY <1>1, <1>8 DEF ParseOption, AfterValue, i
  <2>2. /\ q.end = "none" /\ q.index = i + 2 /\ q.interactive = p.interactive
        /\ q.config = p.config /\ q.prompt = argv[i + 1]
    BY <2>1 DEF Gathered, i
  <2>3. AtOption(i + 2) /\ FollowedBy(i, i + 2)
    BY <1>1, <1>8, AfterValued DEF Valued
  <2>4. i + 2 \in Nat /\ i + 2 \in 1..(Len(argv) + 1) /\ i + 2 > i
    BY <1>1, <1>8
  <2>5. i \notin Ends
    BY <1>1, <1>8 DEF Ends
  <2>6. \A k \in Ends : i + 2 \leq k
    BY <1>1, <1>2, <2>3, <2>4, <2>5, EndsNext
  <2>7. Given(i + 2, "-i") = Given(i, "-i")
    BY <1>1, <1>4, <1>8, <2>3, <2>4, GivenNext
  <2>8. ValueBefore(i + 2, "-j", p.config)
    BY <1>1, <1>2, <1>4, <1>8, <2>3, <2>4, ValueKept
  <2>9. ValueBefore(i + 2, "-p", argv[i + 1])
    BY <1>1, <1>2, <1>4, <1>8, <2>3, <2>4, ValueTaken
  <2> HIDE DEF q
  <2>10. AsWritten(q)
    BY <1>2, <1>3, <2>2, <2>3, <2>4, <2>6, <2>7, <2>8, <2>9 DEF AsWritten
  <2> QED
    BY <2>2, <2>4, <2>10 DEF i, q
<1>9. CASE /\ argv[i] \notin {"-h", "--help", "-i"}
           /\ argv[i] \in Valued => ~ (i < Len(argv))
  <2>1. q = [p EXCEPT !.end = "error"]
    BY <1>1, <1>9 DEF ParseOption, i, Valued
  <2>2. i \in Ends
    BY <1>1, <1>4, <1>9 DEF Ends, Valued
  <2>3. /\ q.end = "error" /\ q.index = i /\ q.interactive = p.interactive
        /\ q.config = p.config /\ q.prompt = p.prompt
    BY <2>1 DEF Gathered, i
  <2> HIDE DEF q
  <2>4. i \in 1..(Len(argv) + 1)
    BY <1>1
  <2>5. AsWritten(q)
    BY <1>1, <1>2, <1>3, <1>9, <2>2, <2>3, <2>4 DEF AsWritten
  <2> QED
    BY <2>3, <2>5 DEF q
<1> QED
  BY <1>5, <1>6, <1>7, <1>8, <1>9 DEF Valued

(***************************************************************************)
(* So it is with the result of the loop, which goes through the whole      *)
(* command line unless it ends.                                            *)
(***************************************************************************)
LEMMA ParsedAsWritten ==
  ASSUME argv \in Seq(Arguments)
  PROVE  AsWritten(Parsed) /\ (Parsed.end = "none" => Parsed.index = Len(argv) + 1)
<1> DEFINE N == Len(argv)
<1>1. N \in Nat
  OBVIOUS
<1>2. PICK g : Loop(g) /\ Parsed = g[N]
  BY ParsedEquation
<1> DEFINE S == {n \in 0..N : AsWritten(g[n]) /\ (g[n].end = "none" => g[n].index > n)}
<1> HIDE DEF N
<1>3. 0 \in S
  <2>1. g[0] = Unparsed
    BY <1>2 DEF Loop
  <2>2. Unparsed \in Gathered
    BY DEF Unparsed, Gathered
  <2>3. /\ Unparsed.index = 1 /\ Unparsed.end = "none" /\ Unparsed.interactive = FALSE
        /\ Unparsed.config = NoWord /\ Unparsed.prompt = NoWord
    BY DEF Unparsed
  <2>4. AtOption(1)
    BY RunStarts DEF AtOption
  <2>5. \A word : Given(1, word) = {}
    BY DEF Given
  <2>6. \A k \in Ends : 1 \leq k
    BY DEF Ends
  <2>7. 1 \in 1..(Len(argv) + 1) /\ 1 > 0
    BY <1>1 DEF N
  <2>8. AsWritten(Unparsed)
    BY <2>2, <2>3, <2>4, <2>5, <2>6, <2>7 DEF AsWritten, ValueBefore
  <2> QED
    BY <1>1, <2>1, <2>3, <2>7, <2>8
<1>4. \A n \in 1..N : n - 1 \in S => n \in S
  <2> SUFFICES ASSUME NEW n \in 1..N, n - 1 \in S PROVE n \in S
    OBVIOUS
  <2> DEFINE p == g[n - 1]
             q == ParseOption(p)
  <2>1. g[n] = q
    BY <1>2 DEF Loop, N
  <2>2. AsWritten(p) /\ (p.end = "none" => p.index > n - 1)
    OBVIOUS
  <2>3. p \in Gathered /\ p.index \in Nat
    BY <2>2 DEF AsWritten, Gathered
  <2>4. CASE p.end # "none" \/ p.index > Len(argv)
    <3>1. q = p
      BY <2>4 DEF ParseOption
    <3>2. p.end = "none" => p.index > n
      BY <1>1, <2>3, <2>4 DEF N
    <3> QED
      BY <1>1, <2>1, <2>2, <3>1, <3>2
  <2>5. CASE p.end = "none" /\ ~ (p.index > Len(argv))
    <3>1. p.index \leq Len(argv)
      BY <1>1, <2>3, <2>5 DEF N
    <3> HIDE DEF p
    <3>2. AsWritten(q) /\ (q.end # "none" \/ q.index > p.index)
      BY <2>2, <2>3, <2>5, <3>1, OptionTaken
    <3>3. q.index \in Nat
      BY <3>2 DEF AsWritten, Gathered
    <3> HIDE DEF q
    <3>4. q.end = "none" => q.index > n
      BY <1>1, <2>2, <2>3, <2>5, <3>2, <3>3
    <3> QED
      BY <1>1, <2>1, <3>2, <3>4
  <2> QED
    BY <2>4, <2>5
<1>5. N \in S
  <2> HIDE DEF S
  <2>1. 0..N \subseteq S
    BY <1>1, <1>3, <1>4, IntervalInduction
  <2> QED
    BY <1>1, <2>1
<1>6. AsWritten(Parsed) /\ (Parsed.end = "none" => Parsed.index > N)
  BY <1>2, <1>5
<1>7. Parsed.index \in 1..(N + 1)
  BY <1>6 DEF AsWritten, N
<1> QED
  BY <1>1, <1>6, <1>7 DEF N

(***************************************************************************)
(* The value that the whole command line gives an option.                  *)
(***************************************************************************)
LEMMA ValueAtEnd ==
  ASSUME argv \in Seq(Arguments), NEW word, NEW v, ValueBefore(Len(argv) + 1, word, v)
  PROVE  v = ValueOf(word)
<1> DEFINE at == OptionsAt({word})
           c == CHOOSE i \in at : \A j \in at : j \leq i
<1>1. Given(Len(argv) + 1, word) = at
  BY DEF Given, OptionsAt
<1>2. \A i \in at : i \in Int
  BY DEF OptionsAt
<1> HIDE DEF at
<1>3. CASE at = {}
  BY <1>1, <1>3 DEF ValueBefore, ValueOf, at
<1>4. CASE at # {}
  <2>1. PICK k \in at : v = argv[k + 1] /\ \A j \in at : j \leq k
    BY <1>1, <1>4 DEF ValueBefore
  <2>2. c \in at /\ \A j \in at : j \leq c
    BY <2>1
  <2> HIDE DEF c
  <2>3. c = k
    BY <1>2, <2>1, <2>2
  <2>4. ValueOf(word) = argv[1 + c]
    BY <1>4 DEF ValueOf, at, c
  <2>5. k + 1 = 1 + k
    BY <1>2
  <2> QED
    BY <2>1, <2>3, <2>4, <2>5
<1> QED
  BY <1>3, <1>4

(***************************************************************************)
(* ParseArguments ends where the command line first goes wrong or asks for *)
(* help, and otherwise with what it asks for.                              *)
(***************************************************************************)
LEMMA ParseArgumentsCorrect ==
  ASSUME argv \in Seq(Arguments)
  PROVE  /\ Parsed.end = "none" =>
              /\ Ends = {}
              /\ Parsed.interactive <=> OptionsAt({"-i"}) # {}
              /\ Parsed.config = ValueOf("-j") /\ Parsed.prompt = ValueOf("-p")
         /\ Parsed.end # "none" =>
              /\ Ends # {}
              /\ Parsed.end = "help" <=> argv[FirstEnd] \in {"-h", "--help"}
<1> DEFINE p == Parsed
           L == Len(argv) + 1
<1>1. AsWritten(p) /\ (p.end = "none" => p.index = L)
  BY ParsedAsWritten
<1>2. Len(argv) \in Nat
  OBVIOUS
<1> HIDE DEF p
<1>3. ASSUME p.end = "none"
      PROVE  /\ Ends = {}
             /\ p.interactive <=> OptionsAt({"-i"}) # {}
             /\ p.config = ValueOf("-j") /\ p.prompt = ValueOf("-p")
  <2>1. \A k \in Ends : L \leq k
    BY <1>1, <1>3 DEF AsWritten
  <2>2. Ends = {}
    BY <1>2, <2>1 DEF Ends
  <2>3. Given(L, "-i") = OptionsAt({"-i"})
    BY DEF Given, OptionsAt
  <2>4. ValueBefore(L, "-j", p.config) /\ ValueBefore(L, "-p", p.prompt)
    BY <1>1, <1>3 DEF AsWritten
  <2>5. p.config = ValueOf("-j") /\ p.prompt = ValueOf("-p")
    BY <2>4, ValueAtEnd
  <2> QED
    BY <1>1, <1>3, <2>2, <2>3, <2>5 DEF AsWritten
<1>4. ASSUME p.end # "none"
      PROVE  /\ Ends # {}
             /\ p.end = "help" <=> argv[FirstEnd] \in {"-h", "--help"}
  <2>1. p.index \in Ends /\ \A k \in Ends : p.index \leq k
    BY <1>1, <1>4 DEF AsWritten
  <2>2. FirstEnd \in Ends /\ \A k \in Ends : FirstEnd \leq k
    BY <2>1 DEF FirstEnd
  <2>3. FirstEnd = p.index
    <3>1. \A k \in Ends : k \in Int
      BY DEF Ends
    <3> QED
      BY <2>1, <2>2, <3>1
  <2> QED
    BY <1>1, <1>4, <2>1, <2>3 DEF AsWritten
<1> QED
  BY <1>3, <1>4 DEF p

(***************************************************************************)
(* StartsAsAsked holds initially.                                          *)
(***************************************************************************)
LEMMA StartInit ==
  ASSUME Init PROVE StartsAsAsked
  BY DEF Init, StartsAsAsked

(***************************************************************************)
(* What a command line means does not change with the other variables.     *)
(***************************************************************************)
LEMMA SameCommandLine ==
  ASSUME UNCHANGED argv
  PROVE  /\ Ends' = Ends /\ FirstEnd' = FirstEnd
         /\ OptionsAt({"-i"})' = OptionsAt({"-i"})
         /\ ValueOf("-j")' = ValueOf("-j") /\ ValueOf("-p")' = ValueOf("-p")
<1>1. IsOption' = IsOption
  BY DEF IsOption
<1>2. Ends' = Ends
  BY <1>1 DEF Ends
<1>3. FirstEnd' = FirstEnd
  BY <1>2 DEF FirstEnd
<1>4. /\ OptionsAt({"-i"})' = OptionsAt({"-i"})
      /\ OptionsAt({"-j"})' = OptionsAt({"-j"}) /\ OptionsAt({"-p"})' = OptionsAt({"-p"})
  BY <1>1 DEF OptionsAt
<1>5. ValueOf("-j")' = ValueOf("-j") /\ ValueOf("-p")' = ValueOf("-p")
  BY <1>1 DEF ValueOf, OptionsAt
<1> QED
  BY <1>2, <1>3, <1>4, <1>5

(***************************************************************************)
(* Each step keeps StartsAsAsked: ParseArguments establishes it, and no    *)
(* other step exits with 2 or goes to create.                              *)
(***************************************************************************)
LEMMA StartStep ==
  ASSUME TypesInv, ControlInv, StartsAsAsked, [Next]_vars
  PROVE  StartsAsAsked'
<1>1. ASSUME ParseArguments PROVE StartsAsAsked'
  <2>1. argv \in Seq(Arguments) /\ argv' = argv
    BY <1>1 DEF ParseArguments, TypesInv, TypeOK
  <2>2. Parsed \in Gathered
    BY <2>1, ParsedType
  <2> DEFINE p == Parsed
  <2>3. p.interactive \in BOOLEAN /\ p.end \in {"none", "help", "error"}
    BY <2>2 DEF Gathered
  <2>4. CASE p.end = "help"
    <3>1. pc' = "exit" /\ status' = 0
      BY <1>1, <2>4 DEF ParseArguments, Exit
    <3> QED
      BY <3>1 DEF StartsAsAsked
  <2>5. CASE p.end = "error"
    <3>1. pc' = "exit"
      BY <1>1, <2>5 DEF ParseArguments, Exit
    <3>2. Ends # {} /\ argv[FirstEnd] \notin {"-h", "--help"}
      BY <2>1, <2>5, ParseArgumentsCorrect
    <3>3. Ends' # {} /\ argv'[FirstEnd'] \notin {"-h", "--help"}
      BY <2>1, <3>2, SameCommandLine
    <3> QED
      BY <3>1, <3>3 DEF StartsAsAsked
  <2>6. CASE p.end = "none"
    <3>1. /\ Ends = {}
          /\ p.interactive <=> OptionsAt({"-i"}) # {}
          /\ p.config = ValueOf("-j") /\ p.prompt = ValueOf("-p")
      BY <2>1, <2>6, ParseArgumentsCorrect
    <3>2. /\ Ends' = {}
          /\ p.interactive <=> OptionsAt({"-i"})' # {}
          /\ p.config = ValueOf("-j")' /\ p.prompt = ValueOf("-p")'
      BY <2>1, <3>1, SameCommandLine
    <3>3. interactive' = p.interactive
      BY <1>1 DEF ParseArguments
    <3>4. CASE Complete(p)
      <4>1. pc' = "create"
        BY <1>1, <2>6, <3>4 DEF ParseArguments
      <4>2. p.config # NoWord /\ (p.interactive <=> p.prompt = NoWord)
        BY <2>3, <3>4 DEF Complete
      <4> HIDE DEF p
      <4> QED
        BY <3>2, <3>3, <4>1, <4>2 DEF StartsAsAsked
    <3>5. CASE ~ Complete(p)
      <4>1. pc' = "exit"
        BY <1>1, <2>6, <3>5 DEF ParseArguments, Exit
      <4>2. p.config = NoWord \/ ~ (p.interactive <=> p.prompt = NoWord)
        BY <2>3, <3>5 DEF Complete
      <4> HIDE DEF p
      <4>3. \/ ValueOf("-j")' = NoWord
            \/ (OptionsAt({"-i"})' # {}) = (ValueOf("-p")' # NoWord)
        BY <3>2, <4>2
      <4> QED
        BY <3>2, <4>1, <4>3 DEF StartsAsAsked
    <3> QED
      BY <3>4, <3>5
  <2> QED
    BY <2>3, <2>4, <2>5, <2>6
<1>2. ASSUME CreateFails PROVE StartsAsAsked'
  <2>1. pc' # "create" /\ (pc' = "exit" => status' # 2)
    BY <1>2 DEF CreateFails, Exit, NoRuntime
  <2> QED
    BY <2>1 DEF StartsAsAsked
<1>3. ASSUME CreateSucceeds PROVE StartsAsAsked'
  <2>1. pc' # "create" /\ (pc' = "exit" => status' # 2)
    BY <1>3 DEF CreateSucceeds
  <2> QED
    BY <2>1 DEF StartsAsAsked
<1>4. ASSUME ReadFileFails PROVE StartsAsAsked'
  <2>1. pc' # "create" /\ (pc' = "exit" => status' # 2)
    BY <1>4 DEF ReadFileFails, Exit
  <2> QED
    BY <2>1 DEF StartsAsAsked
<1>5. ASSUME ReadFile PROVE StartsAsAsked'
  <2>1. pc' # "create" /\ (pc' = "exit" => status' # 2)
    BY <1>5 DEF ReadFile
  <2> QED
    BY <2>1 DEF StartsAsAsked
<1>6. ASSUME TypeLine PROVE StartsAsAsked'
  <2>1. pc' # "create" /\ (pc' = "exit" => status' # 2)
    BY <1>6 DEF TypeLine, MayType
  <2> QED
    BY <2>1 DEF StartsAsAsked
<1>7. ASSUME TypeQuit PROVE StartsAsAsked'
  <2>1. pc' # "create" /\ (pc' = "exit" => status' # 2)
    BY <1>7 DEF TypeQuit, MayType, Exit
  <2> QED
    BY <2>1 DEF StartsAsAsked
<1>8. ASSUME TypeClear PROVE StartsAsAsked'
  <2>1. pc' # "create" /\ (pc' = "exit" => status' # 2)
    BY <1>8 DEF TypeClear, MayType
  <2> QED
    BY <2>1 DEF StartsAsAsked
<1>9. ASSUME TypeSend PROVE StartsAsAsked'
  <2>1. pc' # "create" /\ (pc' = "exit" => status' # 2)
    BY <1>9 DEF TypeSend, MayType, Submit
  <2> QED
    BY <2>1 DEF StartsAsAsked
<1>10. ASSUME InputEnds PROVE StartsAsAsked'
  <2>1. pc' # "create" /\ (pc' = "exit" => status' # 2)
    BY <1>10 DEF InputEnds, NothingToSubmit, Submit, Exit
  <2> QED
    BY <2>1 DEF StartsAsAsked
<1>11. ASSUME NEW text \in Replies, GenerateSucceeds(text) PROVE StartsAsAsked'
  <2>1. pc' # "create" /\ (pc' = "exit" => status' # 2)
    BY <1>11 DEF GenerateSucceeds, Exit
  <2> QED
    BY <2>1 DEF StartsAsAsked
<1>12. ASSUME GenerateFails PROVE StartsAsAsked'
  <2>1. pc' # "create" /\ (pc' = "exit" => status' # 2)
    BY <1>12 DEF GenerateFails, Exit
  <2> QED
    BY <2>1 DEF StartsAsAsked
<1>13. ASSUME Ended PROVE StartsAsAsked'
  <2>1. UNCHANGED <<argv, pc, status, interactive>>
    BY <1>13 DEF Ended, vars
  <2> QED
    BY <2>1, SameCommandLine DEF StartsAsAsked
<1>14. CASE UNCHANGED vars
  <2>1. UNCHANGED <<argv, pc, status, interactive>>
    BY <1>14 DEF vars
  <2> QED
    BY <2>1, SameCommandLine DEF StartsAsAsked
<1> QED
  BY <1>1, <1>2, <1>3, <1>4, <1>5, <1>6, <1>7, <1>8, <1>9, <1>10, <1>11, <1>12,
     <1>13, <1>14
  DEF Next

-----------------------------------------------------------------------------
(***************************************************************************)
(* The inductive invariant: the properties of the tool that are kept by    *)
(* each step as they are (LineInv, ExitTellsUnsent, StartsAsAsked), and   *)
(* what they and the property of the prompts rest on.                      *)
(***************************************************************************)
Inv ==
  /\ TypesInv /\ ControlInv /\ TypedInv /\ ConversationInv
  /\ LineInv /\ ExitTellsUnsent /\ StartsAsAsked

(***************************************************************************)
(* The inductive invariant holds.                                          *)
(***************************************************************************)
THEOREM Invariance == Spec => []Inv
<1>1. Init => Inv
  BY TypesInit, ControlInit, TypedInit, ConversationInit, LineInit, OutcomeInit,
     StartInit DEF Inv
<1>2. Inv /\ [Next]_vars => Inv'
  BY TypesStep, ControlStep, TypedStep, ConversationStep, LineStep, OutcomeStep,
     StartStep DEF Inv
<1> QED
  BY <1>1, <1>2, PTL DEF Spec

(***************************************************************************)
(* The variables of the tool keep their types, and the exit status of      *)
(* src/tools/lite_llm_chat.cpp is one of 0, 2, 3, 4 and 5.                 *)
(***************************************************************************)
THEOREM TypeCorrect == Spec => []TypeOK
<1>1. Inv => TypeOK
  BY DEF Inv, TypesInv
<1> QED
  BY <1>1, Invariance, PTL

(***************************************************************************)
(* What the calls hold and what was typed say that each prompt is the      *)
(* conversation.                                                           *)
(***************************************************************************)
LEMMA Prompts ==
  ASSUME TypesInv, TypedInv, ConversationInv
  PROVE  PromptsAreTheConversation
<1>0. typed \in Seq(Input)
  BY DEF TypesInv, TypeOK, Input
<1>1. SendsTheConversation
  BY AnsweredIsIn DEF SendsTheConversation, ConversationInv, Converse, WithoutTurn
<1>2. SendsWhatWasTyped
  <2> SUFFICES ASSUME interactive, NEW n \in DOMAIN calls
               PROVE  LET m    == calls[n].messages
                          at   == calls[n].at
                          last == IF typed[at] = "/send" THEN at ELSE at + 1
                      IN  m[Len(m)].content = SubSeq(typed, LastCommand(last) + 1, last - 1)
    BY DEF SendsWhatWasTyped
  <2> DEFINE at   == calls[n].at
             last == IF typed[at] = "/send" THEN at ELSE at + 1
             lines == LastMessage(calls[n].messages).content
             up == UpTo(typed, at)
  <2>1. at \in 1..Len(typed) /\ Sent(typed, at, lines)
    BY DEF TypedInv, CallsSent
  <2>2. up \in Nat
    <3>1. UpTo(typed, at) \in 0..Len(typed)
      BY <1>0, <2>1, UpToRange
    <3> QED
      BY <1>0, <3>1
  <2>3. last = up + 1 /\ last - 1 = up
    BY <2>1 DEF UpTo
  <2>4. PICK l \in 0..Len(typed) : Since(typed, l, up, lines)
    BY <2>1 DEF Sent
  <2> HIDE DEF at, last, lines, up
  <2>5. LastCommand(last) = l
    BY <2>2, <2>3, <2>4, SinceLast
  <2>6. lines = SubSeq(typed, l + 1, up)
    BY <2>4 DEF Since
  <2>7. lines = SubSeq(typed, LastCommand(last) + 1, last - 1)
    BY <2>3, <2>5, <2>6
  <2> QED
    BY <2>7 DEF at, last, lines, LastMessage
<1> QED
  BY <1>1, <1>2 DEF PromptsAreTheConversation

(***************************************************************************)
(* Every prompt that BuildQwen3Prompt gives to Generate is the             *)
(* conversation of its session, whatever was cleared and whatever failed   *)
(* before, followed by all of what was typed for this turn.                *)
(***************************************************************************)
THEOREM ConversationCorrect == Spec => []PromptsAreTheConversation
<1>1. Inv => PromptsAreTheConversation
  BY Prompts DEF Inv
<1> QED
  BY <1>1, Invariance, PTL

(***************************************************************************)
(* After an answer the tool asks for input at the start of a line,         *)
(* whatever the text and whatever failed turns wrote before it.            *)
(***************************************************************************)
THEOREM LinesCorrect == Spec => []AnswerEndsItsLine
<1>1. Inv => AnswerEndsItsLine
  BY DEF Inv, LineInv, LastCall, AnswerEndsItsLine
<1> QED
  BY <1>1, Invariance, PTL

(***************************************************************************)
(* For every input, command line and outcome: the lines that no command    *)
(* followed when the input ended are submitted, and the exit status is 5   *)
(* exactly when the call for them, or for the prompt file, failed; a turn  *)
(* sent with /send that failed leaves the status 0 at the end of input.    *)
(***************************************************************************)
THEOREM StatusCorrect == Spec => []ExitTellsUnsent
<1>1. Inv => ExitTellsUnsent
  BY DEF Inv
<1> QED
  BY <1>1, Invariance, PTL

(***************************************************************************)
(* The tool goes on to the runtime exactly when the command line asks for  *)
(* one of its two modes, for command lines of any length.                  *)
(***************************************************************************)
THEOREM StartCorrect == Spec => []StartsAsAsked
<1>1. Inv => StartsAsAsked
  BY DEF Inv
<1> QED
  BY <1>1, Invariance, PTL

=============================================================================
