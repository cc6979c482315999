-------------------------- MODULE ServerCommandLine --------------------------
(***************************************************************************)
(* What a command line of lite-server means, read as options and values    *)
(* from the left.  Numbers are compared over their decimal digits, without *)
(* arithmetic that could overflow.                                         *)
(***************************************************************************)
EXTENDS ServerMain

Bounds(option) ==
  CASE option = "--connect-port"         -> <<<<1>>, <<6,5,5,3,5>>>>
    [] option = "--max-frame-bytes"      -> <<<<1,0,2,4>>, <<6,7,1,0,8,8,6,4>>>>
    [] option = "--reconnect-initial-ms" -> <<<<1>>, <<6,0,0,0,0>>>>
    [] option = "--reconnect-max-ms"     -> <<<<1>>, <<3,0,0,0,0,0>>>>

Significant(digits) ==
  LET zeros == {n \in 0..Len(digits) : \A i \in 1..n : digits[i] = 0}
  IN  SubSeq(digits, 1 + CHOOSE n \in zeros : \A m \in zeros : m \leq n, Len(digits))

AtMost(a, b) ==
  LET x == Significant(a)  y == Significant(b)
  IN  \/ Len(x) < Len(y)
      \/ /\ Len(x) = Len(y)
         /\ \/ x = y
            \/ \E n \in 1..Len(x) : x[n] < y[n] /\ \A i \in 1..n-1 : x[i] = y[i]

ValueOf(digits) ==
  LET upTo[n \in 0..Len(digits)] == IF n = 0 THEN 0 ELSE 10 * upTo[n-1] + digits[n]
  IN  upTo[Len(digits)]

IsNumberFor(option, digits) ==
  /\ digits # <<>> /\ \A n \in DOMAIN digits : digits[n] # NotDigit
  /\ AtMost(Bounds(option)[1], digits) /\ AtMost(digits, Bounds(option)[2])

\* The places of the options in a command line, up to the first that asks for help.
Helps(line)  == {i \in DOMAIN line : i % 2 = 1 /\ line[i].word \in {"--help", "-h"}}
Places(line) == {i \in DOMAIN line : i % 2 = 1 /\ \A h \in Helps(line) : i < h}

Sound(line, i) ==
  /\ i + 1 \in DOMAIN line
  /\ \/ line[i].word \in Texts
     \/ line[i].word \in Numbers /\ IsNumberFor(line[i].word, line[i + 1].digits)

\* What the value written at i stands for.
ValueAt(line, option, i) ==
  IF option \in Texts THEN line[i] ELSE ValueOf(Significant(line[i].digits))

\* The value of an option: the last one written at these places, or the default.
MeantAt(line, option, places) ==
  LET at == {i \in places : line[i].word = option}
  IN  IF at = {} THEN Defaults[option]
      ELSE ValueAt(line, option, 1 + CHOOSE i \in at : \A j \in at : j \leq i)

Meant(line, option) == MeantAt(line, option, Places(line))

\* What is required is given, and the delays are in order.
Whole(line) ==
  /\ Size(Meant(line, "--config")) > 0 /\ Meant(line, "--connect-port") # 0
  /\ Size(Meant(line, "--auth-token")) \in 1..512
  /\ Meant(line, "--reconnect-initial-ms") \leq Meant(line, "--reconnect-max-ms")

Refusable(line) ==
  (\E i \in Places(line) : ~Sound(line, i)) \/ (Helps(line) = {} /\ ~Whole(line))

\* The process goes on to initialize LiteLlm exactly when every option is known,
\* every number is within its range as written, however long, and what is required
\* is given; it then uses the values that were written last.  Otherwise it exits
\* with 2, or with 0 when help is asked for before anything is wrong.
AcceptedAsWritten ==
  /\ pc = "initialize" =>
       /\ ~Refusable(argv) /\ Helps(argv) = {}
       /\ \A option \in DOMAIN options : options[option] = Meant(argv, option)
  /\ status = 2 => Refusable(argv)
  /\ status = 0 /\ limit = 0 => ~Refusable(argv) /\ Helps(argv) # {}

=============================================================================
