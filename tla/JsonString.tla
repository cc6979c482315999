----------------------------- MODULE JsonString -----------------------------
(***************************************************************************)
(* Strings as JSON spells them: EscapeJsonString (src/src/lite_llm.cpp and *)
(* src/lite_server/src/protocol_codec.cpp, the same function twice) and    *)
(* ParseString (json_value.cpp, also kept twice).                          *)
(*                                                                         *)
(* A character is a number: a byte, a word that stands for its letters     *)
(* (Word), or the four hexadecimal digits that spell v (Quad).  The C++    *)
(* text is cut between bytes; a text cut inside a word or a quad fails     *)
(* wherever one cut before it does.                                        *)
(***************************************************************************)
EXTENDS Naturals, Sequences

Quote     == 34
Backslash == 92
LetterU   == 117

FirstQuad == 65536
Word(n)   == 256 + n
Quad(v)   == FirstQuad + v
IsQuad(c) == c \geq FirstQuad /\ c < 2 * FirstQuad

HighSurrogate(v) == 55296 \leq v /\ v \leq 56319
LowSurrogate(v)  == 56320 \leq v /\ v \leq 57343

\* text_[index], looked at only inside the text.
Is(s, i, c)  == i \leq Len(s) /\ s[i] = c

\* ParseHexQuad succeeds: four hexadecimal digits follow.
QuadAt(s, i) == i \leq Len(s) /\ IsQuad(s[i])
QuadValue(s, i) == s[i] - FirstQuad

-----------------------------------------------------------------------------
\* The low six bits of c, in a byte that continues a sequence.
Continuation(c) == 128 + (c % 64)

\* UTF-8.  Beyond 0x10FFFF AppendCodePoint fails, and so does its caller.
AppendCodePoint(c) ==
  IF c \leq 127 THEN <<c>>
  ELSE IF c \leq 2047 THEN <<192 + (c \div 64), Continuation(c)>>
  ELSE IF c \leq 65535
       THEN <<224 + (c \div 4096), Continuation(c \div 64), Continuation(c)>>
  ELSE <<240 + (c \div 262144), Continuation(c \div 4096), Continuation(c \div 64),
         Continuation(c)>>

\* Mutant: the base of the supplementary planes is forgotten.
CombineWithoutBase(high, low) == (high - 55296) * 1024 + (low - 56320)

Combine(high, low) == 65536 + (high - 55296) * 1024 + (low - 56320)

NoCode == [ok |-> FALSE, code |-> 0, next |-> 0]
Code(c, next) == [ok |-> TRUE, code |-> c, next |-> next]

\* The code point escaped by the quad at i, and by the quad of the low
\* surrogate that has to follow a high one.
UnicodeEscape(s, i) ==
  LET paired == /\ Is(s, i + 1, Backslash) /\ Is(s, i + 2, LetterU)
                /\ QuadAt(s, i + 3) /\ LowSurrogate(QuadValue(s, i + 3))
      first  == QuadValue(s, i)
  IN  IF ~QuadAt(s, i) THEN NoCode
      ELSE IF LowSurrogate(first) THEN NoCode
      ELSE IF ~HighSurrogate(first) THEN Code(first, i + 1)
      ELSE IF paired THEN Code(Combine(first, QuadValue(s, i + 3)), i + 4)
      ELSE NoCode

\* The byte that a backslash and one letter spell.
ShortEscapes == [c \in {34, 92, 47, 98, 102, 110, 114, 116} |->
  CASE c = 98 -> 8 [] c = 102 -> 12 [] c = 110 -> 10 [] c = 114 -> 13
    [] c = 116 -> 9 [] OTHER -> c]

Fail == [ok |-> FALSE, value |-> <<>>, next |-> 0]

\* value.push_back, before what the rest of the loop appends.
Then(bytes, rest) ==
  IF rest.ok THEN [rest EXCEPT !.value = bytes \o @] ELSE Fail

(***************************************************************************)
(* The loop of ParseString from position start, after the opening quote:   *)
(* the bytes of the string and the position after its closing quote.       *)
(* strict: a control character has to be escaped.                          *)
(***************************************************************************)
StringLoop(s, start, strict) ==
  LET at[i \in Nat \ {0}] ==
        LET unicode == UnicodeEscape(s, i + 2)
        IN  IF i > Len(s) THEN Fail
            ELSE IF Is(s, i, Quote) THEN [ok |-> TRUE, value |-> <<>>, next |-> i + 1]
            ELSE IF strict /\ s[i] < 32 THEN Fail
            ELSE IF s[i] # Backslash THEN Then(<<s[i]>>, at[i + 1])
            ELSE IF i + 1 > Len(s) THEN Fail
            ELSE IF s[i + 1] \in DOMAIN ShortEscapes
                 THEN Then(<<ShortEscapes[s[i + 1]]>>, at[i + 2])
            ELSE IF s[i + 1] = LetterU /\ unicode.ok
                 THEN Then(AppendCodePoint(unicode.code), at[unicode.next])
            ELSE Fail
  IN  at[start]

ParseString(s, i) ==
  IF Is(s, i, Quote) THEN StringLoop(s, i + 1, TRUE) ELSE Fail

-----------------------------------------------------------------------------
\* Mutant: control characters are copied as they are.
EscapeByteUnlessControl(b) ==
  CASE b \in {34, 92} -> <<Backslash, b>> [] OTHER -> <<b>>

EscapeByte(b) ==
  CASE b \in {34, 92} -> <<Backslash, b>>
    [] b = 8          -> <<Backslash, 98>>
    [] b = 12         -> <<Backslash, 102>>
    [] b = 10         -> <<Backslash, 110>>
    [] b = 13         -> <<Backslash, 114>>
    [] b = 9          -> <<Backslash, 116>>
    [] b < 32 /\ b \notin {8, 9, 10, 12, 13} -> <<Backslash, LetterU, Quad(b)>>
    [] OTHER          -> <<b>>

\* What a loop has appended that goes over the parts in order.
Concat(parts) ==
  LET upTo[n \in 0..Len(parts)] == IF n = 0 THEN <<>> ELSE upTo[n-1] \o parts[n]
  IN  upTo[Len(parts)]

Escaped(v) == Concat([i \in DOMAIN v |-> EscapeByte(v[i])])

EscapeJsonString(v) == <<Quote>> \o Escaped(v) \o <<Quote>>
=============================================================================
