------------------------------ MODULE JsonText ------------------------------
(***************************************************************************)
(* The reference for JsonParser: what a JSON text is, stated position by   *)
(* position without a parser, and the value it denotes, by splitting it at *)
(* its outermost commas.                                                   *)
(***************************************************************************)
EXTENDS JsonParser, FiniteSetsExt

\* The tokens of s that are not whitespace.
Significant[s \in Seq(Tokens)] ==
  LET before == Significant[SubSeq(s, 1, Len(s) - 1)]
  IN  IF s = <<>> THEN <<>>
      ELSE IF s[Len(s)] = "ws" THEN before ELSE Append(before, s[Len(s)])

Closers    == {"rbracket", "rbrace"}
ValueStart == Atoms \cup Openers

\* Brackets open before position i, and the innermost of them.
Depth(s, i) ==
  Cardinality({j \in 1..(i - 1) : s[j] \in Openers})
    - Cardinality({j \in 1..(i - 1) : s[j] \in Closers})

Around(s, i) ==
  LET open == {j \in 1..(i - 1) :
                 s[j] \in Openers /\ Depth(s, j) + 1 = Depth(s, i)}
  IN  IF Depth(s, i) \leq 0 THEN EOF ELSE s[Max(open)]

Before(s, i, n) == IF i > n THEN s[i - n] ELSE EOF

IsKey(s, i) ==
  /\ s[i] \in Strings /\ Around(s, i) = "lbrace"
  /\ Before(s, i, 1) \in {"lbrace", "comma"}

\* A value ends just before position i.
ValueBefore(s, i) ==
  \/ Before(s, i, 1) \in Closers
  \/ Before(s, i, 1) \in Atoms /\ ~IsKey(s, i - 1)

Fits(s, i) ==
  \/ /\ Around(s, i) = EOF
     /\ i = 1 /\ s[i] \in ValueStart
  \/ /\ Around(s, i) = "lbracket"
     /\ \/ s[i] \in ValueStart /\ Before(s, i, 1) \in {"lbracket", "comma"}
        \/ s[i] = "comma" /\ ValueBefore(s, i)
        \/ s[i] = "rbracket" /\ (Before(s, i, 1) = "lbracket" \/ ValueBefore(s, i))
  \/ /\ Around(s, i) = "lbrace"
     /\ \/ IsKey(s, i)
        \/ s[i] = "colon" /\ i > 1 /\ IsKey(s, i - 1)
        \/ s[i] \in ValueStart /\ Before(s, i, 1) = "colon"
        \/ s[i] = "comma" /\ ValueBefore(s, i)
        \/ s[i] = "rbrace" /\ (Before(s, i, 1) = "lbrace" \/ ValueBefore(s, i))

\* No value is inside more than MaxDepth brackets, none is announced there.
Shallow(s, i) ==
  (s[i] \in ValueStart \cup {"colon"} /\ ~IsKey(s, i)) => Depth(s, i) \leq MaxDepth

\* s can be continued to a JSON text; s is one.
Viable(s) == \A i \in DOMAIN s : Fits(s, i) /\ Shallow(s, i)
IsText(s) == s # <<>> /\ Viable(s) /\ Depth(s, Len(s) + 1) = 0

-----------------------------------------------------------------------------
\* The last comma in s outside all its brackets, 0 if there is none.
Cut(s) == Max({0} \cup {i \in DOMAIN s : s[i] = "comma" /\ Depth(s, i) = 0})

\* The items or members that s lists, between its outermost commas.
Parts[s \in Seq(Tokens)] ==
  IF s = <<>> THEN <<>>
  ELSE Append(Parts[SubSeq(s, 1, Cut(s) - 1)], SubSeq(s, Cut(s) + 1, Len(s)))

\* The last of the members with key k.
LastMember(parts, k) == parts[Max({n \in DOMAIN parts : parts[n][1] = k})]

\* The value of a JSON text.  A member is a key, a colon and a value.
Denotes[s \in Seq(Tokens)] ==
  LET parts == Parts[SubSeq(s, 2, Len(s) - 1)]
      AfterColon(member) == SubSeq(member, 3, Len(member))
  IN  IF Len(s) = 1 THEN <<"scalar", s[1]>>
      ELSE IF s[1] = "lbracket"
      THEN <<"array", [n \in DOMAIN parts |-> Denotes[parts[n]]]>>
      ELSE <<"object", [k \in {parts[n][1] : n \in DOMAIN parts} |->
                          Denotes[AfterColon(LastMember(parts, k))]]>>

-----------------------------------------------------------------------------
\* ParseJson succeeds only on a JSON text within the nesting limit, and only
\* when it has read it to its last character.
AcceptedIsJson == pc = "accepted" => peek = EOF /\ IsText(Significant[text])

\* The value ParseJson returns is the one the text denotes: items in order,
\* and the last of several members with the same key.
ValueIsDenoted == pc = "accepted" => value = Denotes[Significant[text]]

\* ParseJson fails only where no JSON text within the nesting limit goes on:
\* it refuses nothing that it should accept, and it fails at the first
\* character that is wrong.
RejectedIsNotJson ==
  pc = "rejected" =>
    IF peek = EOF THEN ~IsText(Significant[text])
                  ELSE ~Viable(Significant[Append(text, peek)])

\* ParseJson accepts exactly the JSON texts within the nesting limit, fails at
\* the first wrong character of any other, and returns what the text denotes.
ParsesExactlyJson == AcceptedIsJson /\ ValueIsDenoted /\ RejectedIsNotJson
=============================================================================
