----------------------------- MODULE JsonParser -----------------------------
(***************************************************************************)
(* ParseJson (src/src/json_value.cpp, of which lite_server/src holds a     *)
(* copy): the recursive descent over the text of a request or a frame.     *)
(*                                                                         *)
(* A text is a sequence of tokens: the six punctuation characters, a run   *)
(* of whitespace, a complete string, another complete scalar (null, true,  *)
(* false or a number), or "bad", anything at which ParseString,            *)
(* ParseNumber or ParseValue fails.  The text is chosen as it is read:     *)
(* peek is text_[cursor_], or EOF when cursor_ has reached the end.        *)
(*                                                                         *)
(* The activations of ParseArray and ParseObject on the C++ stack are the  *)
(* sequence stack; the container each of them fills is in built.           *)
(***************************************************************************)
EXTENDS Naturals, Sequences

CONSTANTS
  Strings,        \* complete JSON strings
  Scalars,        \* null, true, false and complete numbers
  MaxDepth,       \* kMaximumJsonDepth
  MaxText,        \* tokens in a text
  EOF             \* no character left

Punctuation == {"lbracket", "rbracket", "lbrace", "rbrace", "comma", "colon"}
Openers     == {"lbracket", "lbrace"}
Atoms       == Strings \cup Scalars
Tokens      == Punctuation \cup {"ws", "bad"} \cup Atoms

ASSUME ParserAssumption ==
  /\ MaxDepth \in Nat /\ MaxText \in Nat
  /\ Strings \cap Scalars = {}
  /\ Atoms \cap (Punctuation \cup {"ws", "bad"}) = {}
  /\ EOF \notin Tokens

VARIABLES
  text,           \* the tokens before cursor_
  peek,           \* the token at cursor_
  pc,             \* where the innermost activation is
  stack,          \* activations of ParseArray and ParseObject, by opener
  built,          \* the container each activation fills, and its current key
  value           \* *value of ParseJson, <<>> until it is assigned

vars == <<text, peek, pc, stack, built, value>>

Places == {"value", "open", "key", "keyed", "after", "end"}

Init ==
  /\ text = <<>> /\ peek \in Tokens \cup {EOF}
  /\ pc = "value" /\ stack = <<>> /\ built = <<>> /\ value = <<>>

\* ++cursor_
Advance ==
  /\ text' = Append(text, peek)
  /\ peek' \in IF Len(text) + 1 < MaxText THEN Tokens \cup {EOF} ELSE {EOF}

-----------------------------------------------------------------------------
(***************************************************************************)
(* What a call of ParseValue returns: the caller appends it to its array,  *)
(* assigns it to the key in its object, or is Parse itself.                *)
(***************************************************************************)
Scalar(t)    == <<"scalar", t>>
ArrayOf(b)   == <<"array", b.items>>
ObjectOf(b)  == <<"object", b.entries>>
EmptyContainer == [items |-> <<>>, entries |-> <<>>, key |-> EOF]

Container(kind, b) == IF kind = "lbracket" THEN ArrayOf(b) ELSE ObjectOf(b)

\* object[key] = item: the last of several members with one key wins.
Assign(entries, key, v) ==
  [k \in DOMAIN entries \cup {key} |-> IF k = key THEN v ELSE entries[k]]

Store(kind, b, v) ==
  IF kind = "lbracket" THEN [b EXCEPT !.items = Append(@, v)]
                ELSE [b EXCEPT !.entries = Assign(@, b.key, v)]

\* ParseValue returns v with the activations st, which build bs, above it.
Return(v, st, bs) ==
  IF st = <<>>
  THEN /\ pc' = "end" /\ value' = v
       /\ stack' = st /\ built' = bs
  ELSE /\ pc' = "after" /\ stack' = st
       /\ built' = [bs EXCEPT ![Len(bs)] = Store(st[Len(st)], @, v)]
       /\ UNCHANGED value

Below(s) == SubSeq(s, 1, Len(s) - 1)
Top(s)   == s[Len(s)]
Closer   == IF Top(stack) = "lbracket" THEN "rbracket" ELSE "rbrace"

-----------------------------------------------------------------------------
(***************************************************************************)
(* ParseValue(depth), where depth is the number of activations above it.   *)
(***************************************************************************)
\* Mutant: the limit is off by one.
TooDeepLate == Len(stack) > MaxDepth + 1

TooDeep == Len(stack) > MaxDepth

\* Mutant: the loop does not compare cursor_ with the size of the text.
SkipWhitespaceUnbounded ==
  /\ pc \in Places
  /\ peek \in {"ws", EOF}
  /\ pc = "value" => ~TooDeep
  /\ Advance
  /\ UNCHANGED <<pc, stack, built, value>>

\* Every place skips whitespace first; ParseValue checks the depth before.
SkipWhitespace ==
  /\ pc \in Places
  /\ peek = "ws"
  /\ pc = "value" => ~TooDeep
  /\ Advance
  /\ UNCHANGED <<pc, stack, built, value>>

ParseScalar ==
  /\ pc = "value" /\ ~TooDeep
  /\ peek \in Atoms
  /\ Return(Scalar(peek), stack, built)
  /\ Advance

\* ParseArray or ParseObject up to its first look for the closing bracket.
OpenContainer ==
  /\ pc = "value" /\ ~TooDeep
  /\ peek \in Openers
  /\ stack' = Append(stack, peek)
  /\ built' = Append(built, EmptyContainer)
  /\ pc' = "open"
  /\ Advance
  /\ UNCHANGED value

CloseEmpty ==
  /\ pc = "open"
  /\ peek = Closer
  /\ Return(Container(Top(stack), Top(built)), Below(stack), Below(built))
  /\ Advance

\* Not empty: the loop is entered, with an item or with a key.
EnterLoop ==
  /\ pc = "open"
  /\ peek \notin {Closer, "ws", EOF}
  /\ pc' = IF Top(stack) = "lbracket" THEN "value" ELSE "key"
  /\ UNCHANGED <<text, peek, stack, built, value>>

ParseKey ==
  /\ pc = "key"
  /\ peek \in Strings
  /\ built' = [built EXCEPT ![Len(built)].key = peek]
  /\ pc' = "keyed"
  /\ Advance
  /\ UNCHANGED <<stack, value>>

ParseColon ==
  /\ pc = "keyed"
  /\ peek = "colon"
  /\ pc' = "value"
  /\ Advance
  /\ UNCHANGED <<stack, built, value>>

\* Mutant: after a comma the loop looks for the closing bracket again.
ParseCommaThenCloser ==
  /\ pc = "after"
  /\ peek = "comma"
  /\ pc' = "open"
  /\ Advance
  /\ UNCHANGED <<stack, built, value>>

ParseComma ==
  /\ pc = "after"
  /\ peek = "comma"
  /\ pc' = IF Top(stack) = "lbracket" THEN "value" ELSE "key"
  /\ Advance
  /\ UNCHANGED <<stack, built, value>>

CloseContainer ==
  /\ pc = "after"
  /\ peek = Closer
  /\ Return(Container(Top(stack), Top(built)), Below(stack), Below(built))
  /\ Advance

-----------------------------------------------------------------------------
(***************************************************************************)
(* Parse.                                                                  *)
(***************************************************************************)
Accept ==
  /\ pc = "end"
  /\ peek = EOF
  /\ pc' = "accepted"
  /\ UNCHANGED <<text, peek, stack, built, value>>

\* Fail: every caller returns false in turn.  A value of the whole text that
\* was already assigned stays assigned.
Unexpected ==
  \/ pc = "value" /\ (TooDeep \/ peek \notin Openers \cup Atoms \cup {"ws"})
  \/ pc = "open"  /\ peek = EOF
  \/ pc = "key"   /\ peek \notin Strings \cup {"ws"}
  \/ pc = "keyed" /\ peek \notin {"colon", "ws"}
  \/ pc = "after" /\ peek \notin {"comma", Closer, "ws"}
  \/ pc = "end"   /\ peek \notin {EOF, "ws"}

Reject ==
  /\ Unexpected
  /\ pc' = "rejected"
  /\ UNCHANGED <<text, peek, stack, built, value>>

\* ParseJson has returned.
Returned == pc \in {"accepted", "rejected"} /\ UNCHANGED vars

Next ==
  \/ SkipWhitespace \/ ParseScalar
  \/ OpenContainer \/ CloseEmpty \/ EnterLoop \/ ParseKey \/ ParseColon
  \/ ParseComma \/ CloseContainer
  \/ Accept \/ Reject \/ Returned

Spec == Init /\ [][Next]_vars

-----------------------------------------------------------------------------
\* Types; cursor_ never passes the end of the text.  JSON values nest without
\* a bound, so built and value have no set to be in.
TypeOK ==
  /\ text \in Seq(Tokens)
  /\ peek \in Tokens \cup {EOF}
  /\ pc \in Places \cup {"accepted", "rejected"}
  /\ stack \in Seq(Openers)

\* Places inside ParseArray or ParseObject are reached only with such an
\* activation on the stack, and Parse reads past the value with none.
PlaceMatchesStack ==
  /\ pc \in {"open", "key", "keyed", "after"} => stack # <<>>
  /\ pc \in {"end", "accepted"} => stack = <<>>

\* The recursion of ParseValue is bounded whatever the text: at most one
\* activation of ParseArray or ParseObject more than kMaximumJsonDepth, and
\* that last one returns or fails before it completes a single item.
RecursionBounded ==
  /\ Len(stack) \leq MaxDepth + 1
  /\ Len(stack) = MaxDepth + 1 => pc # "after"
=============================================================================
