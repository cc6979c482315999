---------------------------- MODULE ChatRequest -----------------------------
(***************************************************************************)
(* Validation of an OpenAI chat request and the prompt made of it          *)
(* (ParseRequest and its helpers, src/src/lite_llm.cpp).                   *)
(*                                                                         *)
(* A JSON value is a record with its type in t: strings have their         *)
(* characters in chars, numbers their value in tenths, arrays their items, *)
(* objects one field per key that the code looks up, Absent where Find     *)
(* returns nullptr.  A body that ParseJson refuses has type "unparsable".  *)
(***************************************************************************)
EXTENDS Integers, JsonString

CONSTANT MaximumMessages        \* kMaximumMessages

ASSUME RequestAssumption == MaximumMessages \in Nat \ {0}

MaximumModelBytes     == 256
MaximumSessionIdBytes == 256
MaximumNewTokens      == 2^20

TextType      == <<Word(30)>>
AssistantRole == <<Word(31)>>

\* GenerationConfig as it is before a request changes it.
DefaultConfig == [session_id |-> <<>>, max_new_tokens |-> 512, temperature |-> 7]

Given(v) == v.t # "absent"

StringOf(v, least, most) == v.t = "string" /\ Len(v.chars) \in least..most

\* Letters, digits, _ and -; a word stands for letters.
RoleCharacter(c) == c \in 48..57 \cup 65..90 \cup 97..122 \cup {95, 45} \/ c \geq 256

IsRoleValid(role) ==
  Len(role) \in 1..32 /\ \A i \in DOMAIN role : RoleCharacter(role[i])

-----------------------------------------------------------------------------
IsTextPart(part) ==
  /\ part.t = "object"
  /\ part.type.t = "string" /\ part.type.chars = TextType
  /\ part.text.t = "string"

\* The text parts, separated by newlines; nothing separates a part from the empty
\* ones before it.
JoinParts(parts) ==
  LET upTo[n \in 0..Len(parts)] ==
        IF n = 0 THEN <<>>
        ELSE IF ~IsTextPart(parts[n]) THEN upTo[n-1]
        ELSE upTo[n-1] \o (IF upTo[n-1] = <<>> THEN <<>> ELSE <<10>>)
               \o parts[n].text.chars
  IN  upTo[Len(parts)]

MessageText(content) ==
  IF content.t = "string" THEN content.chars
  ELSE JoinParts(content.items)

\* ReadMessageContent returns true.
ReadMessageContent(content) ==
  \/ content.t = "string"
  \/ content.t = "array" /\ MessageText(content) # <<>>

-----------------------------------------------------------------------------
\* Mutant: the older name of the limit wins.
TokenLimitOldFirst(root) ==
  IF Given(root.max_tokens) THEN root.max_tokens ELSE root.max_completion_tokens

TokenLimit(root) ==
  IF Given(root.max_completion_tokens) THEN root.max_completion_tokens
                                       ELSE root.max_tokens

TemperatureValid(v) == v.t = "number" /\ v.tenths \in 0..20

TokenLimitValid(v) ==
  v.t = "number" /\ v.tenths % 10 = 0 /\ v.tenths \div 10 \in 1..MaximumNewTokens

\* ReadGenerationConfig returns true, and the configuration it has filled in.
GenerationConfigValid(root) ==
  /\ Given(root.temperature) => TemperatureValid(root.temperature)
  /\ Given(TokenLimit(root)) => TokenLimitValid(TokenLimit(root))
  /\ Given(root.lite_llm) =>
       /\ root.lite_llm.t = "object"
       /\ Given(root.lite_llm.session_id) =>
            StringOf(root.lite_llm.session_id, 1, MaximumSessionIdBytes)

ReadGenerationConfig(root) ==
  [session_id |->
     IF Given(root.lite_llm) /\ Given(root.lite_llm.session_id)
     THEN root.lite_llm.session_id.chars ELSE DefaultConfig.session_id,
   max_new_tokens |->
     IF Given(TokenLimit(root)) THEN TokenLimit(root).tenths \div 10
                                ELSE DefaultConfig.max_new_tokens,
   temperature |->
     IF Given(root.temperature) THEN root.temperature.tenths
                                ELSE DefaultConfig.temperature]

MessageValid(m) ==
  /\ m.t = "object"
  /\ m.role.t = "string" /\ IsRoleValid(m.role.chars)
  /\ Given(m.content) /\ ReadMessageContent(m.content)

\* ParseRequest returns true.  A stream that is asked for is only logged.
ParseRequest(root) ==
  /\ root.t = "object"
  /\ Given(root.model) => StringOf(root.model, 1, MaximumModelBytes)
  /\ GenerationConfigValid(root)
  /\ root.messages.t = "array"
  /\ Len(root.messages.items) \in 1..MaximumMessages
  /\ \A i \in DOMAIN root.messages.items : MessageValid(root.messages.items[i])

\* "[role]", newline, the content, an empty line.
Turn(role, content) == <<91>> \o role \o <<93, 10>> \o content \o <<10, 10>>

Prompt(root) ==
  LET turn(m) == Turn(m.role.chars, MessageText(m.content))
      items   == root.messages.items
  IN  Concat([i \in DOMAIN items |-> turn(items[i])])
        \o <<91>> \o AssistantRole \o <<93, 10>>
=============================================================================
