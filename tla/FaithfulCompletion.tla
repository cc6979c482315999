------------------------- MODULE FaithfulCompletion -------------------------
(***************************************************************************)
(* What the upstream means by its answer and what the caller must be able  *)
(* to read from what LiteLlm makes of it: the spelling of a content, the   *)
(* form of a response, and the properties of Completion that compare the   *)
(* two.  An answer is a field of its scenario, next to the response that   *)
(* spells it.                                                              *)
(***************************************************************************)
EXTENDS Completion

-----------------------------------------------------------------------------
(***************************************************************************)
(* Contents.  A unit is spelled by raw and stands for bytes; a surrogate   *)
(* stands for bytes only as half of a pair, and a control character has to *)
(* be escaped, except where the runtime reads the upstream's text.         *)
(***************************************************************************)
Unit(raw, bytes) == [kind |-> "plain", raw |-> raw, bytes |-> bytes]
Half(kind, v)    == [kind |-> kind, raw |-> <<92, 117, Quad(v)>>, bytes |-> <<v>>]
Control(c)       == [kind |-> "control", raw |-> <<c>>, bytes |-> <<c>>]
BadUnit(raw)     == [kind |-> "bad", raw |-> raw, bytes |-> <<>>]

Within(x, low, high) == low \leq x /\ x \leq high

\* The bytes are the shortest form of a code point of the basic plane in UTF-8.
IsUtf8(bytes, code) ==
  \/ Len(bytes) = 1 /\ code \leq 127 /\ bytes[1] = code
  \/ /\ Len(bytes) = 2 /\ Within(code, 128, 2047)
     /\ Within(bytes[1], 192, 223) /\ Within(bytes[2], 128, 191)
     /\ (bytes[1] - 192) * 64 + (bytes[2] - 128) = code
  \/ /\ Len(bytes) = 3 /\ Within(code, 2048, 65535)
     /\ Within(bytes[1], 224, 239) /\ Within(bytes[2], 128, 191)
     /\ Within(bytes[3], 128, 191)
     /\ (bytes[1] - 224) * 4096 + (bytes[2] - 128) * 64 + (bytes[3] - 128) = code

\* What the bits of two surrogates spell in UTF-8: five bits for the plane, which
\* the first surrogate has one too low, and four, two, six for the rest.
Paired(high, low) ==
  LET h == high - 55296
      l == low - 56320
      plane == h \div 64 + 1
  IN  <<240 + plane \div 4,
        128 + (plane % 4) * 16 + (h % 64) \div 4,
        128 + (h % 4) * 16 + l \div 64,
        128 + (l % 64)>>

\* The letter after a backslash, and what the two stand for.
Letters == {<<34, 34>>, <<92, 92>>, <<47, 47>>, <<98, 8>>, <<102, 12>>, <<110, 10>>,
            <<114, 13>>, <<116, 9>>}

Lettered == {pair[1] : pair \in Letters}

\* The spellings that stand for something by themselves: a character, a short
\* escape, and a quad that is not a surrogate.
Spells(raw, bytes) ==
  \/ /\ Len(raw) = 1 /\ bytes = raw
     /\ raw[1] \geq 32 /\ raw[1] \notin {34, 92}
  \/ /\ Len(raw) = 2 /\ Len(bytes) = 1
     /\ raw[1] = 92 /\ <<raw[2], bytes[1]>> \in Letters
  \/ /\ Len(raw) = 3 /\ raw[1] = 92 /\ raw[2] = 117 /\ IsQuad(raw[3])
     /\ ~HighSurrogate(raw[3] - FirstQuad) /\ ~LowSurrogate(raw[3] - FirstQuad)
     /\ IsUtf8(bytes, raw[3] - FirstQuad)

\* Those that no string may contain: a backslash with something else after it.
SpellsNothing(raw) ==
  \/ Len(raw) = 2 /\ raw[1] = 92 /\ raw[2] \notin Lettered \cup {117}
  \/ Len(raw) = 3 /\ raw[1] = 92 /\ raw[2] = 117 /\ ~IsQuad(raw[3])

Spellings ==
  {u \in [kind : {"plain", "control", "high", "low", "bad"}, raw : Seq(Nat), bytes : Seq(Nat)] :
     \/ u.kind = "plain" /\ Spells(u.raw, u.bytes)
     \/ u.kind = "control" /\ u.bytes[1] < 32 /\ u = Control(u.bytes[1])
     \/ u.kind = "high" /\ HighSurrogate(u.bytes[1]) /\ u = Half("high", u.bytes[1])
     \/ u.kind = "low" /\ LowSurrogate(u.bytes[1]) /\ u = Half("low", u.bytes[1])
     \/ u.kind = "bad" /\ SpellsNothing(u.raw)}

Raw(us) == Concat([i \in DOMAIN us |-> us[i].raw])

\* The halves of pairs.
IsFirst(us, i)  == us[i].kind = "high" /\ i < Len(us) /\ us[i + 1].kind = "low"
IsSecond(us, i) == us[i].kind = "low" /\ i > 1 /\ us[i - 1].kind = "high"

\* What ParseString accepts (strict), and what the runtime accepts.
Readable(us, strict) ==
  \A i \in DOMAIN us : \/ us[i].kind = "plain"
                       \/ us[i].kind = "control" /\ ~strict
                       \/ IsFirst(us, i) \/ IsSecond(us, i)

WellFormed(us) == Readable(us, TRUE)
Lenient(us)    == Readable(us, FALSE)

Denoted(us) ==
  Concat([i \in DOMAIN us |->
            IF us[i].kind \in {"plain", "control"} THEN us[i].bytes
            ELSE IF IsFirst(us, i) THEN Paired(us[i].bytes[1], us[i + 1].bytes[1])
            ELSE <<>>])

-----------------------------------------------------------------------------
(***************************************************************************)
(* Responses: the order of members is the upstream's, which is external.   *)
(***************************************************************************)
Other == Word(40)               \* anything that is not searched for
Null  == Word(41)

Answer(units, finish, status, split) ==
  [units |-> units, finish |-> finish, status |-> status, split |-> split]

BodyHead ==
  <<Quote, Choices, Quote, Colon, Other, Quote, Content, Quote, Colon, Space, Quote>>

FinishWord(finish) == IF finish = "Length" THEN LengthWord ELSE StopWord

BodyRest(finish) ==
  <<Quote, Other, Quote, Other, Quote, Colon, Null,
    Quote, FinishReason, Quote, Colon, Quote, FinishWord(finish), Quote, Other,
    Quote, PromptTokens, Quote, Colon, 57, 57, Other,
    Quote, CompletionTokens, Quote, Colon, 49, 50, Other>>

Body(a) == BodyHead \o Raw(a.units) \o BodyRest(a.finish)

Chunk(s) == <<ChunkSize(Len(s)), CRLF>> \o s \o <<CRLF>>

\* split = 0: one body with its length; otherwise two chunks.
Response(a) ==
  LET body == Body(a)
  IN  <<Status(a.status), CRLF>>
        \o (IF a.split = 0 THEN <<Other, CRLF, CRLF>> \o body
            ELSE <<Chunked, CRLF, CRLF>> \o Chunk(SubSeq(body, 1, a.split))
                   \o Chunk(SubSeq(body, a.split + 1, Len(body)))
                   \o <<ChunkSize(0), CRLF, CRLF>>)

\* The text ends in what looks like the key k: the search for that key finds it
\* there, with the quote that ends the text.
EndsInKey(us, k) ==
  LET raw == Raw(us)
  IN  raw # <<>> /\ raw[Len(raw)] = k /\ (Len(raw) = 1 \/ raw[Len(raw) - 1] = Quote)

-----------------------------------------------------------------------------
(***************************************************************************)
(* What is assumed of a scenario: the upstream's response spells its       *)
(* answer, in one piece or in two chunks that are not empty, and the       *)
(* strings of the request and the file are characters.                     *)
(***************************************************************************)
IsAnswer(a) ==
  /\ a.units \in Seq(Spellings)
  /\ a.finish \in {"Stop", "Length"} /\ a.status \in Nat /\ a.split \in Nat
  /\ a.split < Len(Body(a))

HasItems(v) == v.items \in Seq({v.items[i] : i \in DOMAIN v.items})

HasChars(v) == v.t = "string" => v.chars \in Seq(Nat)

IsContent(v) ==
  /\ HasChars(v)
  /\ v.t = "array" =>
       /\ HasItems(v)
       /\ \A i \in DOMAIN v.items : v.items[i].t = "object" => HasChars(v.items[i].text)

IsRequest(r) ==
  r.t = "object" =>
    /\ HasChars(r.model)
    /\ r.messages.t = "array" =>
         /\ HasItems(r.messages)
         /\ \A i \in DOMAIN r.messages.items :
              LET m == r.messages.items[i]
              IN  m.t = "object" => HasChars(m.role) /\ IsContent(m.content)

ASSUME ScenariosAssumption ==
  /\ CountMax \geq 99
  /\ \A s \in Scenarios :
       /\ IsAnswer(s.answer) /\ s.response = Response(s.answer)
       /\ s.file \in Seq(Nat) /\ IsRequest(s.root)

-----------------------------------------------------------------------------
Answered   == stage = "responded"
Completed  == Answered /\ response.status = 200 /\ scenario.runtime = "DeepSeek"
Arrived    == got = Len(scenario.response)
answer     == scenario.answer

\* Types of what changes; a call is answered exactly when it has a status.
TypeOK ==
  /\ stage \in {"create", "failed", "parse", "generate", "write", "read", "respond",
                "responded"}
  /\ upstream \in Seq(Nat) /\ got \in 0..Len(scenario.response)
  /\ result.status \in GenerateStatuses /\ result.text \in Seq(Nat)
  /\ response.status \in {0, 200, 400, 500, 503}
  /\ stage = "responded" <=> response.status # 0

\* What the upstream receives, read from left to right by a JSON parser, is the
\* model of the configuration and, as the content, the prompt, whatever characters
\* they hold and however the connection takes the request apart.
UpstreamSeesPrompt ==
  stage = "read" =>
    LET model == ParseString(upstream, 5)
        text  == ParseString(upstream, model.next + 4)
    IN  /\ SubSeq(upstream, 1, 4) = Key(Model) \o <<Colon>>
        /\ model.ok /\ model.value = runtime.model
        /\ SubSeq(upstream, model.next, model.next + 3) = Key(Content) \o <<Colon>>
        /\ text.ok /\ text.value = Prompt(root) /\ text.next = Len(upstream) + 1

\* A completion carries the whole text of the upstream's answer, never a part
\* of it, wherever the connection was cut: the content string of the response,
\* read by a JSON parser, is what the upstream's content denotes in UTF-8.
TextWhole ==
  Completed =>
    LET text == ParseString(response.content, 1)
    IN  /\ Lenient(answer.units)
        /\ text.ok /\ text.next = Len(response.content) + 1
        /\ text.value = Denoted(answer.units)

\* Only an answer with a 2xx status is a completion, and one sent in chunks
\* only if it arrived to the end of its last chunk.
BrokenIsNotCompleted ==
  Completed => /\ answer.status \in 200..299
               /\ answer.split # 0 => got \geq Len(scenario.response) - 1

\* The finish reason and the counts of a response that arrived whole are those
\* of the upstream, and their sum is exact.  When the connection was cut they
\* may be missing: then the finish reason is "stop" and a count is smaller.  A
\* count whose key the text seems to end in is 0.
UsageFaithful ==
  Completed =>
    LET count(k, n) == IF EndsInKey(answer.units, k) THEN 0 ELSE n
    IN  /\ response.total_tokens = response.prompt_tokens + response.completion_tokens
        /\ IF Arrived \/ answer.split # 0
           THEN /\ response.finish_reason = answer.finish
                /\ response.prompt_tokens = count(PromptTokens, 99)
                /\ response.completion_tokens = count(CompletionTokens, 12)
           ELSE /\ response.finish_reason \in {"Stop", answer.finish}
                /\ response.prompt_tokens \in {count(PromptTokens, n) : n \in {0, 9, 99}}
                /\ response.completion_tokens
                     \in {count(CompletionTokens, n) : n \in {0, 1, 12}}

\* A completion is faithful to the upstream's answer, however the connection took
\* it apart and wherever it ended: its text is whole, no error and no cut chunked
\* reply is one, and only a cut reply without chunks can lose its counts.
CompletionFaithful == TextWhole /\ BrokenIsNotCompleted /\ UsageFaithful

\* A readable answer that arrives whole and is not an error becomes a
\* completion, unless its text ends in what the search for the finish reason takes
\* for its key.
WholeAnswerCompletes ==
  /\ stage = "read" /\ Arrived
  /\ Lenient(answer.units) /\ answer.status \in 200..299
  /\ ~EndsInKey(answer.units, FinishReason)
  => ResultOf(SubSeq(scenario.response, 1, got)).status = "Ok"

\* A JSON string is accepted exactly when each of its surrogates is half of a
\* pair, each escape is complete and no control character stands unescaped; its
\* value is then the UTF-8 of what it spells, and no text cut off before the
\* closing quote is accepted.  The runtime's copy of the loop differs in the
\* control characters only.
StringsAreUnicode ==
  stage = "create" =>
    LET spelled == <<Quote>> \o Raw(answer.units) \o <<Quote>>
        whole   == ParseString(spelled, 1)
        lenient == DecodeJsonStringAt(spelled, 2)
        Means(r) == r.value = Denoted(answer.units) /\ r.next = Len(spelled) + 1
    IN  /\ whole.ok <=> WellFormed(answer.units)
        /\ lenient.ok <=> Lenient(answer.units)
        /\ (whole.ok => Means(whole)) /\ (lenient.ok => Means(lenient))
        /\ \A n \in 0..(Len(spelled) - 1) : ~ParseString(SubSeq(spelled, 1, n), 1).ok
=============================================================================
