-------------------------- MODULE DeepSeekRuntime ---------------------------
(***************************************************************************)
(* The DeepSeek runtime (src/runtime/mock/lite_llm_mock.cpp) reads its     *)
(* configuration and the HTTP reply by searching the text for keys instead *)
(* of parsing it.  The operators here are those searches; a text is a      *)
(* sequence of the characters of JsonString.                               *)
(***************************************************************************)
EXTENDS JsonString

CONSTANT CountMax               \* UINT32_MAX

ASSUME RuntimeAssumption == CountMax \in Nat

Colon == 58
Space == 32
SlashChar == 47

\* Words the code looks for, and the symbols of HTTP.
Choices      == Word(0)
Content      == Word(1)
FinishReason == Word(2)
PromptTokens == Word(3)
CompletionTokens == Word(4)
StopWord     == Word(5)
LengthWord   == Word(6)
ApiKey       == Word(7)
Model        == Word(8)
Endpoint     == Word(9)
Https        == Word(10)
Port443      == Word(11)
CRLF         == Word(12)
Chunked      == Word(13)
ChunkSize(n) == 2 * FirstQuad + n      \* the digits and their value, of any size
Status(n)    == Word(1000 + n)

Key(k) == <<Quote, k, Quote>>

-----------------------------------------------------------------------------
\* The smallest of a set of positions, 0 (npos) when there is none.
First(positions) ==
  IF positions = {} THEN 0 ELSE CHOOSE i \in positions : \A j \in positions : i \leq j

Find(s, c, from) == First({i \in from..Len(s) : s[i] = c})

\* json.find("\"" + key + "\"", from): also a string value that is spelled so.
FindKey(s, k, from) == First({i \in from..(Len(s) - 2) : SubSeq(s, i, i + 2) = Key(k)})

\* Mutant: a value has to follow its colon at once.
SkipNothing(s, i) == i

\* The first position from i on that is not white space.
SkipSpace(s, i) == First({j \in i..(Len(s) + 1) : ~Is(s, j, Space)})

\* Where the value of the key found at position k begins, 0 when no colon
\* follows.
ValueStart(s, k) ==
  LET colon == Find(s, Colon, k + 3)
  IN  IF colon = 0 THEN 0 ELSE SkipSpace(s, colon + 1)

-----------------------------------------------------------------------------
\* The loop of JsonStringValue, which knows three escapes and no \u.
PlainString(s, start) ==
  LET named == [c \in {110, 114, 116} |->
                  CASE c = 110 -> 10 [] c = 114 -> 13 [] c = 116 -> 9]
      at[i \in Nat \ {0}] ==
        CASE i > Len(s) -> Fail
          [] Is(s, i, Quote) -> [ok |-> TRUE, value |-> <<>>, next |-> i + 1]
          [] Is(s, i, Backslash) /\ i < Len(s) ->
               Then(<<IF s[i + 1] \in DOMAIN named THEN named[s[i + 1]]
                                                   ELSE s[i + 1]>>, at[i + 2])
          [] Is(s, i, Backslash) /\ i = Len(s) -> Fail
          [] OTHER -> Then(<<s[i]>>, at[i + 1])
  IN  at[start]

\* An empty fallback is none: the key is required.
JsonStringValue(s, k, fallback) ==
  LET found == FindKey(s, k, 1)
      start == ValueStart(s, found)
  IN  CASE found = 0 /\ fallback # <<>> -> [Fail EXCEPT !.ok = TRUE, !.value = fallback]
        [] found = 0 /\ fallback = <<>> -> Fail
        [] found # 0 /\ start # 0 /\ Is(s, start, Quote) -> PlainString(s, start + 1)
        [] OTHER -> Fail

\* DecodeJsonStringAt is the loop of ParseString over again, except that
\* control characters may stand unescaped.
DecodeJsonStringAt(s, start) == StringLoop(s, start, FALSE)

CompletionContent(s) ==
  LET choices == FindKey(s, Choices, 1)
      content == FindKey(s, Content, choices)
      start   == ValueStart(s, content)
  IN  IF choices # 0 /\ content # 0 /\ start # 0 /\ Is(s, start, Quote)
      THEN DecodeJsonStringAt(s, start + 1) ELSE Fail

\* strtoul: the digits from position i on.
Digits(s, i) ==
  LET end == First({j \in i..(Len(s) + 1) : j > Len(s) \/ s[j] \notin 48..57})
      upTo[n \in 0..(end - i)] ==
        IF n = 0 THEN 0 ELSE 10 * upTo[n-1] + (s[i + n - 1] - 48)
  IN  upTo[end - i]

\* 0 when the key, its colon or its digits are missing, or the value is wide.
JsonUnsignedValue(s, k) ==
  LET found == FindKey(s, k, 1)
      start == ValueStart(s, found)
      value == IF found = 0 \/ start = 0 THEN 0 ELSE Digits(s, start)
  IN  IF value \leq CountMax THEN value ELSE 0

-----------------------------------------------------------------------------
\* Mutant: what has arrived of the last chunk is taken.
DecodeChunkedLeniently(b) ==
  LET at[i \in Nat \ {0}] ==
        LET end == Find(b, CRLF, i)
            n   == b[i] - ChunkSize(0)
        IN  IF end # i + 1 \/ n = 0 \/ end + n \geq Len(b)
            THEN [ok |-> TRUE, value |-> IF end = i + 1 THEN SubSeq(b, end + 1, Len(b))
                                         ELSE <<>>, next |-> i]
            ELSE Then(SubSeq(b, end + 1, end + n), at[end + n + 2])
  IN  at[1]

\* Chunks of n characters up to the empty one; each ends with CRLF.
DecodeChunkedBody(b) ==
  LET at[i \in Nat \ {0}] ==
        LET end == Find(b, CRLF, i)
            n   == b[i] - ChunkSize(0)
        IN  IF end # i + 1 \/ n \notin Nat THEN Fail
            ELSE IF n = 0 THEN [ok |-> TRUE, value |-> <<>>, next |-> end + 1]
            ELSE IF Is(b, end + n + 1, CRLF)
                 THEN Then(SubSeq(b, end + 1, end + n), at[end + n + 2])
            ELSE Fail
  IN  at[1]

HttpOk(status) == status \in 200..299

\* The body of a whole or cut response; everything the connection gave is it.
HttpBody(r) ==
  LET headersEnd == First({i \in 1..(Len(r) - 1) : r[i] = CRLF /\ r[i + 1] = CRLF})
      rest    == SubSeq(r, headersEnd + 2, Len(r))
      chunked == \E i \in 1..headersEnd : r[i] = Chunked
      body    == IF chunked THEN DecodeChunkedBody(rest)
                 ELSE [ok |-> TRUE, value |-> rest, next |-> 0]
  IN  IF headersEnd # 0 /\ body.ok /\ HttpOk(r[1] - Status(0)) THEN body ELSE Fail

-----------------------------------------------------------------------------
\* https://host[:port][/path].
ParseHttpsUrl(e) ==
  LET slash == Find(e, SlashChar, 2)
      authority == SubSeq(e, 2, IF slash = 0 THEN Len(e) ELSE slash - 1)
      colons == {i \in DOMAIN authority : authority[i] = Colon}
      last   == CHOOSE i \in colons : \A j \in colons : j \leq i
  IN  [ok   |-> Is(e, 1, Https) /\ authority # <<>>,
       host |-> IF colons = {} THEN authority ELSE SubSeq(authority, 1, last - 1),
       port |-> IF colons = {} THEN <<Port443>>
                ELSE SubSeq(authority, last + 1, Len(authority)),
       path |-> IF slash = 0 THEN <<SlashChar>> ELSE SubSeq(e, slash, Len(e))]

\* CreateFromConfig: ok when it returns a runtime, which keeps these values.
CreateFromConfig(file) ==
  LET apiKey   == JsonStringValue(file, ApiKey, <<>>)
      model    == JsonStringValue(file, Model, <<Model>>)
      endpoint == JsonStringValue(file, Endpoint, <<Https, Word(20)>>)
  IN  [ok |-> apiKey.ok /\ model.ok /\ endpoint.ok, apiKey |-> apiKey.value,
       model |-> model.value, endpoint |-> endpoint.value]

NoResult == [status |-> "InternalError", text |-> <<>>, finish_reason |-> "Stop",
             prompt_tokens |-> 0, generated_tokens |-> 0]

\* What Generate makes of a response.
ResultOf(response) ==
  LET body    == HttpBody(response)
      content == CompletionContent(body.value)
      reason  == JsonStringValue(body.value, FinishReason, <<StopWord>>)
  IN  IF body.ok /\ content.ok /\ reason.ok
      THEN [status |-> "Ok", text |-> content.value,
            finish_reason |-> IF reason.value = <<LengthWord>> THEN "Length" ELSE "Stop",
            prompt_tokens |-> JsonUnsignedValue(body.value, PromptTokens),
            generated_tokens |-> JsonUnsignedValue(body.value, CompletionTokens)]
      ELSE NoResult
=============================================================================
