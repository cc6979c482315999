---------------------------- MODULE MCCompletion ----------------------------
(***************************************************************************)
(* Scenarios for Completion, each with what a reader of the request        *)
(* expects of it.                                                          *)
(***************************************************************************)
EXTENDS FaithfulCompletion, FiniteSets

CONSTANT MaxUnits               \* units in the content of a response

-----------------------------------------------------------------------------
\* One unit of each kind, and the surrogates at the ends of their ranges.
Units ==
  {Unit(<<120>>, <<120>>), Unit(<<58>>, <<58>>), Unit(<<92, 34>>, <<34>>),
   Unit(<<92, 110>>, <<10>>), Unit(<<92, 117, Quad(1)>>, <<1>>),
   Unit(<<92, 117, Quad(233)>>, <<195, 169>>),
   Unit(<<92, 117, Quad(8364)>>, <<226, 130, 172>>),
   Control(10), Half("high", 55357), Half("high", 56319), Half("low", 56832), Half("low", 57343),
   BadUnit(<<92, 117, 120>>)}

\* What the four pairs of surrogates of Units spell in UTF-8.
ASSUME PairsAsWritten ==
  /\ Paired(55357, 56832) = <<240, 159, 152, 128>>
  /\ Paired(55357, 57343) = <<240, 159, 159, 191>>
  /\ Paired(56319, 56832) = <<244, 143, 184, 128>>
  /\ Paired(56319, 57343) = <<244, 143, 191, 191>>

Contents == UNION {[1..n -> Units] : n \in 0..MaxUnits}

\* Texts that are a key, or end in one after a quote.
KeyUnit(k) == <<Unit(<<k>>, <<k>>)>>
KeyTexts ==
  UNION {{KeyUnit(k), <<Unit(<<92, 34>>, <<34>>)>> \o KeyUnit(k)} :
           k \in {FinishReason, PromptTokens, CompletionTokens}}

\* A text that fills more than one hundred characters of a chunk.
LongText == [i \in 1..120 |-> Unit(<<120>>, <<120>>)]

Answers ==
  {Answer(us, f, 200, s) : us \in Contents, f \in {"Stop"}, s \in {0, 17}}
    \cup {Answer(us, "Length", 200, 0) : us \in {<<>>} \cup KeyTexts}
    \cup {Answer(LongText, "Stop", 200, 120)}
    \cup {Answer(<<>>, "Stop", status, s) : status \in {199, 300, 500}, s \in {0, 9}}

PlainAnswer == Answer(<<Unit(<<120>>, <<120>>)>>, "Length", 200, 0)

-----------------------------------------------------------------------------
(***************************************************************************)
(* Requests: variations of one request in up to two members, each with the *)
(* verdict it deserves.                                                    *)
(***************************************************************************)
Absent     == [t |-> "absent"]
String(cs) == [t |-> "string", chars |-> cs]
Number(n)  == [t |-> "number", tenths |-> n]
Array(xs)  == [t |-> "array", items |-> xs]
Message(r, c)  == [t |-> "object", role |-> String(r), content |-> c]
Part(type, c)  == [t |-> "object", type |-> String(type), text |-> String(c)]
Xs(n) == [i \in 1..n |-> 120]

UserRole == <<Word(33)>>
Hello    == Message(UserRole, String(<<120, 34, 10>>))
Said(cs) == <<91>> \o UserRole \o <<93, 10>> \o cs \o <<10, 10>>

Base == [t |-> "object", stream |-> Absent, model |-> Absent, temperature |-> Absent,
         max_completion_tokens |-> Absent, max_tokens |-> Absent,
         lite_llm |-> Absent, messages |-> Array(<<Hello>>)]

Session(v) == [t |-> "object", session_id |-> v]

\* [member, value, is it acceptable, the turns it makes]
Change(member, value, good) ==
  [member |-> member, value |-> value, good |-> good, turns |-> Said(<<120, 34, 10>>)]
Messages(value, good, turns) ==
  [member |-> "messages", value |-> value, good |-> good, turns |-> turns]
Refused(content) == Messages(Array(<<Message(UserRole, content)>>), FALSE, <<>>)

Changes ==
  {Change("stream", String(<<>>), TRUE),
   Change("model", String(Xs(256)), TRUE), Change("model", String(Xs(257)), FALSE),
   Change("model", String(<<>>), FALSE), Change("model", Number(10), FALSE),
   Change("temperature", Number(0), TRUE), Change("temperature", Number(20), TRUE),
   Change("temperature", Number(21), FALSE), Change("temperature", Number(-1), FALSE),
   Change("max_completion_tokens", Number(10), TRUE),
   Change("max_completion_tokens", Number(10 * 2^20), TRUE),
   Change("max_completion_tokens", Number(10 * 2^20 + 10), FALSE),
   Change("max_completion_tokens", Number(15), FALSE),
   Change("max_completion_tokens", String(<<>>), FALSE),
   Change("max_tokens", Number(20), TRUE), Change("max_tokens", Number(0), FALSE),
   Change("lite_llm", String(<<>>), FALSE), Change("lite_llm", Session(Absent), TRUE),
   Change("lite_llm", Session(String(Xs(256))), TRUE),
   Change("lite_llm", Session(String(Xs(257))), FALSE),
   Change("lite_llm", Session(String(<<>>)), FALSE),
   Messages(Absent, FALSE, <<>>), Messages(Array(<<>>), FALSE, <<>>),
   Messages(Array(<<Hello, Hello, Hello>>), FALSE, <<>>),
   Messages(Array(<<Hello, Message(<<97>>, String(<<1>>))>>), TRUE,
     Said(<<120, 34, 10>>) \o <<91, 97, 93, 10, 1, 10, 10>>),
   Messages(Array(<<Message(<<32>>, String(<<>>))>>), FALSE, <<>>),
   Messages(Array(<<Message(Xs(33), String(<<>>))>>), FALSE, <<>>),
   Messages(Array(<<Number(10)>>), FALSE, <<>>),
   Refused(Absent), Refused(Array(<<>>)), Refused(Array(<<Part(TextType, <<>>)>>)),
   Refused(Array(<<Part(<<97>>, <<120>>)>>)),
   Messages(Array(<<Message(UserRole,
     Array(<<Part(TextType, <<>>), Part(TextType, <<92>>), Number(10),
             Part(TextType, <<>>)>>))>>), TRUE, Said(<<92, 10>>))}

Apply(r, c) == [r EXCEPT ![c.member] = c.value]

\* A bad max_tokens is not looked at when max_completion_tokens is given.
Counts(c, d) == ~(c.member = "max_tokens" /\ d.member = "max_completion_tokens")

TokensOf(r) ==
  CASE Given(r.max_completion_tokens) -> r.max_completion_tokens
    [] ~Given(r.max_completion_tokens) /\ Given(r.max_tokens) -> r.max_tokens
    [] OTHER -> Number(5120)

Scenario(file, r, rt, a, valid, turns) ==
  [file |-> file, root |-> r, runtime |-> rt, response |-> Response(a),
   answer |-> a, valid |-> valid, turns |-> turns]

\* A configuration with an API key, and one whose endpoint is not https.
Config   == Key(ApiKey) \o <<Colon, Quote, 120, Backslash, 110, Quote>>
BadUrl   == Config \o Key(Endpoint) \o <<Colon, Quote, 120, Quote>>
Configs  == {Config, BadUrl, SubSeq(Config, 1, Len(Config) - 1), <<>>,
             Key(ApiKey), Config \o Key(Model) \o <<Colon, Null>>,
             Config \o Key(Endpoint)
               \o <<Colon, Quote, Https, 120, Colon, 57, SlashChar, 120, Quote>>}

HelloTurns == Said(<<120, 34, 10>>)

MCScenarios ==
  {Scenario(Config, Apply(Apply(Base, c), d), "DeepSeek", PlainAnswer,
            (c.good \/ ~Counts(c, d)) /\ (d.good \/ ~Counts(d, c)),
            IF d.member = "messages" THEN d.turns ELSE c.turns) :
     <<c, d>> \in {p \in Changes \X Changes : p[1] = p[2] \/ p[1].member # p[2].member}}
    \cup {Scenario(Config, [t |-> t], "DeepSeek", PlainAnswer, FALSE, <<>>) :
            t \in {"unparsable", "array"}}
    \cup {Scenario(Config, Base, "DeepSeek", a, TRUE, HelloTurns) : a \in Answers}
    \cup {Scenario(f, Base, "DeepSeek", PlainAnswer, TRUE, HelloTurns) : f \in Configs}
    \cup {Scenario(Config, Base, rt, PlainAnswer, TRUE, HelloTurns) :
            rt \in {"throws"} \cup GenerateStatuses}

-----------------------------------------------------------------------------
\* A request is generated exactly when it is a valid chat request, at every
\* limit of every member and for every pair of members; the runtime is given the
\* limits the request asks for, and the turns of the conversation in order.
ValidIsGenerated ==
  /\ response.code = "invalid_request" => ~scenario.valid
  /\ stage \in {"generate", "write", "read", "respond"} =>
       /\ scenario.valid
       /\ ReadGenerationConfig(root).max_new_tokens * 10 = TokensOf(root).tenths
       /\ Prompt(root) = scenario.turns \o <<91>> \o AssistantRole \o <<93, 10>>
=============================================================================
