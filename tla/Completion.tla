----------------------------- MODULE Completion -----------------------------
(***************************************************************************)
(* One generation from end to end: LiteLlm's Process (src/src/lite_llm.cpp) *)
(* on the worker, with the DeepSeek runtime below it, or another           *)
(* implementation of InferenceRuntime that only returns a status.          *)
(*                                                                         *)
(* A scenario is what the program meets: the configuration file, the       *)
(* request, the runtime it is linked with, and the HTTP response the       *)
(* upstream has for it.  The upstream may close or reset the connection    *)
(* after any part of that response.                                        *)
(***************************************************************************)
EXTENDS ChatRequest, DeepSeekRuntime

CONSTANTS
  Scenarios,      \* records with file, root, runtime and response
  Pieces          \* how many characters one read or write moves at most

GenerateStatuses ==
  {"Ok", "InvalidArgument", "ContextTooLong", "OutOfMemory", "InternalError"}

ASSUME CompletionAssumption ==
  /\ Pieces \in Nat \ {0}
  /\ \A s \in Scenarios : s.runtime \in {"DeepSeek", "throws"} \cup GenerateStatuses

VARIABLES
  scenario,
  stage,          \* where CreateFromConfig, Process and Generate are
  runtime,        \* apiKey_, model_ and endpoint_
  upstream,       \* characters of the request body the upstream has received
  got,            \* characters of the response that ReadAll has appended
  result,         \* GenerateResult
  response        \* GenerateResponse

vars == <<scenario, stage, runtime, upstream, got, result, response>>

\* Statuses and codes of ErrorResponse; the message is left out.
ErrorResponse(status, code) == [status |-> status, code |-> code]

Init ==
  /\ scenario \in Scenarios
  /\ stage = "create" /\ runtime = <<>> /\ upstream = <<>> /\ got = 0
  /\ result = NoResult /\ response = ErrorResponse(0, "")

root == scenario.root

-----------------------------------------------------------------------------
\* CreateFromConfig throws, because of the file or of its contents, and
\* Initialize fails; or the runtime is there and a request arrives.
Create ==
  /\ stage = "create"
  /\ runtime' = CreateFromConfig(scenario.file)
  /\ stage' \in {"failed"} \cup (IF runtime'.ok THEN {"parse"} ELSE {})
  /\ UNCHANGED <<scenario, upstream, got, result, response>>

Parse ==
  /\ stage = "parse"
  /\ IF ParseRequest(root)
     THEN stage' = "generate" /\ UNCHANGED response
     ELSE stage' = "responded" /\ response' = ErrorResponse(400, "invalid_request")
  /\ UNCHANGED <<scenario, runtime, upstream, got, result>>

\* Mutant: Process leaves the default response when the runtime throws.
CaughtSilently == UNCHANGED response

Caught == response' = ErrorResponse(500, "internal_error")

\* Another runtime returns a result, or throws into Process.
OtherRuntimeGenerates ==
  /\ stage = "generate" /\ scenario.runtime # "DeepSeek"
  /\ IF scenario.runtime = "throws"
     THEN stage' = "responded" /\ Caught /\ UNCHANGED result
     ELSE /\ stage' = "respond" /\ result' = [NoResult EXCEPT !.status = scenario.runtime]
          /\ UNCHANGED response
  /\ UNCHANGED <<scenario, runtime, upstream, got>>

-----------------------------------------------------------------------------
(***************************************************************************)
(* DeepSeekRuntime::Generate and TlsConnection::Post.  Every exception     *)
(* ends in a result with status InternalError.                             *)
(***************************************************************************)
EscapeJson(v) == Escaped(v)

\* The members of the request body that depend on the call.
RequestBody ==
  Key(Model) \o <<Colon, Quote>> \o EscapeJson(runtime.model) \o <<Quote>>
    \o Key(Content) \o <<Colon, Quote>> \o EscapeJson(Prompt(root)) \o <<Quote>>

Throw == stage' = "respond" /\ result' = NoResult

\* ParseHttpsUrl, and everything up to the end of the TLS handshake.
Connect ==
  /\ stage = "generate" /\ scenario.runtime = "DeepSeek"
  /\ \/ ParseHttpsUrl(runtime.endpoint).ok /\ stage' = "write" /\ UNCHANGED result
     \/ Throw
  /\ UNCHANGED <<scenario, runtime, upstream, got, response>>

\* WriteAll: mbedtls_ssl_write takes some of what is left, or fails.
Write ==
  /\ stage = "write"
  /\ \/ \E n \in 1..Pieces :
          /\ Len(upstream) + n \leq Len(RequestBody)
          /\ upstream' = SubSeq(RequestBody, 1, Len(upstream) + n)
          /\ stage' = IF upstream' = RequestBody THEN "read" ELSE "write"
          /\ UNCHANGED result
     \/ Throw /\ UNCHANGED upstream
  /\ UNCHANGED <<scenario, runtime, got, response>>

\* ReadAll appends what mbedtls_ssl_read returns.
Read ==
  /\ stage = "read"
  /\ \E n \in 1..Pieces : got' = got + n
  /\ got' \leq Len(scenario.response)
  /\ UNCHANGED <<scenario, stage, runtime, upstream, result, response>>

\* The upstream closes or resets the connection, after all of its response or
\* before: for ReadAll this is the end of the response.  A timeout or another
\* error is an exception.
ReadEnds ==
  /\ stage = "read"
  /\ \/ stage' = "respond" /\ result' = ResultOf(SubSeq(scenario.response, 1, got))
     \/ Throw
  /\ UNCHANGED <<scenario, runtime, upstream, got, response>>

-----------------------------------------------------------------------------
\* In 64 bits.
TotalTokens(r) == r.prompt_tokens + r.generated_tokens

\* The id and the time of creation are left out.
CompletionResponse(model, r) ==
  [status |-> 200, code |-> "", model |-> EscapeJsonString(model),
   content |-> EscapeJsonString(r.text), finish_reason |-> r.finish_reason,
   prompt_tokens |-> r.prompt_tokens, completion_tokens |-> r.generated_tokens,
   total_tokens |-> TotalTokens(r)]

RuntimeErrorResponse(status) ==
  CASE status = "InvalidArgument" -> ErrorResponse(400, "invalid_argument")
    [] status = "ContextTooLong"  -> ErrorResponse(400, "context_too_long")
    [] status = "OutOfMemory"     -> ErrorResponse(503, "out_of_memory")
    [] OTHER                      -> ErrorResponse(500, "internal_error")

LocalModel == <<Word(32)>>      \* lite-local

Respond ==
  /\ stage = "respond"
  /\ response' = IF result.status = "Ok"
                 THEN CompletionResponse(IF Given(root.model) THEN root.model.chars
                                         ELSE LocalModel, result)
                 ELSE RuntimeErrorResponse(result.status)
  /\ stage' = "responded"
  /\ UNCHANGED <<scenario, runtime, upstream, got, result>>

\* The call is answered, or there is no runtime to answer it.
Done == stage \in {"responded", "failed"} /\ UNCHANGED vars

Next == \/ Create \/ Parse \/ OtherRuntimeGenerates \/ Connect \/ Write
        \/ Read \/ ReadEnds \/ Respond \/ Done

Spec == Init /\ [][Next]_vars
=============================================================================
