# A TLA+ verification of LiteLlm

This directory models and verifies the programs of the repository: the `LiteLlm`
facade, which runs one inference at a time on a worker thread; `lite-server`, from
its command line to the bytes of its connection and the callbacks that answer on
it; one generation from the members of a chat request through the DeepSeek
runtime to the response; the JSON parser; and the conversation of `lite-llm-chat`.

## 1. The system

| Component | State it keeps | Operations | Interacts with |
|---|---|---|---|
| `LiteLlm::Impl` (`src/src/lite_llm.cpp`) | `runtime_`, `worker_`, the one-job slot `job_`, `busy_`, `stopping_`, all under `mutex_` | `Initialize`, `GenerateAsync`, `Shutdown`, `WorkerLoop` | calls the runtime and the callbacks, from the worker or inline |
| Inference runtime (`runtime/include`) | the model | `CreateFromConfig`, blocking `Generate` | called by the worker without a lock |
| `ReverseClient` (`lite_server/src/reverse_client.cpp`) | the descriptor, the reconnect delay, and per session `closing`, `pending_callbacks`, `state_mutex`, `send_mutex` | `Run`, `Connect`, `RunSession`, `HandleMessage`, `CloseSession`, the completion callback | `GenerateAsync`; the proxy through the socket |
| `main` (`lite_server/src/main.cpp`) | `stopRequested` | option parsing, signals, start and shutdown order | owns the facade and the client |
| Protocol codec (`protocol_codec.cpp`) | none | frame encoding and decoding, message building | `ReverseClient` |
| JSON parser (`json_value.cpp`, two copies) | none | parsing | request validation, `HandleMessage` |
| Request validation (`lite_llm.cpp`) | none | `ParseRequest`, response building | `Process` |
| DeepSeek mock runtime (`runtime/mock`) | one HTTPS exchange per call | `Generate` | the facade, the chat tool |
| `lite-llm-chat` (`tools`) | the conversation | prompt loop | the runtime, directly |

What is hard here, and what makes each part correct:

* **Facade.** Three kinds of threads meet at one mutex, and the important work
  happens outside it: the runtime is created between two critical sections of
  `Initialize`, `Generate` runs on a pointer read without the lock, `join` is
  called after the thread was moved out of `worker_`, `busy_` is cleared before
  the callback. Correctness: the runtime outlives `Generate`; an accepted call
  is never dropped and never called back twice; `Shutdown` returns and leaves
  nothing running; the admission flag is exact.
* **lite-server.** Callbacks of a session run while the main thread closes it and
  opens the next one on the same descriptor number; both threads write frames;
  the proxy may stop reading, close, or reset at any point; a signal may come at
  any point. Correctness: no callback uses a descriptor that is closed or belongs
  to another connection; frames are not interleaved; responses go to the
  connection that asked; the backoff is bounded; the server stops and reconnects.
* **A connection.** The proxy's bytes arrive in pieces; one deadline covers the two
  parts of a frame; a signal may be handled on another thread and interrupt
  nothing, also between the last look at its flag and the handling of a frame; a
  `send` waits for a proxy that reads. Correctness: what is handled is what was
  sent, whole and in order; the handshake ends in time; after a stop request nothing
  is handled that had not been received before it, and the process ends unless the
  proxy holds it up.
* **A generation.** The runtime reads its configuration and the HTTP reply by
  searching for keys, takes the end of the connection for the end of the reply and
  decodes chunks and escapes itself. Correctness: only valid requests are generated;
  the prompt arrives as it was; no answer is cut or altered on its way.

The list `hazards` of `PROJECT.json` names each such place with its line and the
properties aimed at it.

## 2. The modules

| Module | What it is |
|---|---|
| `GenerationService` | abstract: what a caller of `GenerateAsync` may rely on |
| `LiteLlm` | the facade, one action per critical section; properties and invariants |
| `LiteLlmProofs` | theorems about `LiteLlm`, checked by TLAPS |
| `MCLiteLlm` | instances of `LiteLlm` for TLC |
| `ReverseClient` | lite-server, composed with `GenerationService` |
| `ReverseClientProofs` | theorems about `ReverseClient` |
| `MCReverseClient` | instances of `ReverseClient` for TLC |
| `JsonParser` | the recursive descent of `ParseJson` over tokens |
| `JsonParserProofs` | theorems about `JsonParser` |
| `JsonText` | the reference: what a JSON text is and what it denotes |
| `JsonString` | `ParseString`, `EscapeJsonString`, surrogates and UTF-8, as operators |
| `ChatRequest` | `ParseRequest` and its helpers, as operators over JSON values |
| `DeepSeekRuntime` | the searches and decoders of the mock runtime, as operators |
| `Completion` | one generation: `Process`, `Generate`, the HTTPS exchange, the response |
| `FaithfulCompletion` | what an answer of the upstream means, and the properties of `Completion` |
| `CompletionProofs` | theorems about `Completion`, strings and responses |
| `MCCompletion` | scenarios for `Completion`, and which requests deserve a generation |
| `FrameStream` | one connection of lite-server, byte by byte |
| `ServerMain` | `main` of lite-server around `FrameStream`: command line, signals, exits |
| `ServerCommandLine` | what a command line means, without arithmetic |
| `RecursionLemmas` | induction, and functions defined by recursion over an interval or by size |
| `FrameStreamProofs` | lemmas about the frames of a byte stream |
| `ServerMainProofs` | theorems about `ServerMain` and the connection |
| `MCServerMain` | command lines and proxies for `ServerMain` |
| `ChatSession` | `lite-llm-chat`: its command line, conversation, input and exits |
| `ChatSessionProofs` | theorems about `ChatSession` |

### `GenerationService`

One variable, `phase[r]`: a call is new, then rejected, or active, completing and
done. At most one call is active; the delivery of an answer (`completing`) may
overlap the next active call, but not the next delivery. This is exactly what the
facade does: `busy_` is cleared before the callback is invoked.

### `LiteLlm`

The members of `Impl` are variables of the same names. A runtime and the worker
thread started for it share a name from `Instances`; `cpc`, `made` and `joining`
are the program counter and locals of the threads that call `Initialize` and
`Shutdown`; `wpc`, `wjob` and `wruntime` those of the workers. `admitted`,
`response` and `calls` record what happened to each call. `aborted` records
`std::terminate` (assignment to a joinable thread), a null runtime, or `Generate`
faulting on a destroyed runtime; nothing happens after it. In detail:

* `Initialize`: `InitializeCheck`, then `RuntimeCreated` or `RuntimeNotCreated`
  (unlocked), then `InitializeCommit`, or `InitializeThreadFails` and
  `InitializeRollback`, which is a second critical section in the code.
* `GenerateAsync`: `GenerateAsyncAccepts` or `GenerateAsyncRejects`, and
  `RejectionCallback` after the lock is released. The calling thread is left
  open, so calls from within callbacks are included.
* `Shutdown`: `ShutdownWithoutWorker`, or `ShutdownBegin`, `ShutdownJoin`,
  `ShutdownFinish`. A worker that joins itself gets an exception and is detached.
* `WorkerLoop`: `WorkerSleeps`, `SpuriousWakeup`, `WorkerTakesJob`, `WorkerExits`,
  `ParseRequestFails`, `GenerateCalled`, `GenerateReturns`, `GenerateFaults`,
  `WorkerReleases`, `WorkerCallback`, `WorkerChecks`.

Abstracted: request bodies (to whether `ParseRequest` accepts them), responses
(to their code; `Completion` has both), a call with an empty callback (it changes nothing), `Initialize`
refusals (they change nothing).

### `ReverseClient`

The main thread's program counter follows `Run`, `RunSession` and `HandleMessage`;
`cb[r]` follows the lambda passed to `GenerateAsync`, on the worker for accepted
calls and inline (main thread at `inline`) for rejected ones. Critical sections of
`state_mutex` are single actions; `send_mutex` is a variable because it is held
across several `send` calls. A frame is written in two parts. `fd` is the
connection to which the single descriptor number refers: a callback that used the
descriptor after it was closed would write to whatever connection `fd` then names.
LiteLlm is `GenerationService`, with the facade's reason for rejecting a call (one
is active) as an extra guard; `LlmShutdown` waits as `Shutdown` does.

The proxy is the environment: messages arrive at any time (`ReceiveChatRequest`,
`ReceiveControl`, `ReceiveInvalid`, `HelloAcknowledged`), it may close or reset the
connection (`PeerLeaves`), and stop or resume reading (`PeerStalls`,
`PeerResumes`). Sending fails only on a broken connection, as TCP does; a `send`
error on a healthy connection is not modelled. Where `MayThrow` holds, a callback may
end by an exception (`CallbackThrows`): `InvokeCallback` swallows it, LiteLlm goes
on, and the session counts that callback for ever. `failures` is a history variable
for the backoff. Abstracted: message texts, the bytes of a frame and the length of
timeouts (`FrameStream` has these two; here each may end at any time).

### `JsonParser`

The text is a sequence of tokens, chosen one at a time as the parser reads it, so
that every text up to the bound is tried and no state is spent on what follows an
error. `stack` holds the activations of `ParseArray` and `ParseObject`, `built`
what each has filled; `pc` is the place in the innermost one. Strings, numbers and
literals are complete tokens (`JsonString` has the characters of strings), and `bad`
stands for every character sequence at which one of them fails. Error messages are left out. Between tokens the code
skips whitespace wherever it looks at a character, except that `ParseValue` first
compares the depth. `JsonText` states what a JSON text is without parsing:
each token fits the bracket around it and the one or two tokens before it; and
what it denotes, by splitting it at its outermost commas.

An observation the model makes precise: the limit counts the brackets around a
*value*, so an empty container may be one level deeper than any other value.

### `JsonString`, `ChatRequest`, `DeepSeekRuntime`, `Completion`

A text is a sequence of numbers: bytes; words, each standing for letters that are
only ever compared as a whole, such as the name of a key; and quads, the four
hexadecimal digits of a `\u` escape. The digits that name the size of a chunk are one
character too, for a size without a bound: one that is too wide for `strtoul` is larger
than the body, and fails as any such size does. `EscapeJsonString` exists three times in the
repository and the loop of `ParseString` three times (once in the runtime, where
control characters may stand unescaped); each is one operator here.

A JSON value in `ChatRequest` is a record with the members the code looks up.
Temperatures are in tenths, which is enough to tell the bounds 0 and 2 and a token
limit that is not an integer.

`Completion` follows one call: `Create` (the configuration), `Parse`, then
`OtherRuntimeGenerates` (any status, or an exception) or `Connect`, `Write`, `Read`
and `ReadEnds` of the DeepSeek runtime, and `Respond`. The connection takes the
request and gives the response in pieces, and may fail, close or be reset at any of
them; a reset is an ordinary end, as in `ReadAll`. A scenario fixes what the call
meets. The upstream is external: its members come in the order of an OpenAI
response (choices, then usage). Left out: ids, times, error messages, headers that
are not read, the temperature and limit in the upstream request (they follow the
content and no search looks for them).

`FaithfulCompletion` says what an upstream's answer means without the code's
functions. A content is a sequence of units: a character, a short escape, a quad, a
raw control character, half of a surrogate pair, or an escape that nothing follows
rightly. `Raw` is what the upstream writes for it, `Denoted` the UTF-8 it stands
for: the bytes of a unit have to be the shortest form of its code point (`IsUtf8`),
those of a pair are put together from the bits of its halves (`Paired`, without the
detour over a code point that the code takes). `Response` is the HTTP response around
it. `ScenariosAssumption` says that a scenario's response is that of its answer, of
any length, and nothing about the file or the request but that strings are
characters. `MCCompletion` has the scenarios of the run and, written next to each
variation of a request, the verdict it deserves.

### `FrameStream` and `ServerMain`

`FrameStream` is `SendAll`, `SendFrame`, `ReceiveFrame`, `PerformHandshake`, `RunSession`
and `CloseSession` on one connection. `pc` is `send`, `check` (the loop condition of
`receive_exact` and what follows it), `poll`, `recv` or `handle`; `ended` is the
session's end with its reason in `error`, `closing` the wait of `CloseSession`.

`receive_exact` tests the stop flag for the last time when a part is complete.
`PayloadReceived` is that test and the copy of the payload; `HandleFrame` is
a step of its own, so that a signal may come in between: the frame is handled then,
with the flag set. Of `HandleMessage` there is what matters to the connection: whether
it sends, fails, or hands a call to LiteLlm, which accepts it (`AcceptCall`) or calls
back at once (`RejectCall`). `CallbackBegins`, `CallbackSends` and `CallbackFails` are a
callback on LiteLlm's worker; `pending` and `closing` are those of `SessionState`, and
`working` counts the calls the worker is not done with, which `LiteLlm::Shutdown` waits
for. Who holds `send_mutex`, and on which connection a response goes, is
`ReverseClient`'s: the two senders do not exclude each other here.

The proxy writes its script in pieces of any size once it has the whole
hello. After each `send` the socket may take no more (`writable`), and `send` blocks,
on either thread, until the proxy reads (`ProxyReads`) or breaks the connection. Time
passes only in `Tick`, while `poll` waits and nothing is readable: the
thread's own steps take none, so a deadline can be stated. A frame that lite-server
sends is a number of bytes, which is what its limit is about.

`ServerMain` puts `main` before and around it: `ParseHelp`, `ParseRefuses`,
`ParseOption` and `ParseEnds` are one iteration or the end of `ParseArguments`;
`Initialized`, `Connects` and `RunReturns` lead to the connection and back, and
`LlmShutdown` is the join of LiteLlm's worker before `main` returns;
`Signal` ends the process before the handlers are installed and sets the flag
afterwards, interrupting `poll` or not, since the handler may run on the worker.
An argument is a record: a word, its decimal digits, and how many of its bytes JSON
escapes in two or six characters. One connection is modelled; what `Run` does
between connections is `ReverseClient`'s. `passed` is a history variable: how many
frames had passed the last look at the flag when the signal came. `ServerCommandLine`
states what a command line means over decimal digits, comparing numbers as strings.

### `ChatSession`

`ParseArguments` takes any sequence of arguments. Then one action per line read, by kind, and one per outcome of a generation. `draft` is
`prompt` as its lines, `history` and `session` are those of `RunInteractive`;
`freshLine` says where standard output stands. `typed` and `calls` are history
variables to compare what was sent with what was typed. The runtime is external:
it returns any text or fails, and writes the text as it generates it, so it may
fail after it has written part of it. Then the line stays open at the next prompt,
since only the successful path calls `FinishStreamedResponse`; the bundled mock
writes after a success only. The property is therefore about answered turns.

## 3. The runs

Bounds are the CONSTANTS of each `.cfg`.

| Run | Checks | Shows |
|---|---|---|
| `llm_owned` | 3 calls, 1 owner, 2 runtimes, fairness | under the usage lite-server makes of the facade, all its safety properties across a Shutdown and a second Initialize; every Shutdown returns, and the facade implements `GenerationService!FairSpec`: every call is answered, once |
| `llm_shared` | 3 calls, 2 threads that initialize and shut down, callbacks that call Shutdown | what survives any usage: at most one callback per call; `shutting_down` is never answered |
| `llm_two_owners` (violation) | 2 calls, 2 threads, 1 runtime | a concurrent Shutdown destroys the runtime under `Generate` |
| `llm_callback_shutdown` (violation) | 2 calls, only callbacks call Shutdown | a callback's Shutdown cannot join its own worker and drops the call accepted meanwhile |
| `client_safe` | 2 requests (one with an oversized response), 2 sessions, 1 control message, callbacks may throw | descriptor lifetime, whole frames, answers on the right connection, exact pending count, backoff |
| `client_live` | as above, 1 session, fairness | if the proxy keeps reading and no callback throws: stop ends the process, lost sessions end, requests are answered or their session closes |
| `client_stalled` (violation) | 1 request, 1 session, fairness | a proxy that never reads again prevents the exit |
| `client_oversized` (violation) | 2 requests, 1 session, fairness | an oversized response is never answered |
| `json` | texts of up to 9 tokens, nesting limit 2 | the parser accepts exactly the JSON texts within the limit, returns what they denote, fails at the first wrong token |
| `chat` | up to 5 arguments, 7 input lines, 2 lines and 3 replies | the command line is taken as written; every call sends its session's answered turns and the lines just typed, in order; lines the input ends with are sent, and the exit status tells whether that failed |
| `completion` | pairs of 33 variations of a request, contents of up to 3 of 13 units and those that are the name of a key, one text of 120 characters, one body or two chunks, pieces of 1 or 2 characters | valid requests and no others are generated, with their limits; the upstream gets the prompt; a completion has the whole text; strings are accepted exactly when they are Unicode |
| `server` | up to 5 options of which the last two vary over every bound, 11 byte streams, polls of 2 and a deadline of 3 ticks, fairness | options as written, frames as sent, deadline, no frame handled after a signal unless `ReceiveFrame` was done with it, a signal ends the process if the proxy reads or breaks the connection |

Why these bounds suffice to make the cases happen: two runtimes give one full life
of the facade followed by another, so stale state of the first can disturb the
second; three calls allow one in its callback, one in the slot and one being
rejected. Two sessions let a descriptor be reused; two requests give one callback
on the worker with one inline on the main thread, and one control message a frame
of the main thread beside them. `MaxFailures = 2` with delays 2 and 7 covers
an undoubled, a doubled and a cut delay. In `llm_shared` deadlock is not checked:
an aborted process has stopped, and two overlapping Shutdowns can wait forever.
The same holds for the violation runs with several owners.

Nine tokens suffice for an object with the same key twice and for containers one
level beyond a limit of 2, with a member after them; seven lines for a turn that
fails, one that is answered and a `/clear` between turns. Three units hold a surrogate pair with a
neighbour, two high surrogates in a row and an escape next to either; two messages
are one less than too many with `MaximumMessages = 2`. `CountMax = 100` stands for
`UINT32_MAX`: the counts 99 and 12 fit it and their sum does not. A split of 17
cuts the body inside a long content or soon after a short one; the text of 120
characters gives a chunk of that size. In `server` a poll of 2 ticks does not divide the deadline
of 3, so that the deadline passes during a poll; the frame limits are the real
ones, since no payload of such a length has to arrive to test them; streams of two
frames come with the least limit only. In these runs
deadlock is checked: a combination of place and input that no branch handles would
be one.

**Fairness.** In `LiteLlm`, weak fairness on each worker's own steps, on a Shutdown
that has begun and on inline callbacks: threads are scheduled, and `Generate` and
callbacks return. Spurious wake-ups are possible but never relied on; nobody is
obliged to call anything. In `ReverseClient`, weak fairness on the main thread and
on each callback (connect, handshake and sleep are bounded by timeouts in the
code), and strong fairness on obtaining `send_mutex` and on a `send` to a socket
that becomes writable again and again. The proxy has no fairness: where it
matters, the property says so (`Undisturbed`, which also excludes callbacks that
throw). In `ServerMain`, weak fairness on the steps of `main`, on those of the
connection, with time passing while `poll` waits as one of them, and on LiteLlm's
worker, on which `Generate` returns; the proxy owes nothing, not even its first byte.
That it does not leave a sender waiting for ever is the premise of `SignalEndsIfRead`,
not fairness: `client_stalled` shows what happens otherwise. A `poll` that fails and a connection that is refused are possible and
never relied on.

Every property of a passing run has a mutant of the model, an operator next to the
definition it replaces (marked `Mutant:`), that TLC refutes.

## 4. What is proved

Every safety property that the passing runs check of `LiteLlm`, `ReverseClient`,
`JsonParser`, `ServerMain` and `ChatSession`, and all but one of `Completion`, is also
a theorem, for all values of the constants. Each proof goes through an inductive invariant that
TLC checked first; where the invariant is large it is built in layers, each
preserved given the ones before it, and a lemma per layer has one step per action.

**`LiteLlmProofs`**, for any sets of calls, threads and runtimes, under
`ConstantsAssumption` only (`None` is not a call, a runtime or a response; threads
that control the facade are not its workers; statuses are those of the enum):

* `TypeCorrect`: `Spec => []TypeOK`. `TypeOK` is not inductive, because
  `InitializeCommit` starts the worker of the runtime it holds: `FreshInstances`
  adds that this worker has never run and that nobody else holds that runtime.
* `AnsweredAtMostOnce`: `Spec => []CallbackAtMostOnce`, for every usage. The
  strengthening `OnePlacePerJob` says that a job that is not answered is in the
  slot or with one worker, never both.
* `NotReadyDuringShutdown`: `Spec => []ShuttingDownNeverAnswered`, for every
  usage, from `StoppingHasNoWorker`.
* `OwnedSafety`, under `SingleOwner` (one controlling thread, no Shutdown from
  callbacks): `RuntimeOutlivesGeneration`, `AcceptedNotLost`, `BusyExact`,
  `QuietAfterShutdown` and `NoAbort`. The inductive invariant adds
  `OneLiveWorker` (the one live worker is `worker_` or the one being joined, and
  it runs on the current runtime; the owner is inside Initialize or Shutdown only
  while `worker_` is empty) and `SlotServed` (a job in the slot has a live worker,
  which is not processing another). The violation runs show that `SingleOwner` is
  needed. `RuntimeKept`, `AcceptedCallsKept`, `BusyIsExact`, `ShutdownLeavesNothing`
  and `NeverAborts` state its parts one by one.
* `AdmissionStopsAtShutdown`: the action property `AdmissionStopped` under
  `SingleOwner`. No run checks it.
* `FacadeImplementsService`: `Spec => Service!Spec` under `SingleOwner`, step by
  step, from the same invariant.

**`ReverseClientProofs`**, for any finite set of requests and any numbers of
sessions, control messages and failures. `ClientAssumption` asks for delays that
are positive and ordered, as the options are, and that `MaxFailures`, a bound of
the model, lies beyond the attempt at which the delay reaches its maximum;
`NamesAssumption` keeps the names of threads, requests and frames apart.

* `ControlInv` relates the main thread's place to the descriptor (open exactly in a
  session), and LiteLlm's view of a call to the state of its callback.
* `PendingCorrect`: `CountInv` adds to `PendingExact` that a call that is counted
  belongs to the open connection, and that none is counted in the handshake or when
  the descriptor is about to be closed. `SocketSafe` follows: `CloseSession` goes on
  only when the count is 0, which by exactness means no callback is left.
* `FramesCorrect`: `MutexInv` says who holds `send_mutex`, and `WireInv` that a
  connection ends in half a frame only while the holder is about to send the other
  half, or for good once it is broken. `hello` is sent without the mutex; that this
  is safe needs the part of `CountInv` about the handshake.
* `AnswersCorrect`: `AnswersOnce` adds that a response is on the wire only after its
  callback has begun to send it, so that a second one would need a second callback.
* `ExitSafe`: once `main` has returned no callback runs. The callbacks capture
  `this` (`reverse_client.cpp:304`), so the order of `Run` and `Shutdown` in `main`
  matters. No run checks it.
* `BackoffCorrect`: doubling and cutting one step at a time is doubling n times and
  cutting once. That 2^(n+1) is twice 2^n is not in the library's arithmetic; the
  lemma `PowersOfTwo` gets it by counting subsets.

**`RecursionLemmas`** has induction over the natural numbers with a set in the
place of a predicate, derived from the library's well-foundedness of `<`, and
`FiniteRecursion`: a value and a step define a function on `0..N`. The loops of the
source that the models write as recursive functions over an interval (`Bytes`,
`ParseUnsigned`, `Parsed`, `Answered`) can be reasoned about with it; each has a
lemma that its function exists and satisfies its equation. `SizeRecursion` does the
same for functions whose value depends on those of smaller arguments.

**`FrameStreamProofs`**: `HeaderRoundTrip`, a header decodes to the size that was
encoded, for every size of 32 bits; and where in the stream of a script each of its
strings begins and ends.

**`ServerMainProofs`**, under `StreamAssumption` (a poll and the timeout take
time), `ArgumentsAssumption` (arguments consist of characters, each a digit or not,
escaped in JSON or not) and `ScriptsAssumption`, which says what the flag `frame`
of a string of the proxy means: frames announce their own length within the limit,
the others do not, or are cut and the last. It states the announced length as the
proxy wrote it (`Announced`), and the proof that `DecodeSize` reads it back is a lemma
(`SizeAnnounced`). TLC evaluates all three on the scripts and command lines of its run.

* `ParseUnsignedCorrect`: `ParseUnsigned` returns the number written, for any number
  of digits, if it is at most the maximum, and fails otherwise; no value it computes
  on the way exceeds the maximum.
* `CommandLineCorrect`: the property `AcceptedAsWritten`, for lines of any length. That
  comparing two numbers digit by digit is comparing their values (`AtMostCorrect`) is
  an induction over their digits: what is smaller after some digits stays smaller
  whatever follows. `CommandInv` says that the options read so far are sound, that
  none of them asks for help, and that `options` holds what the line means up to here.
* `DeadlineMet`: `ClockInv` says that the rest of a poll that is waiting still fits.
* `HelloAccepted`: `MainInv` carries the bounds of the options from the command line
  to the connection.
* `FramesCorrect`: `DeliveredInv` and `ReadInv` say where in the stream `ReceiveFrame`
  is: what it has read of a part of a frame is the piece of the stream after the
  frames delivered, whichever way the pieces were cut; a complete part then is the
  header or the payload of the next string of the script. `ClosedAfterDelivery` needs
  that the end of the stream is seen only when all of it has been read.
* `StopRespected`: the invariant `HandledIfPassed`. `PassedInv` says that once the flag
  is set only a frame that is already on its way to `HandleMessage` can still be added
  to those handled. `CallInv` has the types of the calls and callbacks, in a layer of its
  own.
* `TypeCorrect`: from all of these; that `need` is never 0 or beyond the limit comes
  from what a header announces.

**`ChatSessionProofs`**, for any lines, replies, command lines and lengths of input,
under `ChatAssumption` (lines are not commands; a text that ends with a newline is
not empty; the failed outcome is not a text).

* `ConversationCorrect`: `TypedInv` says that the draft is what was typed since the
  last command, and each turn sent what was typed before its `/send` or the end of
  the input; `ConversationInv`, that the history is what was answered in this
  session, that no call is of a later session, and that each call continued what
  was answered before it. The second needs that a call appended to `calls` changes
  nothing that `Answered` says of the earlier ones, which is proved by induction.
* `StartCorrect`: the loop of `ParseArguments` stops only at words that are options.
  The reference says so by the parity of the run of `-j` and `-p` before a word,
  which the proof carries along the loop (`AsWritten`).
* `LinesCorrect`, `StatusCorrect`, `TypeCorrect`: from the same invariant. `StatusCorrect`
  is about the lines the input ends with and about a prompt file (`ExitTellsUnsent`): a
  turn sent with `/send` that failed leaves the status 0 if the input ends after it.

This proof found an overlap in the model: the alternatives of a `CASE` in
`ParseArguments` were not exclusive when help is asked for with an incomplete
command line, and TLA+ leaves open which one is meant, although TLC takes the first.
They are exclusive now, and so are those of `JsonString`, which were written in the
same way.

**`CompletionProofs`**, for any scenarios that satisfy `ScenariosAssumption`: contents
of any length, prompts and model names of any characters, requests and responses in
pieces of any size, a connection that ends anywhere. One assumption is a bound of the
model: `CountMax` is at least 99, so that the counts of a response fit.

* `InductiveInvariant`: `CompletionInv` says which configuration, how much of the
  request and of the response, which result and which response the call has in each
  of its stages. The steps preserve it easily. What is proved with effort is what the
  functions of the code return, given what they are applied to.
* `RequestFaithful` and `StringsFaithful`: `EscapeJsonString` and `ParseString` are
  inverse, and `ParseString` and its lenient copy read exactly the spellings they
  should. A loop that calls itself behind the characters it has read is not a
  recursion over an interval; `BackwardRecursion` shows that such a function exists
  for every text, and `StringLoopEquation` says what it returns at a position. Each
  kind of unit then has a lemma (what the loop does where the unit stands), and the
  induction over units (`SpelledRead`) treats a pair as one step of two units.
* `ResponsesFaithful`, in three parts: where the searches for keys end in a body that
  may be cut anywhere, and whose text may hold any characters, the keys among them;
  what `DecodeChunkedBody` returns of two chunks, of any sizes, that are cut anywhere; and from both
  what each of the results of `Generate` says about the answer. `UsageFaithful` needs
  the exception that it states: a text that ends in a count's name is found in the
  place of its key.
* `AnswersComplete`: a readable answer that arrives whole becomes a completion.
* `TypesCorrect`: from the same invariant.

Two errors of the model were found by these proofs. A content that ends in the name
of a key had been left out of the scenarios, and the properties were false for it;
they state the exception now and scenarios contain it. And the model had taken the
runtime's reader for one that refuses raw control characters; it accepts them.

**`JsonParserProofs`**, for any strings, scalars, nesting limit and length of text,
under `ParserAssumption` (the kinds of tokens are kept apart).

* `ParserTypeCorrect` (nothing is consumed past the end of the text) and
  `ParserRecursionBounded` (at most one container more than the limit is open). The
  inductive invariant adds `PlaceMatchesStack`: the places inside a container are
  reached with one on the stack, without which leaving a container could not be
  shown to shorten the stack.
* `ParserExact`: `Spec => []ParsesExactlyJson`. The reference looks at positions of the
  text, the parser at its stack, so `Tracked` gives each activation the position of its
  bracket and of its last comma: these are the brackets that are open
  (`Brackets`, by their depths) and the commas in no further one (`Commas`), a
  bracket that is open in a member stands behind its key and its colon (`Progress`), and
  the place fits the tokens before it (`AtPlace`). From this, a token fits
  the text exactly if the parser goes on with it (`NextFits`, `RejectsToken`).
  `Readable` says that what is read can go on to a JSON text; its exception
  is the colon behind which `ParseValue` is about to find that it is too deep.
  `Building` says what each activation has built: what the parts before its last comma
  denote, and after an item all of its parts. It is kept because a part is
  the last one until its comma is read (`PartsGrow`) and because a container that closes
  is what its text denotes (`ContainerDenoted`).
  `Parts` and `Denotes` are recursions by the length of a text. Values nest without a
  bound and so there is no set of them; that `Denotes` exists (`DenotesEquation`) is
  proved by glueing the functions that are right up to each length.

Only model-checked:

* all liveness, and the fairness part of the refinement: fairness and ENABLED are
  out of the prover's reach;
* `ValidIsGenerated`, whose verdicts `MCCompletion` writes next to each variation of a
  request. Stated for every request it would be `ParseRequest` once more.

## 5. What the code and its documents disagree on

Recorded as `findings` in `PROJECT.json`, each with its run: Shutdown is not safe
to call concurrently with itself; a Shutdown from a callback can drop an accepted
call; a stalled proxy prevents termination; an oversized response closes the
session without an answer.

Also visible in the models, without a run of its own:

* The `shutting_down` answer is unreachable (proved).
* `src/design/README.md:48` says "requests are never queued": a call accepted while
  the previous callback runs waits in the slot for it.
* A callback that throws keeps its session open for ever and with it the process:
  `Undisturbed` has to exclude it.
* A token within its 512 bytes can make every hello too long when the frame limit
  is at its least and JSON escapes the token's bytes; the server then reconnects
  without end. `HelloFits` says that no other token can.
* A signal that arrives before `main` has installed its handlers ends the process
  with the signal's default action, while Initialize loads the model.
* A reply without chunks that is cut after its content is a completion: with the
  finish reason `stop` although the upstream said `length`, and with counts that are
  0 or have lost digits (`UsageFaithful`, a part of `CompletionFaithful`, states what
  they may be). The text is never cut (`TextWhole`, another part).
* An answer whose text is `finish_reason`, or ends in it after a quote, is found in the
  place of the key and the call fails with 500; `WholeAnswerCompletes` excludes exactly
  such texts. A text that ends in the name of a count is likewise taken for that
  count's key, and the count is 0 (`UsageFaithful`).
* The runtime's own string decoder accepts raw control characters, which JSON forbids
  and `ParseString` refuses; what it returns for the rest is the same.

## 6. Not modelled, and the plan

The plan is carried out.

Left out for good: build and deployment scripts, logging and wording; the TLS
library and the sockets below `send`, `recv` and `poll`, of which only the outcomes
are modelled; the conversion of numbers by `strtod`; the vendor's runtime library,
whose source is not in the repository; and memory exhaustion outside the places
where the code handles an exception.
