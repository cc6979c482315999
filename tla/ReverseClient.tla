--------------------------- MODULE ReverseClient ---------------------------
(***************************************************************************)
(* lite-server (src/lite_server/src/reverse_client.cpp and main.cpp): the  *)
(* main thread connects to the proxy, authenticates, receives chat         *)
(* requests, hands them to LiteLlm and reconnects when a session ends; the *)
(* completion callbacks run on LiteLlm's worker, or inline when LiteLlm    *)
(* rejects a call, and send the responses on the same socket.              *)
(*                                                                         *)
(* LiteLlm is the abstract GenerationService, which the facade implements. *)
(* The socket is one descriptor number that successive connections reuse;  *)
(* a connection is named by the number of its session.  Every frame is     *)
(* written in two parts, so that a send can stop half way.  Critical       *)
(* sections of state_mutex are single actions; send_mutex is held across   *)
(* several.                                                                *)
(***************************************************************************)
EXTENDS Naturals, Sequences, FiniteSets

CONSTANTS
  Requests,       \* chat requests the proxy may send, each in one frame
  Oversized,      \* those whose response is longer than max_frame_bytes
  MaxSessions,    \* connections the proxy accepts in a run
  MaxControls,    \* pings and requests without a body in a run
  InitialMs,      \* options_.reconnect_initial_ms
  MaxMs,          \* options_.reconnect_max_ms
  MaxFailures,    \* where the count of failed attempts saturates
  PeerMayStall,   \* may the proxy stop reading while it stays connected?
  MayThrow,       \* may a callback run out of memory?
  PeerMayErr,     \* may the proxy send frames that are not valid?
  None            \* no request, no frame, no holder of a mutex

ASSUME ClientAssumption ==
  /\ IsFiniteSet(Requests) /\ Oversized \subseteq Requests
  /\ MaxSessions \in Nat /\ MaxControls \in Nat /\ MaxFailures \in Nat
  /\ InitialMs \in Nat \ {0} /\ MaxMs \in Nat /\ InitialMs \leq MaxMs
  /\ MaxMs \leq InitialMs * 2^MaxFailures
  /\ PeerMayStall \in BOOLEAN /\ PeerMayErr \in BOOLEAN /\ MayThrow \in BOOLEAN

VARIABLES
  stop,           \* stopRequested, set by the signal handler
  pc,             \* where the main thread is
  conn,           \* the current or last session
  fd,             \* the connection the descriptor refers to, 0 when closed
  frame,          \* the frame the main thread is sending
  cur,            \* the chat request the main thread is handling
  authenticated,  \* RunSession's result
  delay,          \* reconnect_delay
  failures,       \* attempts since the last authenticated session (history)
  closing,        \* SessionState::closing, per session
  pending,        \* SessionState::pending_callbacks, per session
  sendMutex,      \* holder of SessionState::send_mutex, per session
  sess,           \* the session each request came from, 0 before it arrives
  cb,             \* where the completion callback of each request is
  phase,          \* GenerationService: what LiteLlm does with each request
  peer,           \* the proxy's end of each connection
  shut,           \* shutdown(SHUT_RDWR) was called on the connection
  stalled,        \* the socket accepts no more bytes for now
  controls,       \* pings and requests without a body received so far
  wire            \* what has been sent on each connection

mainData    == <<stop, conn, frame, cur, authenticated, delay, failures>>
mainVars    == <<pc, mainData>>
sessionVars == <<closing, pending, sendMutex>>
requestVars == <<sess, cb, phase>>
peerVars    == <<peer, stalled, controls>>
netVars     == <<fd, shut, wire>>
vars        == <<mainVars, sessionVars, requestVars, peerVars, netVars>>

Sessions == 1..MaxSessions

LLM == INSTANCE GenerationService

Main == "main"

\* The frames of protocol_codec that lite-server sends.
Frame(type)       == <<type, None>>
ChatResponse(r)   == <<"chat_response", r>>
Frames == {Frame(type) : type \in {"hello", "status", "pong", "error"}}
            \cup {ChatResponse(r) : r \in Requests}

\* The threads that take send_mutex are told apart, and None is none of them.
ASSUME NamesAssumption ==
  /\ Main \notin Requests
  /\ None \notin Requests /\ None # Main /\ None \notin Frames

Init ==
  /\ stop = FALSE /\ pc = "loop" /\ conn = 0 /\ fd = 0
  /\ frame = None /\ cur = None /\ authenticated = FALSE
  /\ delay = InitialMs /\ failures = 0
  /\ closing = [s \in Sessions |-> FALSE]
  /\ pending = [s \in Sessions |-> 0]
  /\ sendMutex = [s \in Sessions |-> None]
  /\ sess = [r \in Requests |-> 0]
  /\ cb = [r \in Requests |-> "none"]
  /\ LLM!Init
  /\ peer = [s \in Sessions |-> "open"]
  /\ shut = [s \in Sessions |-> FALSE]
  /\ stalled = FALSE
  /\ controls = 0
  /\ wire = [s \in Sessions |-> <<>>]

-----------------------------------------------------------------------------
(***************************************************************************)
(* send and recv on the descriptor, whichever connection it refers to.  A  *)
(* broken connection fails every send; one whose peer does not read blocks *)
(* the sender.                                                             *)
(***************************************************************************)
Broken == fd = 0 \/ peer[fd] = "reset" \/ shut[fd]

Put(f, part) ==
  /\ ~Broken /\ ~stalled
  /\ wire' = [wire EXCEPT ![fd] = Append(@, <<f, part>>)]

\* recv returns 0 or an error, or poll reports POLLHUP.
Disconnected == fd = 0 \/ peer[fd] # "open" \/ shut[fd]

-----------------------------------------------------------------------------
(***************************************************************************)
(* Run.                                                                    *)
(***************************************************************************)
RunLoop ==
  /\ pc = "loop"
  /\ pc' = IF stop THEN "shutdown" ELSE "connect"
  /\ UNCHANGED <<mainData, sessionVars, requestVars, peerVars, netVars>>

ConnectFails ==
  /\ pc = "connect"
  /\ pc' = "sleep"
  /\ authenticated' = FALSE
  /\ UNCHANGED <<stop, conn, frame, cur, delay, failures,
                 sessionVars, requestVars, peerVars, netVars>>

\* A new connection, and PerformHandshake's first frame.
ConnectSucceeds ==
  /\ pc = "connect"
  /\ conn < MaxSessions
  /\ conn' = conn + 1 /\ fd' = conn + 1
  /\ authenticated' = FALSE
  /\ frame' = Frame("hello") /\ pc' = "head"
  /\ stalled' = FALSE
  /\ UNCHANGED <<stop, cur, delay, failures, sessionVars, requestVars,
                 peer, controls, shut, wire>>

ShutdownAndClose == shut' = [shut EXCEPT ![fd] = TRUE] /\ fd' = 0

\* Mutant: the delay is not reset after an authenticated session.
DelayAfterSessionKept == UNCHANGED delay

DelayAfterSession == delay' = IF authenticated THEN InitialMs ELSE delay

\* ShutdownAndClose, and what Run does after a session.
SessionEnds ==
  /\ pc = "close"
  /\ ShutdownAndClose
  /\ \/ stop /\ pc' = "shutdown" /\ UNCHANGED <<delay, failures>>
     \/ /\ ~stop /\ pc' = "sleep"
        /\ DelayAfterSession
        /\ failures' = IF authenticated THEN 0 ELSE failures
  /\ UNCHANGED <<stop, conn, frame, cur, authenticated, sessionVars, requestVars,
                 peerVars, wire>>

\* History: one more attempt, up to the count from which the delay is MaxMs.
Grow(n) == IF n < MaxFailures THEN n + 1 ELSE n

NextDelay(ms) == IF ms * 2 < MaxMs THEN ms * 2 ELSE MaxMs

\* SleepForReconnect, cut short by a stop request, and the doubling after it.
SleepForReconnect ==
  /\ pc = "sleep"
  /\ pc' = "loop"
  /\ delay' = NextDelay(delay)
  /\ failures' = Grow(failures)
  /\ UNCHANGED <<stop, conn, frame, cur, authenticated, sessionVars, requestVars,
                 peerVars, netVars>>

\* main: LiteLlm::Shutdown waits for the calls LiteLlm still works on.
LlmShutdown ==
  /\ pc = "shutdown"
  /\ LLM!In("active") \cup LLM!In("completing") = {}
  /\ pc' = "exited"
  /\ UNCHANGED <<mainData, sessionVars, requestVars, peerVars, netVars>>

-----------------------------------------------------------------------------
(***************************************************************************)
(* SendFrame and SendAll on the main thread.  hello is sent before there   *)
(* is a session and so without send_mutex.                                 *)
(***************************************************************************)
\* Mutant: send_mutex is not taken.
LockSendNot(s, who) == UNCHANGED sendMutex

LockSend(s, who) == sendMutex[s] = None /\ sendMutex' = [sendMutex EXCEPT ![s] = who]

UnlockSend(who) == sendMutex' = [s \in Sessions |->
                                   IF sendMutex[s] = who THEN None ELSE sendMutex[s]]

MainLocks ==
  /\ pc = "lock"
  /\ LockSend(conn, Main)
  /\ pc' = "head"
  /\ UNCHANGED <<mainData, closing, pending, requestVars, peerVars, netVars>>

MainSendsHead ==
  /\ pc = "head"
  /\ Put(frame, 1)
  /\ pc' = "tail"
  /\ UNCHANGED <<mainData, sessionVars, requestVars, peerVars, fd, shut>>

MainSendsTail ==
  /\ pc = "tail"
  /\ Put(frame, 2)
  /\ UnlockSend(Main)
  /\ pc' = IF frame = Frame("hello") THEN "ack" ELSE "receive"
  /\ frame' = None
  /\ UNCHANGED <<stop, conn, cur, authenticated, delay, failures,
                 closing, pending, requestVars, peerVars, fd, shut>>

\* Mutant: send_mutex stays locked when a send fails.
UnlockFailedSendNot(who) == UNCHANGED sendMutex

UnlockFailedSend(who) == UnlockSend(who)

\* A failed hello or ready status ends the session with no call outstanding; a
\* failed answer ends it through CloseSession.
MainSendFails ==
  /\ pc \in {"head", "tail"}
  /\ Broken
  /\ UnlockFailedSend(Main)
  /\ pc' = IF frame \in {Frame("hello"), Frame("status")} THEN "close" ELSE "closing"
  /\ frame' = None
  /\ UNCHANGED <<stop, conn, cur, authenticated, delay, failures,
                 closing, pending, requestVars, peerVars, netVars>>

-----------------------------------------------------------------------------
(***************************************************************************)
(* PerformHandshake and the session's receive loop.                        *)
(***************************************************************************)
\* A valid hello_ack arrived: the session begins and reports itself ready.
HelloAcknowledged ==
  /\ pc = "ack"
  /\ ~stop /\ ~Disconnected
  /\ authenticated' = TRUE
  /\ frame' = Frame("status") /\ pc' = "lock"
  /\ UNCHANGED <<stop, conn, cur, delay, failures,
                 sessionVars, requestVars, peerVars, netVars>>

\* No valid acknowledgement: a timeout, a disconnection, a stop request, or a
\* frame that is something else.
HandshakeFails ==
  /\ pc = "ack"
  /\ pc' = "close"
  /\ UNCHANGED <<mainData, sessionVars, requestVars, peerVars, netVars>>

\* Mutant: ReceiveFrame does not notice that the peer has gone.
GivesUpOnStop == stop

GivesUp == stop \/ Disconnected

\* ReceiveFrame gives up: a stop request, a disconnection.
ReceiveFails ==
  /\ pc = "receive"
  /\ GivesUp
  /\ pc' = "closing"
  /\ UNCHANGED <<mainData, sessionVars, requestVars, peerVars, netVars>>

Receives == pc = "receive" /\ ~stop /\ ~Disconnected

\* A frame that ReceiveFrame or HandleMessage does not accept.
ReceiveInvalid ==
  /\ Receives /\ PeerMayErr
  /\ pc' = "closing"
  /\ UNCHANGED <<mainData, sessionVars, requestVars, peerVars, netVars>>

\* A ping, answered by a pong, or a chat request without a body, answered by an
\* error frame.  pong and status frames from the proxy change nothing.
ReceiveControl ==
  /\ Receives
  /\ controls < MaxControls
  /\ controls' = controls + 1
  /\ frame' \in {Frame("pong"), Frame("error")}
  /\ pc' = "lock"
  /\ UNCHANGED <<stop, conn, cur, authenticated, delay, failures,
                 sessionVars, requestVars, peer, stalled, netVars>>

ReceiveChatRequest(r) ==
  /\ Receives
  /\ sess[r] = 0
  /\ sess' = [sess EXCEPT ![r] = conn]
  /\ cur' = r
  /\ pc' = "admit"
  /\ UNCHANGED <<stop, conn, frame, authenticated, delay, failures,
                 sessionVars, cb, phase, peerVars, netVars>>

\* Mutant: the callback is not counted.
CountCallbackNot == UNCHANGED pending

CountCallback == pending' = [pending EXCEPT ![conn] = @ + 1]

Admits == ~closing[conn]

\* HandleMessage under state_mutex.
AdmitRequest ==
  /\ pc = "admit"
  /\ \/ ~Admits /\ pc' = "closing" /\ cur' = None /\ UNCHANGED pending
     \/ Admits /\ CountCallback /\ pc' = "generate" /\ UNCHANGED cur
  /\ UNCHANGED <<stop, conn, frame, authenticated, delay, failures,
                 closing, sendMutex, requestVars, peerVars, netVars>>

\* GenerateAsync: the call is accepted, or another generation is active and the
\* callback runs inline.
GenerateAccepted ==
  /\ pc = "generate"
  /\ LLM!Accept(cur)
  /\ pc' = "receive" /\ cur' = None
  /\ UNCHANGED <<stop, conn, frame, authenticated, delay, failures,
                 sessionVars, sess, cb, peerVars, netVars>>

GenerateRejected ==
  /\ pc = "generate"
  /\ LLM!In("active") # {}
  /\ LLM!Reject(cur)
  /\ cb' = [cb EXCEPT ![cur] = "check"]
  /\ pc' = "inline"
  /\ UNCHANGED <<mainData, sessionVars, sess, peerVars, netVars>>

-----------------------------------------------------------------------------
(***************************************************************************)
(* CloseSession: the wait for the callbacks of the session.                *)
(***************************************************************************)
\* Mutant: CloseSession does not wait.
AwaitNothing == pc' = "close"

AwaitCallbacks == pc' = IF pending[conn] = 0 THEN "close" ELSE "asleep"

CloseSession ==
  /\ pc = "closing"
  /\ closing' = [closing EXCEPT ![conn] = TRUE]
  /\ AwaitCallbacks
  /\ UNCHANGED <<mainData, pending, sendMutex, requestVars, peerVars, netVars>>

CloseSessionWakes ==
  /\ pc = "woken"
  /\ AwaitCallbacks
  /\ UNCHANGED <<mainData, sessionVars, requestVars, peerVars, netVars>>

-----------------------------------------------------------------------------
(***************************************************************************)
(* The completion callback of request r.                                   *)
(***************************************************************************)
\* LiteLlm finished the generation and its worker invokes the callback.
CallbackStarts(r) ==
  /\ LLM!Finish(r)
  /\ cb' = [cb EXCEPT ![r] = "check"]
  /\ UNCHANGED <<mainVars, sessionVars, sess, peerVars, netVars>>

CallbackChecks(r) ==
  /\ cb[r] = "check"
  /\ cb' = [cb EXCEPT ![r] = IF closing[sess[r]] THEN "leave" ELSE "lock"]
  /\ UNCHANGED <<mainVars, sessionVars, sess, phase, peerVars, netVars>>

CallbackLocks(r) ==
  /\ cb[r] = "lock"
  /\ LockSend(sess[r], r)
  /\ cb' = [cb EXCEPT ![r] = "head"]
  /\ UNCHANGED <<mainVars, closing, pending, sess, phase, peerVars, netVars>>

CallbackSendsHead(r) ==
  /\ cb[r] = "head" /\ r \notin Oversized
  /\ Put(ChatResponse(r), 1)
  /\ cb' = [cb EXCEPT ![r] = "tail"]
  /\ UNCHANGED <<mainVars, sessionVars, sess, phase, peerVars, fd, shut>>

\* Mutant: a response that was sent is sent again.
AfterSendAgain == "lock"

AfterSend == "leave"

CallbackSendsTail(r) ==
  /\ cb[r] = "tail"
  /\ Put(ChatResponse(r), 2)
  /\ UnlockSend(r)
  /\ cb' = [cb EXCEPT ![r] = AfterSend]
  /\ UNCHANGED <<mainVars, closing, pending, sess, phase, peerVars, fd, shut>>

\* Mutant: a response that cannot be sent is only logged.
AfterFailedSendLog == "leave"

AfterFailedSend == "fail"

\* SendFrame refuses a frame above max_frame_bytes, or send fails.
CallbackSendFails(r) ==
  /\ \/ cb[r] = "head" /\ r \in Oversized
     \/ cb[r] \in {"head", "tail"} /\ Broken
  /\ UnlockSend(r)
  /\ cb' = [cb EXCEPT ![r] = AfterFailedSend]
  /\ UNCHANGED <<mainVars, closing, pending, sess, phase, peerVars, netVars>>

CallbackCloses(r) ==
  /\ cb[r] = "fail"
  /\ closing' = [closing EXCEPT ![sess[r]] = TRUE]
  /\ cb' = [cb EXCEPT ![r] = "shut"]
  /\ UNCHANGED <<mainVars, pending, sendMutex, sess, phase, peerVars, netVars>>

CallbackShutsSocket(r) ==
  /\ cb[r] = "shut"
  /\ shut' = IF fd = 0 THEN shut ELSE [shut EXCEPT ![fd] = TRUE]
  /\ cb' = [cb EXCEPT ![r] = "leave"]
  /\ UNCHANGED <<mainVars, sessionVars, sess, phase, peerVars, fd, wire>>

CallbackLeaves(r) ==
  /\ cb[r] = "leave"
  /\ pending' = [pending EXCEPT ![sess[r]] = @ - 1]
  /\ cb' = [cb EXCEPT ![r] = "notify"]
  /\ UNCHANGED <<mainVars, closing, sendMutex, sess, phase, peerVars, netVars>>

\* Mutant: nobody is notified.
NotifyNobody(s) == UNCHANGED pc

NotifyAll(s) == pc' = IF pc = "asleep" /\ s = conn THEN "woken" ELSE pc

CallbackNotifies(r) ==
  /\ cb[r] = "notify"
  /\ NotifyAll(sess[r])
  /\ cb' = [cb EXCEPT ![r] = "return"]
  /\ UNCHANGED <<mainData, sessionVars, sess, phase, peerVars, netVars>>

\* The callback is over: the worker goes on, or GenerateAsync returns to the
\* receive loop.
Returns(r) ==
  \/ LLM!Complete(r) /\ UNCHANGED <<pc, cur>>
  \/ LLM!CompleteInline(r) /\ pc' = "receive" /\ cur' = None

CallbackReturns(r) ==
  /\ cb[r] = "return"
  /\ cb' = [cb EXCEPT ![r] = "done"]
  /\ Returns(r)
  /\ UNCHANGED <<stop, conn, frame, authenticated, delay, failures,
                 sessionVars, sess, peerVars, netVars>>

\* Formatting the response or copying it into a frame throws.  send_mutex is
\* released on the way out, pending_callbacks keeps counting the call, and LiteLlm
\* swallows the exception.
CallbackThrows(r) ==
  /\ MayThrow /\ cb[r] \in {"check", "lock", "head"}
  /\ cb' = [cb EXCEPT ![r] = "thrown"]
  /\ UnlockSend(r)
  /\ Returns(r)
  /\ UNCHANGED <<stop, conn, frame, authenticated, delay, failures, closing, pending,
                 sess, peerVars, netVars>>

-----------------------------------------------------------------------------
(***************************************************************************)
(* The environment: the signal, and the proxy's end of the connection.     *)
(***************************************************************************)
StopRequested ==
  /\ ~stop /\ pc # "exited"
  /\ stop' = TRUE
  /\ UNCHANGED <<pc, conn, frame, cur, authenticated, delay, failures,
                 sessionVars, requestVars, peerVars, netVars>>

\* The proxy closes its end; later sends are answered by a reset.
PeerLeaves ==
  /\ fd # 0
  /\ \/ peer[fd] = "open" /\ peer' = [peer EXCEPT ![fd] = "closed"]
     \/ peer[fd] \in {"open", "closed"} /\ peer' = [peer EXCEPT ![fd] = "reset"]
  /\ UNCHANGED <<mainVars, sessionVars, requestVars, stalled, controls, netVars>>

\* The proxy reads no more and the socket's buffers are full; it reads again.
\* The buffers of a new connection have room for hello and the ready status.
PeerStalls ==
  /\ PeerMayStall /\ fd # 0
  /\ ~stalled /\ Len(wire[fd]) \geq 4
  /\ stalled' = TRUE
  /\ UNCHANGED <<mainVars, sessionVars, requestVars, peer, controls, netVars>>

PeerResumes ==
  /\ stalled
  /\ stalled' = FALSE
  /\ UNCHANGED <<mainVars, sessionVars, requestVars, peer, controls, netVars>>

-----------------------------------------------------------------------------
\* What the main thread does without waiting for a message.
MainStep ==
  \/ RunLoop \/ ConnectFails \/ ConnectSucceeds \/ SessionEnds
  \/ SleepForReconnect \/ LlmShutdown
  \/ MainLocks \/ MainSendsHead \/ MainSendsTail \/ MainSendFails
  \/ HandshakeFails \/ ReceiveFails
  \/ AdmitRequest \/ GenerateAccepted \/ GenerateRejected
  \/ CloseSession \/ CloseSessionWakes

CallbackStep(r) ==
  \/ CallbackStarts(r) \/ CallbackChecks(r) \/ CallbackLocks(r)
  \/ CallbackSendsHead(r) \/ CallbackSendsTail(r) \/ CallbackSendFails(r)
  \/ CallbackCloses(r) \/ CallbackShutsSocket(r) \/ CallbackLeaves(r)
  \/ CallbackNotifies(r) \/ CallbackReturns(r)

MessageArrives ==
  \/ HelloAcknowledged \/ ReceiveInvalid \/ ReceiveControl
  \/ \E r \in Requests : ReceiveChatRequest(r)

Environment == StopRequested \/ PeerLeaves \/ PeerStalls \/ PeerResumes

\* The process has exited.
Exited == pc = "exited" /\ UNCHANGED vars

Next ==
  \/ MainStep \/ MessageArrives \/ Environment \/ Exited
  \/ \E r \in Requests : CallbackStep(r) \/ CallbackThrows(r)

Spec == Init /\ [][Next]_vars

(***************************************************************************)
(* Fairness.  Both threads are scheduled; connect, the handshake and the   *)
(* sleep are bounded by timeouts; a generation returns.  A mutex that is   *)
(* free, and a socket that is writable, again and again is obtained by the *)
(* thread that waits for it.  The proxy owes nothing.                      *)
(***************************************************************************)
Fairness ==
  /\ WF_vars(MainStep)
  /\ SF_vars(MainLocks \/ MainSendsHead \/ MainSendsTail)
  /\ \A r \in Requests :
       /\ WF_vars(CallbackStep(r))
       /\ SF_vars(CallbackLocks(r) \/ CallbackSendsHead(r) \/ CallbackSendsTail(r))

FairSpec == Spec /\ Fairness

-----------------------------------------------------------------------------
MainStates ==
  {"loop", "connect", "sleep", "lock", "head", "tail", "ack", "receive", "admit",
   "generate", "inline", "closing", "asleep", "woken", "close", "shutdown", "exited"}

CallbackStates ==
  {"none", "check", "lock", "head", "tail", "fail", "shut", "leave", "notify",
   "return", "done", "thrown"}

\* The callback is counted by pending_callbacks: it may still use the socket, or it
\* has thrown.
Outstanding(r) ==
  cb[r] \in {"check", "lock", "head", "tail", "fail", "shut", "leave", "thrown"}

(***************************************************************************)
(* The variables have their types; the main thread has a frame exactly     *)
(* while it sends one, and a request exactly while it handles one; a mutex *)
(* is held by a thread that sends.                                         *)
(***************************************************************************)
TypeOK ==
  /\ stop \in BOOLEAN /\ authenticated \in BOOLEAN /\ stalled \in BOOLEAN
  /\ pc \in MainStates
  /\ conn \in 0..MaxSessions /\ fd \in {0, conn}
  /\ frame \in Frames \cup {None}
  /\ frame # None <=> pc \in {"lock", "head", "tail"}
  /\ cur \in Requests \cup {None}
  /\ cur # None <=> pc \in {"admit", "generate", "inline"}
  /\ delay \in Nat /\ failures \in 0..MaxFailures
  /\ closing \in [Sessions -> BOOLEAN]
  /\ pending \in [Sessions -> 0..Cardinality(Requests)]
  /\ sendMutex \in [Sessions -> Requests \cup {Main, None}]
  /\ \A s \in Sessions :
       /\ sendMutex[s] \in Requests => cb[sendMutex[s]] \in {"head", "tail"}
       /\ sendMutex[s] = Main => pc \in {"head", "tail"}
  /\ sess \in [Requests -> 0..MaxSessions]
  /\ cb \in [Requests -> CallbackStates]
  /\ phase \in [Requests -> LLM!Phases]
  /\ peer \in [Sessions -> {"open", "closed", "reset"}]
  /\ shut \in [Sessions -> BOOLEAN]
  /\ controls \in 0..MaxControls
  /\ wire \in [Sessions -> Seq(Frames \X {1, 2})]

(***************************************************************************)
(* Safety.                                                                 *)
(***************************************************************************)
\* The descriptor still refers to the callback's own connection whenever a
\* callback may send on it or shut it down: CloseSession keeps the main thread
\* from closing it, and the next connection from reusing its number.
SocketOutlivesCallbacks ==
  \A r \in Requests : Outstanding(r) => fd = sess[r]

\* What is on a connection is a sequence of whole frames, of which the last may
\* be cut: the main thread and a callback never write into each other's frame.
FramesWhole ==
  \A s \in Sessions : \A i \in DOMAIN wire[s] :
    /\ i % 2 = 1 => wire[s][i][2] = 1
    /\ i % 2 = 0 => wire[s][i] = <<wire[s][i-1][1], 2>>

\* A request is answered at most once, and only on the connection it came from:
\* requests pending when a session ends are not replayed on the next one.
AnsweredWhereAsked ==
  \A s \in Sessions : \A r \in Requests :
    LET at == {i \in DOMAIN wire[s] : wire[s][i] = <<ChatResponse(r), 1>>}
    IN  at # {} => Cardinality(at) = 1 /\ sess[r] = s

\* pending_callbacks counts the calls whose callback has not passed its end, those
\* that threw among them, so it is 0 exactly when the session's socket may be
\* closed.
PendingExact ==
  \A s \in Sessions :
    pending[s] = Cardinality({r \in Requests :
                   /\ sess[r] = s
                   /\ \/ Outstanding(r)
                      \/ phase[r] = "active"
                      \/ r = cur /\ pc = "generate"})

\* The delay before attempt n+1 after n attempts without an authenticated
\* session is the initial delay doubled n times, cut at the maximum.
BoundedBackoff ==
  LET doubled == InitialMs * 2^failures
  IN  delay = IF doubled < MaxMs THEN doubled ELSE MaxMs

(***************************************************************************)
(* Liveness.                                                               *)
(***************************************************************************)
\* The proxy does not stop reading for good, and no callback throws: one that does
\* is counted for ever, and CloseSession waits for it for ever.
Undisturbed == []<>~stalled /\ [](\A r \in Requests : cb[r] # "thrown")

\* A signal stops the server: "Stop with Ctrl+C or SIGTERM".
StopTerminates == stop ~> pc = "exited"

\* A signal stops the server if the proxy reads what is sent to it and the
\* callbacks return.
StopTerminatesIfRead == Undisturbed => StopTerminates

\* A session whose proxy is gone ends, whatever its callbacks are doing.
LostSessionEnds ==
  Undisturbed => \A s \in Sessions : (conn = s /\ peer[s] # "open") ~> fd # s

Answered(r) == \E i \in DOMAIN wire[sess[r]] : wire[sess[r]][i] = <<ChatResponse(r), 2>>

\* A request that arrives is answered, or its session closes.
AnsweredOrClosed ==
  Undisturbed => \A r \in Requests :
    sess[r] # 0 ~> sess[r] # 0 /\ (Answered(r) \/ closing[sess[r]])

\* A request that arrives is answered unless the proxy leaves or the server is
\* stopped: "Return the OpenAI-compatible response from LiteLlm inside a
\* correlated chat_response frame".
AnsweredUnlessPeerLeaves ==
  \A r \in Requests :
    sess[r] # 0 ~> sess[r] # 0 /\ (Answered(r) \/ peer[sess[r]] # "open" \/ stop)

=============================================================================
