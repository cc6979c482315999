---------------------------- MODULE FrameStream ----------------------------
(***************************************************************************)
(* One connection of lite-server to the proxy, byte by byte: the frames of *)
(* protocol_codec.cpp, and SendAll, SendFrame, ReceiveFrame,               *)
(* PerformHandshake and RunSession of reverse_client.cpp.  The proxy       *)
(* writes its bytes in pieces of any size, reads when it likes, and may    *)
(* close or reset the connection at any point.                             *)
(*                                                                         *)
(* Time advances in ticks while poll waits; the thread's own steps take    *)
(* none.  The bytes of a frame lite-server sends are only counted.  Of     *)
(* HandleMessage and the callbacks there is what holds the connection up   *)
(* or ends it; the rest of them is ReverseClient's.                        *)
(***************************************************************************)
EXTENDS Integers, Sequences

CONSTANTS
  PollInterval,      \* kPollIntervalMs, in ticks
  HandshakeTimeout   \* kHandshakeTimeoutMs, in ticks

ASSUME StreamAssumption ==
  PollInterval \in Nat \ {0} /\ HandshakeTimeout \in Nat \ {0}

VARIABLES
  pc,         \* where the main thread is
  stop,       \* stopRequested
  error,      \* why the session ended
  limit,      \* options_.max_frame_bytes
  sending,    \* the frame the main thread sends, or sent last
  left,       \* bytes of it that send has not taken yet
  pending,    \* SessionState::pending_callbacks
  answering,  \* LiteLlm's worker is in a callback's SendFrame
  closing,    \* SessionState::closing
  working,    \* calls LiteLlm has accepted and not done with
  part,       \* the part of a frame that receive_exact fills
  need,       \* receive_exact's size
  buf,        \* what it has received of it
  timeout,    \* ReceiveFrame's timeout_ms, 0 for none
  now,        \* the clock, since ReceiveFrame was called
  started,    \* ReceiveFrame's started
  pollLeft,   \* time until poll gives up
  delivered,  \* the payloads handled
  script,     \* the byte strings the proxy means to send
  written,    \* how many of their bytes it has written
  taken,      \* how many of those recv has returned
  proxy,      \* open, closed or reset by the proxy, or shut by a callback
  writable        \* the socket takes more bytes: the proxy reads

callVars    == <<pending, answering, closing, working>>
sendVars    == <<sending, left, callVars>>
receiveVars == <<part, need, buf, timeout, now, started, pollLeft, delivered>>
proxyVars   == <<script, written, taken, proxy, writable>>
streamVars  == <<pc, stop, error, limit, sendVars, receiveVars, proxyVars>>

-----------------------------------------------------------------------------
(***************************************************************************)
(* protocol_codec: the magic, the payload's size in four bytes with the    *)
(* most significant first, the payload.                                    *)
(***************************************************************************)
Magic == <<76, 84, 83, 49>>
HeaderBytes == 8

EncodeSize(n) == <<n \div 2^24, (n \div 2^16) % 256, (n \div 2^8) % 256, n % 256>>

EncodeFrame(payload) == Magic \o EncodeSize(Len(payload)) \o payload

\* Mutant: the least significant byte comes first.
DecodeSizeReversed(h) == h[8] * 2^24 + h[7] * 2^16 + h[6] * 2^8 + h[5]

DecodeSize(h) == h[5] * 2^24 + h[6] * 2^16 + h[7] * 2^8 + h[8]

HasMagic(h) == SubSeq(h, 1, 4) = Magic

\* The length of BuildHello for a token of which EscapeJsonString leaves
\* `plain' bytes alone, and writes `short' in two characters and `control' in
\* six; the lengths of BuildReadyStatus and BuildPong.
HelloSize(token) == 45 + token.plain + 2 * token.short + 6 * token.control
StatusSize == 33
PongSize == 15

\* A response that fits the frame limit, and one that does not.
ResponseSizes == {PongSize, limit + 1}

-----------------------------------------------------------------------------
Fail(reason) == pc' = "ended" /\ error' = reason

\* ReceiveFrame begins.
StartReceive(ms) ==
  /\ pc' = "check"
  /\ timeout' = ms /\ now' = 0 /\ started' = 0 /\ pollLeft' = 0
  /\ part' = "header" /\ need' = HeaderBytes /\ buf' = <<>>

(***************************************************************************)
(* SendFrame and SendAll.                                                  *)
(***************************************************************************)
Sendable(size) == size > 0 /\ size \leq limit

SendFrame(type, size) ==
  /\ sending' = type /\ UNCHANGED callVars
  /\ \/ /\ Sendable(size)
        /\ pc' = "send" /\ left' = HeaderBytes + size
        /\ UNCHANGED error
     \/ ~Sendable(size) /\ Fail("outgoing limit") /\ left' = 0

\* send takes half of what is left, or all of it.
Takes == {(left + 1) \div 2, left}

Broken == proxy \in {"reset", "shut"}

\* send blocks while the socket takes nothing, whatever the stop flag says.
SendSome ==
  /\ pc = "send" /\ ~Broken /\ writable
  /\ \E sent \in Takes :
       /\ left' = left - sent
       /\ IF left' > 0
          THEN UNCHANGED <<pc, part, need, buf, timeout, now, started, pollLeft>>
          ELSE StartReceive(IF sending = "hello" THEN HandshakeTimeout ELSE 0)
  /\ writable' \in BOOLEAN
  /\ UNCHANGED <<stop, error, limit, sending, callVars, delivered,
                 script, written, taken, proxy>>

\* A callback that cannot send marks the session and shuts the descriptor down,
\* which a connection that was reset does not notice.
GivesUp ==
  /\ closing' = TRUE
  /\ proxy' = IF proxy = "reset" THEN proxy ELSE "shut"

\* The response of a call that LiteLlm rejected is sent by its callback on this
\* thread: HandleMessage returns true all the same.
SendFails ==
  /\ pc = "send" /\ Broken
  /\ IF sending = "response"
     THEN /\ GivesUp /\ StartReceive(0)
          /\ UNCHANGED <<error, pending, answering, working, script, written, taken, writable>>
     ELSE /\ Fail("send")
          /\ UNCHANGED <<callVars, part, need, buf, timeout, now, started, pollLeft,
                         proxyVars>>
  /\ UNCHANGED <<stop, limit, sending, left, delivered>>

-----------------------------------------------------------------------------
(***************************************************************************)
(* ReceiveFrame.                                                           *)
(***************************************************************************)
Full == Len(buf) = need

\* Mutant: the stop request is looked at only before waiting.
StopsHereUnlessFull == stop /\ ~Full

\* Mutant: the stop request is looked at only after the bytes have arrived.
StopsHereIfFull == stop /\ Full

\* Both the loop's condition and the test after the loop.
StopsHere == stop

ReceiveStopped ==
  /\ pc = "check" /\ StopsHere
  /\ Fail("stopping")
  /\ UNCHANGED <<stop, limit, sendVars, receiveVars, proxyVars>>

TimedOut == timeout > 0 /\ now - started \geq timeout

ReceiveTimesOut ==
  /\ pc = "check" /\ ~StopsHere /\ ~Full
  /\ TimedOut
  /\ Fail("timeout")
  /\ UNCHANGED <<stop, limit, sendVars, receiveVars, proxyVars>>

StartPoll ==
  /\ pc = "check" /\ ~StopsHere /\ ~Full
  /\ ~TimedOut
  /\ pc' = "poll" /\ pollLeft' = PollInterval
  /\ UNCHANGED <<stop, error, limit, sendVars, part, need, buf, timeout, now, started,
                 delivered, proxyVars>>

\* Mutant: the payload gets a deadline of its own.
StartedForPayloadAnew == now

\* started is taken once, for the header and the payload.
StartedForPayload == started

\* Mutant: the limit is not looked at.
SizeValidAny(size) == size > 0

SizeValid(size) == size > 0 /\ size \leq limit

HeaderReceived ==
  /\ pc = "check" /\ ~StopsHere
  /\ Full /\ part = "header"
  /\ LET size == DecodeSize(buf)
     IN  IF ~HasMagic(buf) THEN Fail("magic") /\ UNCHANGED <<part, need, buf, started>>
         ELSE IF ~SizeValid(size) THEN Fail("incoming limit")
                                       /\ UNCHANGED <<part, need, buf, started>>
         ELSE /\ part' = "payload" /\ need' = size /\ buf' = <<>>
              /\ started' = StartedForPayload
              /\ UNCHANGED <<pc, error>>
  /\ UNCHANGED <<stop, limit, sendVars, timeout, now, pollLeft, delivered, proxyVars>>

\* The payload of a valid hello_ack; PerformHandshake takes no other.
HelloAck == <<1>>

\* ReceiveFrame has looked at the stop request for the last time; the payload is
\* copied and returned.
PayloadReceived ==
  /\ pc = "check" /\ ~StopsHere
  /\ Full /\ part = "payload"
  /\ pc' = "handle"
  /\ UNCHANGED <<stop, error, limit, sendVars, receiveVars, proxyVars>>

\* PerformHandshake after its ReceiveFrame; the session begins with the status.
HandleHelloAck ==
  /\ sending = "hello"
  /\ IF buf = HelloAck THEN SendFrame("status", StatusSize)
                       ELSE Fail("handshake") /\ UNCHANGED sendVars
  /\ UNCHANGED <<part, need, buf, timeout, now, started, pollLeft, proxyVars>>

\* A message that asks for nothing: pong or status.
IgnoreMessage ==
  StartReceive(0) /\ UNCHANGED <<error, sendVars, proxyVars>>

\* A ping, or a chat request without a body: the error sent then is longer than a
\* pong and within every limit as well.
ReplyToMessage ==
  /\ SendFrame("reply", PongSize)
  /\ UNCHANGED <<part, need, buf, timeout, now, started, pollLeft, proxyVars>>

\* Not a valid message, or a chat request when the session is closing.
RefuseMessage ==
  /\ Fail("message")
  /\ UNCHANGED <<sendVars, part, need, buf, timeout, now, started, pollLeft, proxyVars>>

AcceptCall ==
  /\ ~closing
  /\ pending' = pending + 1 /\ working' = working + 1
  /\ StartReceive(0)
  /\ UNCHANGED <<error, sending, left, answering, closing, proxyVars>>

\* LiteLlm calls back at once, on this thread.
RejectCall ==
  /\ ~closing
  /\ \E size \in ResponseSizes :
       IF Sendable(size)
       THEN /\ SendFrame("response", size)
            /\ UNCHANGED <<part, need, buf, timeout, now, started, pollLeft, proxyVars>>
       ELSE /\ GivesUp /\ StartReceive(0)
            /\ UNCHANGED <<error, sending, left, pending, answering, working,
                           script, written, taken, writable>>

\* What is in a message of the session is not looked at here: any of the outcomes
\* of HandleMessage.
HandleMessage ==
  /\ sending # "hello"
  /\ \/ IgnoreMessage \/ ReplyToMessage \/ RefuseMessage
     \/ AcceptCall \/ RejectCall

HandleFrame ==
  /\ pc = "handle"
  /\ delivered' = Append(delivered, buf)
  /\ HandleHelloAck \/ HandleMessage
  /\ UNCHANGED <<stop, limit>>

\* poll reports bytes to read, or the end of the proxy's stream.
Readable == taken < written \/ proxy # "open"

\* POLLERR and POLLHUP: bytes that arrived before it are not read.
PollDisconnected ==
  /\ pc = "poll" /\ Broken
  /\ Fail("disconnected")
  /\ UNCHANGED <<stop, limit, sendVars, receiveVars, proxyVars>>

PollReady ==
  /\ pc = "poll" /\ Readable /\ ~Broken
  /\ pc' = "recv"
  /\ UNCHANGED <<stop, error, limit, sendVars, receiveVars, proxyVars>>

PollExpires ==
  /\ pc = "poll" /\ ~Readable /\ pollLeft = 0
  /\ pc' = "check"
  /\ UNCHANGED <<stop, error, limit, sendVars, receiveVars, proxyVars>>

PollFails ==
  /\ pc = "poll" /\ ~Readable
  /\ Fail("poll")
  /\ UNCHANGED <<stop, limit, sendVars, receiveVars, proxyVars>>

\* Where the clock of the model stops: a deadline has been missed by then.
ClockMax == HandshakeTimeout + PollInterval

Tick ==
  /\ pc = "poll" /\ ~Readable /\ pollLeft > 0
  /\ pollLeft' = pollLeft - 1
  /\ now' = IF timeout > 0 /\ now < ClockMax THEN now + 1 ELSE now
  /\ UNCHANGED <<pc, stop, error, limit, sendVars, part, need, buf, timeout,
                 started, delivered, proxyVars>>

\* The concatenation of a sequence of byte strings.
Bytes(strings) ==
  LET upTo[n \in 0..Len(strings)] == IF n = 0 THEN <<>> ELSE upTo[n-1] \o strings[n].bytes
  IN  upTo[Len(strings)]

\* What a script may be.  Its strings are bytes; one marked as a frame is a header
\* and the payload the header announces; another one has a header that no frame
\* has, or ends the stream before the frame it begins is complete.
\* What the header says is stated as the proxy means it, whatever DecodeSize makes
\* of it.
Byte == 0..255

Announced(bytes) == bytes[5] * 2^24 + bytes[6] * 2^16 + bytes[7] * 2^8 + bytes[8]

Announces(bytes, max) ==
  Len(bytes) \geq HeaderBytes /\ HasMagic(bytes) /\ Announced(bytes) \in 1..max

IsFrame(bytes, max) ==
  Announces(bytes, max) /\ Len(bytes) = HeaderBytes + Announced(bytes)

Incomplete(bytes) ==
  Len(bytes) < HeaderBytes \/ Len(bytes) < HeaderBytes + Announced(bytes)

IsScript(strings, max) ==
  /\ strings \in Seq([frame : BOOLEAN, bytes : Seq(Byte)])
  /\ \A k \in 1..Len(strings) :
       LET bytes == strings[k].bytes
       IN  IF strings[k].frame THEN IsFrame(bytes, max)
           ELSE \/ k = Len(strings) /\ Incomplete(bytes)
                \/ Len(bytes) \geq HeaderBytes /\ ~Announces(bytes, max)

\* recv returns what is there, and no more than was asked for.
RecvCount == LET room == need - Len(buf)
             IN  IF written - taken < room THEN written - taken ELSE room

Recv ==
  /\ pc = "recv" /\ taken < written
  /\ buf' = buf \o SubSeq(Bytes(script), taken + 1, taken + RecvCount)
  /\ taken' = taken + RecvCount
  /\ pc' = "check"
  /\ UNCHANGED <<stop, error, limit, sendVars, part, need, timeout, now, started, pollLeft,
                 delivered, script, written, proxy, writable>>

RecvEnds ==
  /\ pc = "recv" /\ taken = written /\ proxy \in {"closed", "shut"}
  /\ Fail("closed")
  /\ UNCHANGED <<stop, limit, sendVars, receiveVars, proxyVars>>

RecvFails ==
  /\ pc = "recv" /\ proxy = "reset"
  /\ Fail("recv")
  /\ UNCHANGED <<stop, limit, sendVars, receiveVars, proxyVars>>

-----------------------------------------------------------------------------
(***************************************************************************)
(* The end of RunSession, and the callbacks on LiteLlm's worker, which     *)
(* runs one call after the other.                                          *)
(***************************************************************************)

\* A session that never came to its loop ends without CloseSession; no callback
\* looks at closing then.
CloseSession ==
  /\ pc = "ended"
  /\ pc' = "closing" /\ closing' = TRUE
  /\ UNCHANGED <<stop, error, limit, sending, left, pending, answering, working,
                 receiveVars, proxyVars>>

\* The wait for callbacks_finished is over; ShutdownAndClose.
SessionEnds ==
  /\ pc = "closing" /\ pending = 0
  /\ pc' = "closed"
  /\ UNCHANGED <<stop, error, limit, sendVars, receiveVars, proxyVars>>

\* A call has been answered by the runtime.  Its callback looks at closing, and
\* sends a response that fits the limit.
CallbackBegins ==
  /\ pending > 0 /\ working = pending /\ ~answering
  /\ \/ /\ closing
        /\ pending' = pending - 1 /\ UNCHANGED <<answering, closing, proxy>>
     \/ /\ ~closing
        /\ \E size \in ResponseSizes :
             IF Sendable(size)
             THEN answering' = TRUE /\ UNCHANGED <<pending, closing, proxy>>
             ELSE pending' = pending - 1 /\ GivesUp /\ UNCHANGED answering
  /\ UNCHANGED <<pc, stop, error, limit, sending, left, working,
                 receiveVars, script, written, taken, writable>>

CallbackSends ==
  /\ answering /\ ~Broken /\ writable
  /\ answering' = FALSE /\ pending' = pending - 1
  /\ writable' \in BOOLEAN
  /\ UNCHANGED <<pc, stop, error, limit, sending, left, closing, working,
                 receiveVars, script, written, taken, proxy>>

CallbackFails ==
  /\ answering /\ Broken
  /\ answering' = FALSE /\ pending' = pending - 1
  /\ GivesUp
  /\ UNCHANGED <<pc, stop, error, limit, sending, left, working,
                 receiveVars, script, written, taken, writable>>

\* LiteLlm's worker is done with the call whose callback has returned.
WorkerFinishes ==
  /\ working > pending
  /\ working' = working - 1
  /\ UNCHANGED <<pc, stop, error, limit, sending, left, pending, answering, closing,
                 receiveVars, proxyVars>>

-----------------------------------------------------------------------------
(***************************************************************************)
(* The proxy.  It says nothing before it has the whole hello.              *)
(***************************************************************************)
InSession == pc \in {"send", "check", "poll", "recv", "handle"}

Greeted == InSession /\ (sending = "hello" => left = 0)

Connected == sending # "none" /\ (InSession \/ pc \in {"ended", "closing"})

ProxyWrites ==
  /\ Greeted /\ proxy = "open"
  /\ \E n \in written + 1 .. Len(Bytes(script)) : written' = n
  /\ UNCHANGED <<pc, stop, error, limit, sendVars, receiveVars, script, taken, proxy, writable>>

\* A proxy that has closed its end may still answer bytes with a reset.
ProxyCloses ==
  /\ Connected
  /\ \/ proxy = "open" /\ proxy' \in {"closed", "reset"}
     \/ proxy = "closed" /\ proxy' = "reset"
  /\ UNCHANGED <<pc, stop, error, limit, sendVars, receiveVars, script, written, taken, writable>>

ProxyReads ==
  /\ Connected /\ ~writable
  /\ writable' = TRUE
  /\ UNCHANGED <<pc, stop, error, limit, sendVars, receiveVars, script, written, taken, proxy>>

-----------------------------------------------------------------------------
SendStep == SendSome \/ SendFails

ReceiveStep ==
  \/ ReceiveStopped \/ ReceiveTimesOut \/ StartPoll \/ HeaderReceived \/ PayloadReceived
  \/ HandleFrame
  \/ PollDisconnected \/ PollReady \/ PollExpires \/ Tick
  \/ Recv \/ RecvEnds \/ RecvFails

CloseStep == CloseSession \/ SessionEnds

SessionStep == SendStep \/ ReceiveStep \/ CloseStep

CallbackStep == CallbackBegins \/ CallbackSends \/ CallbackFails \/ WorkerFinishes

ProxyStep == ProxyWrites \/ ProxyCloses \/ ProxyReads

StreamNext == SessionStep \/ PollFails \/ CallbackStep \/ ProxyStep

=============================================================================
