----------------------------- MODULE ServerMain -----------------------------
(***************************************************************************)
(* The lite-server process (src/lite_server/src/main.cpp): the command     *)
(* line, the initialisation of LiteLlm, the signals, the connection of     *)
(* FrameStream that the options lead to, and LiteLlm's Shutdown.  What Run *)
(* does between connections is ReverseClient's.                            *)
(*                                                                         *)
(* An argument is a record: the word it is, its characters as digits, and  *)
(* how many of its bytes EscapeJsonString leaves alone, writes in two      *)
(* characters and writes in six.                                           *)
(***************************************************************************)
EXTENDS FrameStream

CONSTANTS
  CommandLines,  \* the arguments the process may be started with
  ProxyPort,     \* the port the proxy listens on
  ProxyToken,    \* the token it accepts
  Scripts(_)     \* what it may send after that, given the frame limit

VARIABLES
  argv,     \* the arguments after the program's name
  index,    \* ParseArguments' index
  options,  \* ReverseClientOptions and config_path, by option
  status,   \* the exit status
  passed    \* the frames that had passed ReceiveFrame's last look at the stop
            \* flag when the signal came (history)

mainVars == <<argv, index, options, status, passed>>
vars     == <<mainVars, streamVars>>

Running == -1
Killed  == -2

-----------------------------------------------------------------------------
NotDigit == 10

Size(text) == text.plain + text.short + text.control

\* The empty argument, and the default host.
Nothing  == [word |-> "empty", digits |-> <<>>, plain |-> 0, short |-> 0, control |-> 0]
Loopback == [word |-> "127.0.0.1", digits |-> <<NotDigit>>,
             plain |-> 9, short |-> 0, control |-> 0]

Numbers == {"--connect-port", "--max-frame-bytes", "--reconnect-initial-ms",
            "--reconnect-max-ms"}
Texts   == {"--config", "--connect-host", "--auth-token"}

Least(option) == IF option = "--max-frame-bytes" THEN 1024 ELSE 1

Greatest(option) == CASE option = "--connect-port"         -> 65535
                      [] option = "--max-frame-bytes"      -> 64 * 1024 * 1024
                      [] option = "--reconnect-initial-ms" -> 60000
                      [] option = "--reconnect-max-ms"     -> 300000

Defaults ==
  [option \in Numbers \cup Texts |->
     CASE option = "--connect-port"         -> 0
       [] option = "--max-frame-bytes"      -> 8 * 1024 * 1024
       [] option = "--reconnect-initial-ms" -> 250
       [] option = "--reconnect-max-ms"     -> 5000
       [] option = "--connect-host"         -> Loopback
       [] OTHER                             -> Nothing]

Bad == -1

\* Mutant: the digit is left out of the comparison with the maximum.
FitsWithoutDigit(parsed, digit, maximum) == parsed \leq maximum \div 10

Fits(parsed, digit, maximum) == parsed \leq (maximum - digit) \div 10

ParseUnsigned(text, maximum) ==
  LET digit(n) == text.digits[n]
      upTo[n \in 0..Len(text.digits)] ==
        IF n = 0 THEN 0
        ELSE IF \/ upTo[n-1] = Bad \/ digit(n) = NotDigit
                \/ ~Fits(upTo[n-1], digit(n), maximum)
             THEN Bad
        ELSE upTo[n-1] * 10 + digit(n)
  IN  IF text.digits = <<>> THEN Bad ELSE upTo[Len(text.digits)]

IsArgument(text) ==
  /\ text.digits \in Seq(0..NotDigit)
  /\ text.plain \in Nat /\ text.short \in Nat /\ text.control \in Nat

ASSUME ArgumentsAssumption ==
  \A line \in CommandLines :
    /\ line \in Seq({line[n] : n \in DOMAIN line})
    /\ \A n \in DOMAIN line : IsArgument(line[n])

\* The frame limits that can be asked for.
Limits ==
  LET option      == "--max-frame-bytes"
      asked(line) == {ParseUnsigned(line[n], Greatest(option)) : n \in DOMAIN line}
      all         == {Defaults[option]} \cup UNION {asked(line) : line \in CommandLines}
  IN  {max \in all : max \geq Least(option)}

ASSUME ScriptsAssumption ==
  \A max \in Limits : \A strings \in Scripts(max) : IsScript(strings, max)

-----------------------------------------------------------------------------
Init ==
  /\ argv \in CommandLines /\ index = 1
  /\ options = Defaults /\ status = Running /\ passed = 0
  /\ pc = "parse" /\ stop = FALSE /\ error = "none" /\ limit = 0
  /\ sending = "none" /\ left = 0
  /\ pending = 0 /\ answering = FALSE /\ closing = FALSE /\ working = 0
  /\ part = "header" /\ need = HeaderBytes /\ buf = <<>>
  /\ timeout = 0 /\ now = 0 /\ started = 0 /\ pollLeft = 0 /\ delivered = <<>>
  /\ script = <<>> /\ written = 0 /\ taken = 0 /\ proxy = "open"
  /\ writable = TRUE

Exit(code) == pc' = "exited" /\ status' = code

(***************************************************************************)
(* ParseArguments: one iteration of its loop, or its end.                  *)
(***************************************************************************)
Option == argv[index].word
Help   == Option \in {"--help", "-h"}

ParseHelp ==
  /\ pc = "parse" /\ index \leq Len(argv)
  /\ Help
  /\ Exit(0)
  /\ UNCHANGED <<argv, index, options, passed, stop, error, limit, sendVars, receiveVars,
                 proxyVars>>

\* The option has no value, has one that is out of range, or is not known.
ParseRefuses ==
  /\ pc = "parse" /\ index \leq Len(argv) /\ ~Help
  /\ \/ index = Len(argv)
     \/ Option \notin Numbers \cup Texts
     \/ /\ index < Len(argv) /\ Option \in Numbers
        /\ ParseUnsigned(argv[index + 1], Greatest(Option)) < Least(Option)
  /\ Exit(2)
  /\ UNCHANGED <<argv, index, options, passed, stop, error, limit, sendVars, receiveVars,
                 proxyVars>>

ParseOption ==
  /\ pc = "parse" /\ index < Len(argv) /\ ~Help
  /\ LET value  == argv[index + 1]
         number == ParseUnsigned(value, Greatest(Option))
     IN  \/ Option \in Texts /\ options' = [options EXCEPT ![Option] = value]
         \/ /\ Option \in Numbers /\ number \geq Least(Option)
            /\ options' = [options EXCEPT ![Option] = number]
  /\ index' = index + 2
  /\ UNCHANGED <<argv, status, passed, streamVars>>

\* Mutant: a token of any length is accepted.
TokenValidIfGiven(token) == Size(token) > 0

TokenValid(token) == Size(token) \in 1..512

OptionsComplete ==
  /\ Size(options["--config"]) > 0
  /\ options["--connect-port"] # 0
  /\ TokenValid(options["--auth-token"])
  /\ options["--reconnect-initial-ms"] \leq options["--reconnect-max-ms"]

ParseEnds ==
  /\ pc = "parse" /\ index > Len(argv)
  /\ \/ OptionsComplete /\ pc' = "initialize" /\ UNCHANGED status
     \/ ~OptionsComplete /\ Exit(2)
  /\ UNCHANGED <<argv, index, options, passed, stop, error, limit, sendVars, receiveVars,
                 proxyVars>>

-----------------------------------------------------------------------------
(***************************************************************************)
(* main after ParseArguments.  Nothing reads argv any more.                *)
(***************************************************************************)
Initialized ==
  /\ pc = "initialize"
  /\ pc' = "run" /\ argv' = <<>> /\ index' = 1
  /\ limit' = options["--max-frame-bytes"]
  /\ UNCHANGED <<options, status, passed, stop, error, sendVars, receiveVars, proxyVars>>

InitializeFails ==
  /\ pc = "initialize"
  /\ Exit(3)
  /\ UNCHANGED <<argv, index, options, passed, stop, error, limit, sendVars, receiveVars,
                 proxyVars>>

\* The stop flag ends Run's loop, before a connection or after one.
RunReturns ==
  /\ pc \in {"run", "closed"} /\ stop
  /\ pc' = "shutdown"
  /\ UNCHANGED <<mainVars, stop, error, limit, sendVars, receiveVars, proxyVars>>

\* LiteLlm::Shutdown joins the worker; main returns.
LlmShutdown ==
  /\ pc = "shutdown" /\ working = 0
  /\ Exit(0)
  /\ UNCHANGED <<argv, index, options, passed, stop, error, limit, sendVars, receiveVars,
                 proxyVars>>

Connects ==
  /\ pc = "run"
  /\ options["--connect-host"].word = Loopback.word
  /\ options["--connect-port"] = ProxyPort
  /\ script' \in IF options["--auth-token"] = ProxyToken THEN Scripts(limit) ELSE {<<>>}
  /\ SendFrame("hello", HelloSize(options["--auth-token"]))
  /\ UNCHANGED <<mainVars, stop, limit, receiveVars, written, taken, proxy, writable>>

\* Any other host or port, a refused connection, or a timeout.
ConnectFails ==
  /\ pc = "run"
  /\ Fail("connect")
  /\ UNCHANGED <<mainVars, stop, limit, sendVars, receiveVars, proxyVars>>

\* SIGINT or SIGTERM.  Before main has installed its handler it ends the process.
\* Later, the handler may run on the main thread and interrupt poll or recv, or
\* on LiteLlm's worker and interrupt nothing; send is begun again.
Signal ==
  /\ ~stop /\ pc # "exited"
  /\ \/ pc \in {"parse", "initialize"} /\ Exit(Killed) /\ UNCHANGED <<stop, passed>>
     \/ /\ pc \notin {"parse", "initialize"}
        /\ stop' = TRUE
        /\ passed' = Len(delivered) + (IF pc = "handle" THEN 1 ELSE 0)
        /\ pc' \in IF pc \in {"poll", "recv"} THEN {pc, "check"} ELSE {pc}
        /\ UNCHANGED status
  /\ UNCHANGED <<argv, index, options, error, limit, sendVars, receiveVars, proxyVars>>

-----------------------------------------------------------------------------
MainStep ==
  \/ ParseHelp \/ ParseRefuses \/ ParseOption \/ ParseEnds
  \/ Initialized \/ InitializeFails \/ RunReturns \/ LlmShutdown
  \/ Connects \/ ConnectFails

Exited == pc = "exited" /\ UNCHANGED vars

Next ==
  \/ MainStep \/ Signal \/ Exited
  \/ StreamNext /\ UNCHANGED mainVars

Spec == Init /\ [][Next]_vars

\* The main thread is scheduled and time passes while it waits; so is LiteLlm's
\* worker, and the runtime answers.  The proxy owes nothing.
Fairness ==
  /\ WF_vars(MainStep)
  /\ WF_vars(SessionStep /\ UNCHANGED mainVars)
  /\ WF_vars(CallbackStep /\ UNCHANGED mainVars)

FairSpec == Spec /\ Fairness

-----------------------------------------------------------------------------
Reasons ==
  {"none", "connect", "outgoing limit", "send", "stopping", "timeout", "magic",
   "incoming limit", "handshake", "message", "disconnected", "poll", "closed", "recv"}

\* The variables have their types, and receive_exact never holds more than it was
\* asked for: 8 bytes of a header, or a payload within the limit.
TypeOK ==
  /\ pc \in {"parse", "initialize", "run", "send", "check", "poll", "recv", "handle",
             "ended", "closing", "closed", "shutdown", "exited"}
  /\ stop \in BOOLEAN /\ error \in Reasons
  /\ status \in {Running, Killed, 0, 2, 3}
  /\ status # Running <=> pc = "exited"
  /\ left \in 0 .. HeaderBytes + limit
  /\ pending \in 0..working /\ working \in Nat
  /\ answering \in BOOLEAN /\ closing \in BOOLEAN /\ writable \in BOOLEAN
  /\ part \in {"header", "payload"}
  /\ need \in 1 .. (IF part = "header" THEN HeaderBytes ELSE limit)
  /\ Len(buf) \leq need
  /\ pollLeft \in 0..PollInterval
  /\ taken \in 0..written /\ written \in 0..Len(Bytes(script))

\* The strings of the script before the first that is no frame.
Framed == {k \in 1..Len(script) : \A j \in 1..k : script[j].frame}

\* Those the proxy has written to the end.
WhollyWritten ==
  {k \in Framed : Len(Bytes(SubSeq(script, 1, k))) \leq written}

\* ReceiveFrame returns the payloads of the frames the proxy sent, in their order
\* and each of them whole, however they were cut on the way; nothing after a
\* string that is no frame is taken for one.
DeliveredIsSent ==
  /\ 1..Len(delivered) \subseteq WhollyWritten
  /\ \A k \in 1..Len(delivered) :
       EncodeFrame(delivered[k]) = script[k].bytes

\* A proxy that closes in an orderly way after its last frame loses none of them:
\* the bytes that were there at the close are read to the end first.
ClosedAfterDelivery == error = "closed" => 1..Len(delivered) = WhollyWritten

\* The frames handled are those the proxy sent, and after an orderly close all of
\* them, however the stream was cut into pieces.
FramesFaithful == DeliveredIsSent /\ ClosedAfterDelivery

\* The handshake's deadline holds for the header and the payload together, and is
\* exceeded by no more than one poll, however slowly the bytes drip in.
DeadlineHolds == now < ClockMax

\* hello is refused as too long only when the token has bytes that JSON escapes: the
\* bound on the token and the least frame limit leave room for any other.
HelloFits ==
  error = "outgoing limit" => LET token == options["--auth-token"]
                              IN  token.short + token.control > 0

\* The stop request comes at any time, also while a frame is received.  The frame
\* is handled after it only if ReceiveFrame had looked at the flag for the last time,
\* with all of the payload there; no other is, however much has arrived.
HandledIfPassed == stop => Len(delivered) \leq passed

\* A signal ends the process, whatever it waits for, if the proxy goes on reading
\* what is sent to it or breaks the connection: send, and with it CloseSession, wait
\* for that without a limit.
SignalEndsIfRead == []<>(writable \/ Broken) => (stop ~> pc = "exited")

=============================================================================
