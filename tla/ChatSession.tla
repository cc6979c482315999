---------------------------- MODULE ChatSession -----------------------------
(***************************************************************************)
(* lite-llm-chat (src/tools/lite_llm_chat.cpp): one prompt from a file, or *)
(* a conversation read line by line from standard input.  The tool is      *)
(* sequential; what varies is the input, where it ends, and what the       *)
(* inference runtime, which is external, returns.                          *)
(*                                                                         *)
(* A prompt is the sequence of its lines.  typed and calls are history     *)
(* variables: everything read from standard input, and every call of       *)
(* InferenceRuntime::Generate with its outcome.                            *)
(***************************************************************************)
EXTENDS Naturals, Sequences

CONSTANTS
  Lines,              \* lines that are not commands, the blank line included
  Replies,            \* texts the runtime generates
  Terminated,         \* those that end with a newline
  Empty,              \* the empty text
  MaxInput,           \* lines of standard input
  Arguments,          \* words of the command line, the empty one included
  MaxArguments        \* how many of them

Commands == {"/send", "/clear", "/quit"}
NoWord   == ""        \* the empty argument, and that of an option not given
Failed   == "failed"

ASSUME ChatAssumption ==
  /\ Terminated \subseteq Replies /\ Empty \notin Terminated
  /\ MaxInput \in Nat /\ MaxArguments \in Nat
  /\ Lines \cap Commands = {} /\ Failed \notin Replies

VARIABLES
  argv,               \* the arguments after the program's name
  interactive,        \* arguments.interactive
  pc,                 \* where the tool is
  status,             \* exit status of the process
  draft,              \* the lines of prompt
  history,            \* the messages of the conversation
  session,            \* conversation_id, 0 when config.session_id is not set
  closed,             \* standard input has ended
  freshLine,          \* standard output is at the start of a line
  typed,
  calls

vars == <<argv, interactive, pc, status, draft, history, session, closed,
          freshLine, typed, calls>>

User(lines)      == [role |-> "user", content |-> lines]
Assistant(reply) == [role |-> "assistant", content |-> <<reply>>]

Init ==
  /\ argv \in UNION {[1..n -> Arguments] : n \in 0..MaxArguments}
  /\ interactive = FALSE
  /\ pc = "parse" /\ status = 0
  /\ draft = <<>> /\ history = <<>> /\ session = 0
  /\ closed = FALSE /\ freshLine = TRUE
  /\ typed = <<>> /\ calls = <<>>

Exit(code) == pc' = "exit" /\ status' = code

-----------------------------------------------------------------------------
(***************************************************************************)
(* ParseArguments.  parsed is what the loop has seen so far, and end why   *)
(* it was left before the last argument.                                   *)
(***************************************************************************)
Unparsed ==
  [index |-> 1, config |-> NoWord, prompt |-> NoWord,
   interactive |-> FALSE, end |-> "none"]

\* Mutant: the value is looked at again as an option.
AfterValueAgain(index) == index + 1

\* ReadOptionValue takes the next argument, whatever it looks like.
AfterValue(index) == index + 2

ParseOption(parsed) ==
  LET i == parsed.index
  IN  IF parsed.end # "none" \/ i > Len(argv) THEN parsed
      ELSE CASE argv[i] \in {"-h", "--help"} -> [parsed EXCEPT !.end = "help"]
             [] argv[i] = "-i" -> [parsed EXCEPT !.interactive = TRUE, !.index = i + 1]
             [] argv[i] = "-j" /\ i < Len(argv) ->
                  [parsed EXCEPT !.config = argv[i + 1], !.index = AfterValue(i)]
             [] argv[i] = "-p" /\ i < Len(argv) ->
                  [parsed EXCEPT !.prompt = argv[i + 1], !.index = AfterValue(i)]
             [] OTHER -> [parsed EXCEPT !.end = "error"]

Parsed ==
  LET after[n \in 0..Len(argv)] == IF n = 0 THEN Unparsed ELSE ParseOption(after[n - 1])
  IN  after[Len(argv)]

Complete(parsed) ==
  parsed.config # NoWord /\ parsed.interactive = (parsed.prompt = NoWord)

ParseArguments ==
  /\ pc = "parse"
  /\ interactive' = Parsed.interactive
  /\ CASE Parsed.end = "help" -> Exit(0)
       [] Parsed.end = "error" -> Exit(2)
       [] Parsed.end = "none" -> IF Complete(Parsed) THEN pc' = "create" /\ UNCHANGED status
                                                     ELSE Exit(2)
  /\ UNCHANGED <<argv, draft, history, session, closed, freshLine, typed, calls>>

-----------------------------------------------------------------------------
(***************************************************************************)
(* main and RunFilePrompt.  Nothing reads argv any more.                   *)
(***************************************************************************)
\* Mutant: a status that no caller tells from others.
NoRuntimeVague == 1

NoRuntime == 3

CreateFails ==
  /\ pc = "create"
  /\ Exit(NoRuntime)
  /\ UNCHANGED <<argv, interactive, draft, history, session, closed, freshLine,
                 typed, calls>>

CreateSucceeds ==
  /\ pc = "create"
  /\ pc' = IF interactive THEN "read" ELSE "file"
  /\ session' = IF interactive THEN 1 ELSE 0
  /\ argv' = <<>>
  /\ UNCHANGED <<interactive, status, draft, history, closed, freshLine,
                 typed, calls>>

\* The file cannot be read, or is empty.
ReadFileFails ==
  /\ pc = "file"
  /\ Exit(4)
  /\ UNCHANGED <<argv, interactive, draft, history, session, closed, freshLine,
                 typed, calls>>

ReadFile ==
  /\ pc = "file"
  /\ \E line \in Lines : history' = <<User(<<line>>)>>
  /\ pc' = "generate"
  /\ UNCHANGED <<argv, interactive, status, draft, session, closed, freshLine,
                 typed, calls>>

-----------------------------------------------------------------------------
(***************************************************************************)
(* RunInteractive: getline up to a command or the end of the input.        *)
(***************************************************************************)
MayType == pc = "read" /\ Len(typed) < MaxInput

AddLine(line) == draft' = Append(draft, line)

TypeLine ==
  /\ MayType
  /\ \E line \in Lines : /\ AddLine(line)
                         /\ typed' = Append(typed, line)
  /\ UNCHANGED <<argv, interactive, pc, status, history, session, closed,
                 freshLine, calls>>

TypeQuit ==
  /\ MayType
  /\ typed' = Append(typed, "/quit")
  /\ Exit(0)
  /\ UNCHANGED <<argv, interactive, draft, history, session, closed, freshLine,
                 calls>>

TypeClear ==
  /\ MayType
  /\ typed' = Append(typed, "/clear")
  /\ draft' = <<>> /\ history' = <<>>
  /\ session' = session + 1
  /\ UNCHANGED <<argv, interactive, pc, status, closed, freshLine, calls>>

\* The turn of the user is part of the history before it is answered.
Submit ==
  /\ history' = Append(history, User(draft))
  /\ draft' = <<>>
  /\ pc' = "generate"

TypeSend ==
  /\ MayType
  /\ typed' = Append(typed, "/send")
  /\ IF draft = <<>> THEN UNCHANGED <<pc, draft, history>> ELSE Submit
  /\ UNCHANGED <<argv, interactive, status, session, closed, freshLine, calls>>

\* Mutant: what was typed without a final /send is dropped.
NothingToSubmitAtEnd == TRUE

NothingToSubmit == draft = <<>>

\* getline fails; what was typed so far is submitted without a /send.
InputEnds ==
  /\ pc = "read"
  /\ closed' = TRUE
  /\ IF NothingToSubmit THEN Exit(0) /\ UNCHANGED <<draft, history>>
                        ELSE Submit /\ UNCHANGED status
  /\ UNCHANGED <<argv, interactive, session, freshLine, typed, calls>>

-----------------------------------------------------------------------------
(***************************************************************************)
(* Generate.  The runtime writes the text to standard output as it         *)
(* generates it; BuildQwen3Prompt gives it every message of the history.   *)
(***************************************************************************)
Call(outcome) ==
  calls' = Append(calls, [session |-> session, messages |-> history,
                          at |-> Len(typed), outcome |-> outcome])

AfterStreaming(text, fresh) ==
  IF text = Empty THEN fresh ELSE text \in Terminated

\* Mutant: the test for the final newline is inverted.
FinishInverted(text, fresh) == IF text \in Terminated THEN TRUE ELSE fresh

\* A newline is written unless the text ends with one.
FinishStreamedResponse(text, fresh) ==
  IF text \in Terminated THEN fresh ELSE TRUE

GenerateSucceeds(text) ==
  /\ pc = "generate"
  /\ Call(text)
  /\ freshLine' = FinishStreamedResponse(text, AfterStreaming(text, freshLine))
  /\ IF interactive THEN history' = Append(history, Assistant(text))
                    ELSE UNCHANGED history
  /\ IF interactive /\ ~closed THEN pc' = "read" /\ UNCHANGED status
                               ELSE Exit(0)
  /\ UNCHANGED <<argv, interactive, draft, session, closed, typed>>

\* Mutant: history.pop_back() is forgotten.
WithoutTurnNot(messages) == messages

WithoutTurn(messages) == SubSeq(messages, 1, Len(messages) - 1)

\* Generate throws, or returns a result that is not ok, possibly after it has
\* written some tokens.
GenerateFails ==
  /\ pc = "generate"
  /\ Call(Failed)
  /\ freshLine' \in {freshLine, FALSE}
  /\ IF interactive THEN history' = WithoutTurn(history)
                    ELSE UNCHANGED history
  /\ IF interactive /\ ~closed THEN pc' = "read" /\ UNCHANGED status
                               ELSE Exit(5)
  /\ UNCHANGED <<argv, interactive, draft, session, closed, typed>>

\* The process has ended.
Ended == pc = "exit" /\ UNCHANGED vars

Next ==
  \/ ParseArguments \/ CreateFails \/ CreateSucceeds \/ ReadFileFails \/ ReadFile
  \/ TypeLine \/ TypeQuit \/ TypeClear \/ TypeSend \/ InputEnds
  \/ (\E text \in Replies : GenerateSucceeds(text)) \/ GenerateFails
  \/ Ended

Spec == Init /\ [][Next]_vars

-----------------------------------------------------------------------------
Messages == [role : {"user"}, content : Seq(Lines)]
              \cup [role : {"assistant"}, content : Seq(Replies)]

\* Types; the exit status is one of those main and the two modes return.
TypeOK ==
  /\ interactive \in BOOLEAN /\ closed \in BOOLEAN /\ freshLine \in BOOLEAN
  /\ argv \in Seq(Arguments)
  /\ pc \in {"parse", "create", "file", "read", "generate", "exit"}
  /\ status \in {0, 2, 3, 4, 5}
  /\ draft \in Seq(Lines)
  /\ history \in Seq(Messages)
  /\ session \in Nat
  /\ typed \in Seq(Lines \cup Commands)

\* The turns of a session that were answered before the n-th call.
Answered(sid, n) ==
  LET turns[k \in 0..n-1] ==
        IF k = 0 THEN <<>>
        ELSE LET c == calls[k]
             IN  turns[k - 1] \o
                   (IF c.session = sid /\ c.outcome # Failed
                    THEN <<c.messages[Len(c.messages)], Assistant(c.outcome)>>
                    ELSE <<>>)
  IN  turns[n - 1]

\* Every call sends the complete conversation and nothing else: the turns of
\* its own session that were answered, each with its answer and in order, and
\* the new turn.  A turn whose generation failed is not sent again, and none
\* crosses a /clear; a runtime that reuses the prefix it holds for a
\* session_id therefore never reuses another conversation's.
SendsTheConversation ==
  \A n \in DOMAIN calls :
    LET m == calls[n].messages
    IN  SubSeq(m, 1, Len(m) - 1) = Answered(calls[n].session, n)

\* The last command typed before position n, 0 when there is none.
LastCommand(n) ==
  LET c == {i \in 1..(n - 1) : typed[i] \in Commands}
  IN  IF c = {} THEN 0 ELSE CHOOSE i \in c : \A j \in c : j \leq i

\* The new turn of a call is every line typed since the previous command,
\* blank lines included, up to the /send or to the end of the input.
SendsWhatWasTyped ==
  interactive => \A n \in DOMAIN calls :
    LET m    == calls[n].messages
        at   == calls[n].at
        last == IF typed[at] = "/send" THEN at ELSE at + 1
    IN  m[Len(m)].content = SubSeq(typed, LastCommand(last) + 1, last - 1)

\* After an answered turn standard output is at the start of a line when the
\* tool asks for input, whatever the text and whatever failed turns left there.
AnswerEndsItsLine ==
  pc = "read" /\ calls # <<>> /\ calls[Len(calls)].outcome # Failed => freshLine

\* The places of the command line that are options: those after -j or -p are not.
IsOption ==
  [i \in 1..Len(argv) |->
     LET run == {k \in 0..i-1 : \A j \in i-k..i-1 : argv[j] \in {"-j", "-p"}}
     IN  (CHOOSE k \in run : \A j \in run : j \leq k) % 2 = 0]

OptionsAt(words) == {i \in 1..Len(argv) : IsOption[i] /\ argv[i] \in words}

\* The value an option has in the end, empty when it has none.
ValueOf(word) ==
  LET at == OptionsAt({word})
  IN  IF at = {} THEN NoWord ELSE argv[1 + CHOOSE i \in at : \A j \in at : j \leq i]

\* The first place where the command line goes wrong or asks for help.
Ends == {i \in 1..Len(argv) : /\ IsOption[i]
                              /\ argv[i] \in {"-j", "-p"} => i = Len(argv)
                              /\ argv[i] # "-i"}
FirstEnd == CHOOSE i \in Ends : \A j \in Ends : i \leq j

\* The tool goes on to the runtime exactly when the command line, read as options
\* and their values, names a configuration and one of the two modes, and then in
\* that mode: a value that looks like an option selects nothing, and of an option
\* given twice the last value counts.
StartsAsAsked ==
  /\ pc = "create" =>
       /\ Ends = {} /\ ValueOf("-j") # NoWord
       /\ interactive <=> OptionsAt({"-i"}) # {}
       /\ interactive <=> ValueOf("-p") = NoWord
  /\ pc = "exit" /\ status = 2 =>
       IF Ends # {} THEN argv[FirstEnd] \notin {"-h", "--help"}
       ELSE ValueOf("-j") = NoWord \/ (OptionsAt({"-i"}) # {}) = (ValueOf("-p") # NoWord)

\* Lines that no command followed when the input ended.
Unsent == closed /\ typed # <<>> /\ typed[Len(typed)] \in Lines

\* The end of the input submits the lines that were not sent, all of the turn, and
\* the exit status is 5 exactly when the call for them, or for the prompt file,
\* failed.  A turn sent with /send does not count: the tool exits with 0 even when
\* that one failed and the input ends after it.
ExitTellsUnsent ==
  pc = "exit" =>
    LET last == calls[Len(calls)]
    IN  /\ Unsent => calls # <<>> /\ last.at = Len(typed)
        /\ status = 5 <=> /\ Unsent \/ ~interactive
                          /\ calls # <<>> /\ last.outcome = Failed
        /\ closed /\ ~Unsent => status = 0

\* The prompt of a call is the conversation of its session, whatever failed and
\* was cleared before, and then all of what was typed for this turn.
PromptsAreTheConversation == SendsTheConversation /\ SendsWhatWasTyped
=============================================================================
