------------------------ MODULE ReverseClientProofs ------------------------
(***************************************************************************)
(* Proofs about lite-server's reverse client, for any numbers of requests, *)
(* sessions and control frames, and any delays.                            *)
(***************************************************************************)
EXTENDS ReverseClient, FiniteSetTheorems, TLAPS

-----------------------------------------------------------------------------
(***************************************************************************)
(* The inductive invariant, in layers.  Each layer is preserved given the  *)
(* ones before it.                                                         *)
(***************************************************************************)
InSession ==
  pc \in {"lock", "head", "tail", "ack", "receive", "admit", "generate", "inline",
          "closing", "asleep", "woken", "close"}

Flags ==
  /\ stop \in BOOLEAN /\ authenticated \in BOOLEAN /\ stalled \in BOOLEAN
  /\ closing \in [Sessions -> BOOLEAN] /\ shut \in [Sessions -> BOOLEAN]

MainFrames == {Frame("hello"), Frame("status"), Frame("pong"), Frame("error")}

\* The variables of the main thread, and the descriptor: it is open exactly during
\* a session.
MainTypes ==
  /\ pc \in MainStates
  /\ conn \in 0..MaxSessions
  /\ fd = IF InSession THEN conn ELSE 0
  /\ InSession => conn # 0
  /\ frame \in MainFrames \cup {None}
  /\ frame # None <=> pc \in {"lock", "head", "tail"}
  /\ cur \in Requests \cup {None}
  /\ cur # None <=> pc \in {"admit", "generate", "inline"}

\* The other variables.  That pending_callbacks is never negative, nor more than
\* there are requests, comes with PendingExact.
OtherTypes ==
  /\ delay \in Nat /\ failures \in 0..MaxFailures
  /\ pending \in [Sessions -> Int]
  /\ sendMutex \in [Sessions -> Requests \cup {Main, None}]
  /\ sess \in [Requests -> 0..MaxSessions]
  /\ cb \in [Requests -> CallbackStates]
  /\ phase \in [Requests -> LLM!Phases]
  /\ peer \in [Sessions -> {"open", "closed", "reset"}]
  /\ controls \in 0..MaxControls
  /\ wire \in [Sessions -> Seq(Frames \X {1, 2})]

\* Where a request is: LiteLlm's view of the call and the callback's own state
\* agree, and the main thread is inside GenerateAsync exactly while a rejected
\* call's callback runs.
RequestStages ==
  /\ \A r \in Requests :
       /\ sess[r] \leq conn
       /\ phase[r] # "new" => sess[r] # 0
       /\ phase[r] \in {"new", "active"} <=> cb[r] = "none"
       /\ phase[r] = "done" <=> cb[r] \in {"done", "thrown"}
       /\ phase[r] = "rejected" <=> pc = "inline" /\ cur = r
  /\ cur # None => sess[cur] = conn
  /\ pc \in {"admit", "generate"} => phase[cur] = "new"

Stages == MainTypes /\ OtherTypes /\ RequestStages

ControlInv == Flags /\ Stages

\* The calls that pending_callbacks of their session counts.
Counted(r) == Outstanding(r) \/ phase[r] = "active" \/ (r = cur /\ pc = "generate")

\* The session has handled no request yet, or waits for no callback any more.
Idle == pc \in {"ack", "close"} \/ frame \in {Frame("hello"), Frame("status")}

\* A call that is counted belongs to the connection that is open, and the session
\* is neither in its handshake nor about to close the descriptor.
CountedInSession == \A r \in Requests : Counted(r) => sess[r] = fd /\ ~Idle

CountInv == PendingExact /\ CountedInSession

\* A callback that sends holds send_mutex of its session, and so does the main
\* thread except for hello; and nobody else does.
MutexInv ==
  /\ \A s \in Sessions :
       /\ sendMutex[s] \in Requests => cb[sendMutex[s]] \in {"head", "tail"}
       /\ sendMutex[s] = Main => pc \in {"head", "tail"}
  /\ \A r \in Requests : cb[r] \in {"head", "tail"} => sendMutex[sess[r]] = r
  /\ pc \in {"head", "tail"} /\ frame # Frame("hello") => sendMutex[conn] = Main

\* The last frame of a connection is cut, and then half of which frame.
Cut(w) == Len(w) % 2 = 1

Half(w, f) == Cut(w) /\ w[Len(w)] = <<f, 1>>

\* A connection ends in half a frame only while a thread is about to send the other
\* half, or for good once the connection is broken.
HalfFrames ==
  /\ \A s \in Sessions : s > conn => wire[s] = <<>>
  /\ pc = "tail" => Half(wire[conn], frame)
  /\ \A r \in Requests : cb[r] = "tail" => Half(wire[sess[r]], ChatResponse(r))
  /\ ~Broken /\ Cut(wire[fd]) =>
       pc = "tail" \/ \E r \in Requests : cb[r] = "tail"

WireInv == FramesWhole /\ HalfFrames

\* The callback has begun to send its response, or will not.
BeyondSend(r) ==
  cb[r] \in {"tail", "fail", "shut", "leave", "notify", "return", "done"}

\* A response is on the wire only where the request came from, only after its
\* callback began to send it, and once.
AnswersOnce ==
  \A s \in Sessions : \A r \in Requests : \A i \in DOMAIN wire[s] :
    wire[s][i] = <<ChatResponse(r), 1>> =>
      /\ sess[r] = s /\ BeyondSend(r)
      /\ \A j \in DOMAIN wire[s] : wire[s][j] = <<ChatResponse(r), 1>> => j = i

-----------------------------------------------------------------------------
(***************************************************************************)
(* Types, and where the threads and the requests are.                      *)
(***************************************************************************)
\* No request is anywhere at first, and there is no connection.
LEMMA ControlInit == Init => ControlInv
<1> SUFFICES ASSUME Init PROVE ControlInv
  OBVIOUS
<1>1. Flags
  BY DEF Init, Flags
<1> QED
  BY <1>1, ClientAssumption, NamesAssumption
  DEF Init, LLM!Init, ControlInv, Stages, MainTypes, OtherTypes, RequestStages,
      InSession,
      MainStates, CallbackStates, LLM!Phases

\* The flags keep their types.
LEMMA FlagsStep == Flags /\ [Next]_vars => Flags'
BY ZenonT(60)
DEF Flags, vars, mainVars, mainData, sessionVars, requestVars, peerVars,
   netVars, Next, MainStep, MessageArrives, Environment, Exited, CallbackStep,
   AdmitRequest, AfterFailedSend, AfterSend, AwaitCallbacks, CallbackChecks,
   CallbackCloses, CallbackLeaves, CallbackLocks, CallbackNotifies,
   CallbackReturns, CallbackSendFails, CallbackSendsHead, CallbackSendsTail,
   CallbackShutsSocket, CallbackStarts, CallbackThrows, CloseSession,
   CloseSessionWakes, ConnectFails, ConnectSucceeds, CountCallback,
   DelayAfterSession, GenerateAccepted, GenerateRejected, Grow, HandshakeFails,
   HelloAcknowledged, LLM!Accept, LLM!Complete, LLM!CompleteInline, LLM!Finish,
   LLM!In, LLM!Moves, LLM!Reject, LlmShutdown, LockSend, MainLocks,
   MainSendFails, MainSendsHead, MainSendsTail, NextDelay, NotifyAll,
   PeerLeaves, PeerResumes, PeerStalls, Put, ReceiveChatRequest, ReceiveControl,
   ReceiveFails, ReceiveInvalid, Receives, Returns, RunLoop, SessionEnds,
   ShutdownAndClose, SleepForReconnect, StopRequested, UnlockFailedSend,
   UnlockSend

\* What Put appends goes to the open connection.
LEMMA PutTyped ==
  ASSUME MainTypes, OtherTypes, NEW f \in Frames, NEW part \in {1, 2}, Put(f, part)
  PROVE  /\ fd \in Sessions /\ fd = conn /\ InSession
         /\ wire' = [wire EXCEPT ![fd] = Append(wire[fd], <<f, part>>)]
         /\ wire' \in [Sessions -> Seq(Frames \X {1, 2})]
<1>1. fd \in Sessions /\ fd = conn /\ InSession
  BY ClientAssumption DEF MainTypes, Put, Broken, Sessions
<1>2. Append(wire[fd], <<f, part>>) \in Seq(Frames \X {1, 2})
  BY <1>1 DEF OtherTypes
<1> QED
  BY <1>1, <1>2 DEF OtherTypes, Put

\* The main thread's frames and the responses are frames.
LEMMA FrameTypes ==
  /\ MainFrames \subseteq Frames /\ None \notin MainFrames
  /\ \A r \in Requests : ChatResponse(r) \in Frames \ MainFrames
  /\ \A r, q \in Requests : ChatResponse(r) = ChatResponse(q) => r = q
BY NamesAssumption DEF MainFrames, Frames, Frame, ChatResponse

\* Every step keeps the types, and LiteLlm's view of a request in agreement with
\* the callback's and the main thread's.
LEMMA ControlStep == ControlInv /\ [Next]_vars => ControlInv'
<1> SUFFICES ASSUME ControlInv, [Next]_vars PROVE Stages'
  BY FlagsStep DEF ControlInv, Stages
<1> USE ClientAssumption, NamesAssumption DEF
      ControlInv, Stages, MainTypes, OtherTypes, RequestStages, InSession,
      MainStates, CallbackStates, LLM!Phases, MainFrames, Frames, Frame, ChatResponse, Sessions,
      mainData, mainVars, sessionVars, requestVars, peerVars, netVars
<1>1. ASSUME RunLoop PROVE Stages'
  BY <1>1 DEF RunLoop
<1>2. ASSUME ConnectFails PROVE Stages'
  BY <1>2 DEF ConnectFails
<1>3. ASSUME ConnectSucceeds PROVE Stages'
  BY <1>3 DEF ConnectSucceeds
<1>4. ASSUME SessionEnds PROVE Stages'
  BY <1>4 DEF SessionEnds, ShutdownAndClose, DelayAfterSession
<1>5. ASSUME SleepForReconnect PROVE Stages'
  BY <1>5 DEF SleepForReconnect, NextDelay, Grow
<1>6. ASSUME LlmShutdown PROVE Stages'
  BY <1>6 DEF LlmShutdown, LLM!In
<1>7. ASSUME MainLocks PROVE Stages'
  BY <1>7 DEF MainLocks, LockSend
<1>8. ASSUME MainSendsHead PROVE Stages'
  <2>1. wire' \in [Sessions -> Seq(Frames \X {1, 2})]
    BY <1>8, PutTyped, FrameTypes DEF MainSendsHead
  <2> QED
    BY <1>8, <2>1 DEF MainSendsHead
<1>9. ASSUME MainSendsTail PROVE Stages'
  <2>1. wire' \in [Sessions -> Seq(Frames \X {1, 2})]
    BY <1>9, PutTyped, FrameTypes DEF MainSendsTail
  <2> QED
    BY <1>9, <2>1 DEF MainSendsTail, UnlockSend
<1>10. ASSUME MainSendFails PROVE Stages'
  BY <1>10 DEF MainSendFails, UnlockFailedSend, UnlockSend
<1>11. ASSUME HandshakeFails PROVE Stages'
  BY <1>11 DEF HandshakeFails
<1>12. ASSUME ReceiveFails PROVE Stages'
  BY <1>12 DEF ReceiveFails
<1>13. ASSUME AdmitRequest PROVE Stages'
  BY <1>13 DEF AdmitRequest, CountCallback
<1>14. ASSUME GenerateAccepted PROVE Stages'
  BY <1>14 DEF GenerateAccepted, LLM!Accept, LLM!Moves
<1>15. ASSUME GenerateRejected PROVE Stages'
  BY <1>15 DEF GenerateRejected, LLM!Reject, LLM!Moves
<1>16. ASSUME CloseSession PROVE Stages'
  BY <1>16 DEF CloseSession, AwaitCallbacks
<1>17. ASSUME CloseSessionWakes PROVE Stages'
  BY <1>17 DEF CloseSessionWakes, AwaitCallbacks
<1>18. ASSUME HelloAcknowledged PROVE Stages'
  BY <1>18 DEF HelloAcknowledged
<1>19. ASSUME ReceiveInvalid PROVE Stages'
  BY <1>19 DEF ReceiveInvalid, Receives
<1>20. ASSUME ReceiveControl PROVE Stages'
  BY <1>20 DEF ReceiveControl, Receives
<1>21. ASSUME StopRequested PROVE Stages'
  BY <1>21 DEF StopRequested
<1>22. ASSUME PeerLeaves PROVE Stages'
  BY <1>22 DEF PeerLeaves
<1>23. ASSUME PeerStalls PROVE Stages'
  BY <1>23 DEF PeerStalls
<1>24. ASSUME PeerResumes PROVE Stages'
  BY <1>24 DEF PeerResumes
<1>25. ASSUME NEW r \in Requests, ReceiveChatRequest(r) PROVE Stages'
  <2>1. conn \in 1..MaxSessions /\ conn' = conn /\ pc' = "admit" /\ cur' = r
    BY <1>25 DEF ReceiveChatRequest, Receives
  <2>2. /\ phase[r] = "new" /\ UNCHANGED <<cb, phase>>
        /\ sess' = [sess EXCEPT ![r] = conn]
    BY <1>25 DEF ReceiveChatRequest
  <2>3. MainTypes' /\ OtherTypes'
    BY <1>25, <2>1 DEF ReceiveChatRequest, Receives
  <2>4. RequestStages'
    BY <1>25, <2>1, <2>2 DEF ReceiveChatRequest, Receives
  <2> QED
    BY <2>3, <2>4
<1>26. ASSUME NEW r \in Requests, CallbackStarts(r) PROVE Stages'
  BY <1>26 DEF CallbackStarts, LLM!Finish, LLM!Moves
<1>27. ASSUME NEW r \in Requests, CallbackChecks(r) PROVE Stages'
  BY <1>27 DEF CallbackChecks
<1>28. ASSUME NEW r \in Requests, CallbackLocks(r) PROVE Stages'
  BY <1>28 DEF CallbackLocks, LockSend
<1>29. ASSUME NEW r \in Requests, CallbackSendsHead(r) PROVE Stages'
  <2>1. wire' \in [Sessions -> Seq(Frames \X {1, 2})]
    BY <1>29, PutTyped, FrameTypes DEF CallbackSendsHead
  <2> QED
    BY <1>29, <2>1 DEF CallbackSendsHead
<1>30. ASSUME NEW r \in Requests, CallbackSendsTail(r) PROVE Stages'
  <2>1. wire' \in [Sessions -> Seq(Frames \X {1, 2})]
    BY <1>30, PutTyped, FrameTypes DEF CallbackSendsTail
  <2> QED
    BY <1>30, <2>1 DEF CallbackSendsTail, UnlockSend, AfterSend
<1>31. ASSUME NEW r \in Requests, CallbackSendFails(r) PROVE Stages'
  BY <1>31 DEF CallbackSendFails, UnlockSend, AfterFailedSend
<1>32. ASSUME NEW r \in Requests, CallbackCloses(r) PROVE Stages'
  BY <1>32 DEF CallbackCloses
<1>33. ASSUME NEW r \in Requests, CallbackShutsSocket(r) PROVE Stages'
  BY <1>33 DEF CallbackShutsSocket
<1>34. ASSUME NEW r \in Requests, CallbackLeaves(r) PROVE Stages'
  BY <1>34 DEF CallbackLeaves
<1>35. ASSUME NEW r \in Requests, CallbackNotifies(r) PROVE Stages'
  BY <1>35 DEF CallbackNotifies, NotifyAll
<1>36. ASSUME NEW r \in Requests, CallbackReturns(r) PROVE Stages'
  BY <1>36 DEF CallbackReturns, Returns, LLM!Complete, LLM!CompleteInline, LLM!Moves
<1>37. ASSUME NEW r \in Requests, CallbackThrows(r) PROVE Stages'
  <2>1. cb' = [cb EXCEPT ![r] = "thrown"] /\ UNCHANGED <<sess, conn>>
    BY <1>37 DEF CallbackThrows
  <2>2. CASE LLM!Complete(r) /\ UNCHANGED <<pc, cur>>
    BY <1>37, <2>1, <2>2 DEF CallbackThrows, UnlockSend, LLM!Complete, LLM!Moves
  <2>3. CASE LLM!CompleteInline(r) /\ pc' = "receive" /\ cur' = None
    BY <1>37, <2>1, <2>3
    DEF CallbackThrows, UnlockSend, LLM!CompleteInline, LLM!Moves
  <2> QED
    BY <1>37, <2>2, <2>3 DEF CallbackThrows, Returns
<1>38. CASE UNCHANGED vars
  BY <1>38 DEF vars, mainVars
<1> QED
  BY <1>1, <1>2, <1>3, <1>4, <1>5, <1>6, <1>7, <1>8, <1>9, <1>10, <1>11, <1>12,
     <1>13, <1>14, <1>15, <1>16, <1>17, <1>18, <1>19, <1>20, <1>21, <1>22,
     <1>23, <1>24, <1>25, <1>26, <1>27, <1>28, <1>29, <1>30, <1>31, <1>32,
     <1>33, <1>34, <1>35, <1>36, <1>37, <1>38
  DEF Next, MainStep, MessageArrives, Environment, Exited, CallbackStep

-----------------------------------------------------------------------------
(***************************************************************************)
(* pending_callbacks, and what CloseSession's wait for it protects.        *)
(***************************************************************************)
CountedOf(s) == {r \in Requests : sess[r] = s /\ Counted(r)}

\* PendingExact, with the counted calls named.
LEMMA CountsExact ==
  /\ PendingExact <=> \A s \in Sessions : pending[s] = Cardinality(CountedOf(s))
  /\ PendingExact' <=> \A s \in Sessions : pending'[s] = Cardinality(CountedOf(s)')
BY DEF PendingExact, CountedOf, Counted

\* There are finitely many calls to count.
LEMMA CountedFinite ==
  \A s :
    /\ IsFiniteSet(CountedOf(s))
    /\ Cardinality(CountedOf(s)) \in 0..Cardinality(Requests)
<1> SUFFICES ASSUME NEW s
             PROVE  /\ IsFiniteSet(CountedOf(s))
                    /\ Cardinality(CountedOf(s)) \in 0..Cardinality(Requests)
  OBVIOUS
<1>1. CountedOf(s) \in SUBSET Requests /\ IsFiniteSet(Requests)
  BY ClientAssumption DEF CountedOf
<1> QED
  BY <1>1, FS_Subset, FS_CardinalityType

\* When CloseSession finds pending_callbacks at 0, no call of any session is
\* counted.
LEMMA NoneCounted ==
  ASSUME ControlInv, CountInv, InSession, pending[conn] = 0
  PROVE  \A r \in Requests : ~Counted(r)
<1>1. conn \in Sessions /\ fd = conn
  BY DEF ControlInv, Stages, MainTypes, Sessions
<1>2. CountedOf(conn) = {}
  BY <1>1, CountsExact, CountedFinite, FS_EmptySet DEF CountInv
<1> QED
  BY <1>1, <1>2 DEF CountInv, CountedInSession, CountedOf

\* A step that neither counts a call nor stops to count one.
SameCounts ==
  /\ pending' = pending
  /\ \A q \in Requests :
       /\ Counted(q)' <=> Counted(q)
       /\ Counted(q) => sess'[q] = sess[q]
  /\ CountedInSession'

\* Such a step leaves pending_callbacks exact.
LEMMA CountsKept ==
  ASSUME CountInv, SameCounts
  PROVE  CountInv'
<1>1. \A s \in Sessions : CountedOf(s)' = CountedOf(s)
  BY DEF SameCounts, CountedOf, Counted, Outstanding
<1> QED
  BY <1>1, CountsExact DEF SameCounts, CountInv

\* One more call is counted.
LEMMA CountUp ==
  ASSUME ControlInv, CountInv, NEW t \in Sessions, NEW q \in Requests,
         q \notin CountedOf(t), CountedOf(t)' = CountedOf(t) \cup {q},
         \A s \in Sessions \ {t} : CountedOf(s)' = CountedOf(s),
         pending' = [pending EXCEPT ![t] = @ + 1]
  PROVE  PendingExact'
<1>1. Cardinality(CountedOf(t)') = Cardinality(CountedOf(t)) + 1
  BY CountedFinite, FS_AddElement
<1> QED
  BY <1>1, CountsExact DEF CountInv, ControlInv, Stages, OtherTypes

\* One call less is counted.
LEMMA CountDown ==
  ASSUME ControlInv, CountInv, NEW t \in Sessions, NEW q \in Requests,
         q \in CountedOf(t), CountedOf(t)' = CountedOf(t) \ {q},
         \A s \in Sessions \ {t} : CountedOf(s)' = CountedOf(s),
         pending' = [pending EXCEPT ![t] = @ - 1]
  PROVE  PendingExact'
<1>1. Cardinality(CountedOf(t)') = Cardinality(CountedOf(t)) - 1
  BY CountedFinite, FS_RemoveElement
<1> QED
  BY <1>1, CountsExact DEF CountInv, ControlInv, Stages, OtherTypes

\* No call is counted at first.
LEMMA CountInit == Init => CountInv
<1> SUFFICES ASSUME Init PROVE CountInv
  OBVIOUS
<1>1. \A r \in Requests : ~Counted(r)
  BY DEF Init, LLM!Init, Counted, Outstanding
<1>2. \A s \in Sessions : CountedOf(s) = {} /\ pending[s] = 0
  BY <1>1 DEF CountedOf, Init
<1> QED
  BY <1>1, <1>2, FS_EmptySet, CountsExact DEF CountInv, CountedInSession

\* Every step keeps the count exact, and a counted call in the open session: the
\* main thread passes CloseSession only when no call is counted.
LEMMA CountStep == ControlInv /\ CountInv /\ [Next]_vars => CountInv'
<1> SUFFICES ASSUME ControlInv, CountInv, [Next]_vars PROVE CountInv'
  OBVIOUS
<1> USE ClientAssumption, NamesAssumption, FrameTypes DEF
      ControlInv, Stages, MainTypes, OtherTypes, RequestStages, InSession,
      MainStates, CallbackStates, LLM!Phases, MainFrames, Frame, Sessions,
      CountInv, CountedInSession, SameCounts, Counted, Outstanding, Idle,
      mainData, mainVars, sessionVars, requestVars, peerVars, netVars
<1>1. ASSUME RunLoop PROVE SameCounts
  BY <1>1 DEF RunLoop
<1>2. ASSUME ConnectFails PROVE SameCounts
  BY <1>2 DEF ConnectFails
<1>3. ASSUME ConnectSucceeds PROVE SameCounts
  BY <1>3 DEF ConnectSucceeds
<1>4. ASSUME SessionEnds PROVE SameCounts
  BY <1>4 DEF SessionEnds, ShutdownAndClose, DelayAfterSession
<1>5. ASSUME SleepForReconnect PROVE SameCounts
  BY <1>5 DEF SleepForReconnect, NextDelay, Grow
<1>6. ASSUME LlmShutdown PROVE SameCounts
  BY <1>6 DEF LlmShutdown, LLM!In
<1>7. ASSUME MainLocks PROVE SameCounts
  BY <1>7 DEF MainLocks, LockSend
<1>8. ASSUME MainSendsHead PROVE SameCounts
  BY <1>8 DEF MainSendsHead, Put
<1>9. ASSUME MainSendsTail PROVE SameCounts
  BY <1>9 DEF MainSendsTail, Put, UnlockSend
<1>10. ASSUME MainSendFails PROVE SameCounts
  BY <1>10 DEF MainSendFails, UnlockFailedSend, UnlockSend
<1>11. ASSUME HandshakeFails PROVE SameCounts
  BY <1>11 DEF HandshakeFails
<1>12. ASSUME ReceiveFails PROVE SameCounts
  BY <1>12 DEF ReceiveFails
<1>13. ASSUME AdmitRequest PROVE SameCounts \/ CountInv'
  <2>1. CASE ~Admits /\ pc' = "closing" /\ cur' = None /\ UNCHANGED pending
    BY <1>13, <2>1 DEF AdmitRequest
  <2>2. CASE Admits /\ CountCallback /\ pc' = "generate" /\ UNCHANGED cur
    <3>1. cur \in Requests /\ sess[cur] = conn /\ conn \in Sessions /\ ~Counted(cur)
      BY <1>13 DEF AdmitRequest
    <3>2. \A q \in Requests : Counted(q)' <=> Counted(q) \/ q = cur
      BY <1>13, <2>2 DEF AdmitRequest
    <3> PICK t \in Sessions : t = conn
      BY <3>1
    <3> PICK q \in Requests : q = cur
      BY <3>1
    <3>3. /\ CountedOf(t)' = CountedOf(t) \cup {q}
          /\ \A s \in Sessions \ {t} : CountedOf(s)' = CountedOf(s)
      BY <1>13, <3>1, <3>2 DEF AdmitRequest, CountedOf
    <3>4. q \notin CountedOf(t)
      BY <3>1 DEF CountedOf
    <3>5. PendingExact'
      BY <2>2, <3>3, <3>4, CountUp DEF CountCallback
    <3>6. CountedInSession'
      BY <1>13, <2>2, <3>1, <3>2 DEF AdmitRequest
    <3> QED
      BY <3>5, <3>6
  <2> QED
    BY <1>13, <2>1, <2>2 DEF AdmitRequest
<1>14. ASSUME GenerateAccepted PROVE SameCounts
  BY <1>14 DEF GenerateAccepted, LLM!Accept, LLM!Moves
<1>15. ASSUME GenerateRejected PROVE SameCounts
  BY <1>15 DEF GenerateRejected, LLM!Reject, LLM!Moves
<1>16. ASSUME CloseSession PROVE SameCounts
  <2>1. pending[conn] = 0 => \A q \in Requests : ~Counted(q)
    BY NoneCounted
  <2> QED
    BY <1>16, <2>1 DEF CloseSession, AwaitCallbacks
<1>17. ASSUME CloseSessionWakes PROVE SameCounts
  <2>1. pending[conn] = 0 => \A q \in Requests : ~Counted(q)
    BY NoneCounted
  <2> QED
    BY <1>17, <2>1 DEF CloseSessionWakes, AwaitCallbacks
<1>18. ASSUME HelloAcknowledged PROVE SameCounts
  BY <1>18 DEF HelloAcknowledged
<1>19. ASSUME ReceiveInvalid PROVE SameCounts
  BY <1>19 DEF ReceiveInvalid, Receives
<1>20. ASSUME ReceiveControl PROVE SameCounts
  BY <1>20 DEF ReceiveControl, Receives
<1>21. ASSUME StopRequested PROVE SameCounts
  BY <1>21 DEF StopRequested
<1>22. ASSUME PeerLeaves PROVE SameCounts
  BY <1>22 DEF PeerLeaves
<1>23. ASSUME PeerStalls PROVE SameCounts
  BY <1>23 DEF PeerStalls
<1>24. ASSUME PeerResumes PROVE SameCounts
  BY <1>24 DEF PeerResumes
<1>25. ASSUME NEW r \in Requests, ReceiveChatRequest(r) PROVE SameCounts
  <2>1. ~Counted(r) /\ \A q \in Requests : Counted(q)' <=> Counted(q)
    BY <1>25 DEF ReceiveChatRequest, Receives
  <2>2. /\ sess' = [sess EXCEPT ![r] = conn]
        /\ pending' = pending /\ fd' = fd /\ ~Idle'
    BY <1>25 DEF ReceiveChatRequest, Receives
  <2> QED
    BY <2>1, <2>2
<1>26. ASSUME NEW r \in Requests, CallbackStarts(r) PROVE SameCounts
  BY <1>26 DEF CallbackStarts, LLM!Finish, LLM!Moves
<1>27. ASSUME NEW r \in Requests, CallbackChecks(r) PROVE SameCounts
  BY <1>27 DEF CallbackChecks
<1>28. ASSUME NEW r \in Requests, CallbackLocks(r) PROVE SameCounts
  BY <1>28 DEF CallbackLocks, LockSend
<1>29. ASSUME NEW r \in Requests, CallbackSendsHead(r) PROVE SameCounts
  BY <1>29 DEF CallbackSendsHead, Put
<1>30. ASSUME NEW r \in Requests, CallbackSendsTail(r) PROVE SameCounts
  BY <1>30 DEF CallbackSendsTail, Put, UnlockSend, AfterSend
<1>31. ASSUME NEW r \in Requests, CallbackSendFails(r) PROVE SameCounts
  BY <1>31 DEF CallbackSendFails, UnlockSend, AfterFailedSend
<1>32. ASSUME NEW r \in Requests, CallbackCloses(r) PROVE SameCounts
  BY <1>32 DEF CallbackCloses
<1>33. ASSUME NEW r \in Requests, CallbackShutsSocket(r) PROVE SameCounts
  BY <1>33 DEF CallbackShutsSocket
<1>34. ASSUME NEW r \in Requests, CallbackLeaves(r) PROVE CountInv'
  <2>1. sess[r] \in Sessions /\ Counted(r)
    BY <1>34 DEF CallbackLeaves
  <2>2. \A q \in Requests : Counted(q)' <=> Counted(q) /\ q # r
    BY <1>34 DEF CallbackLeaves
  <2> PICK t \in Sessions : t = sess[r]
    BY <2>1
  <2>3. /\ CountedOf(t)' = CountedOf(t) \ {r}
        /\ \A s \in Sessions \ {t} : CountedOf(s)' = CountedOf(s)
    BY <1>34, <2>1, <2>2 DEF CallbackLeaves, CountedOf
  <2>4. r \in CountedOf(t)
    BY <2>1 DEF CountedOf
  <2>5. PendingExact'
    BY <1>34, <2>3, <2>4, CountDown DEF CallbackLeaves
  <2>6. CountedInSession'
    BY <1>34, <2>2 DEF CallbackLeaves
  <2> QED
    BY <2>5, <2>6
<1>35. ASSUME NEW r \in Requests, CallbackNotifies(r) PROVE SameCounts
  BY <1>35 DEF CallbackNotifies, NotifyAll
<1>36. ASSUME NEW r \in Requests, CallbackReturns(r) PROVE SameCounts
  BY <1>36 DEF CallbackReturns, Returns, LLM!Complete, LLM!CompleteInline, LLM!Moves
<1>37. ASSUME NEW r \in Requests, CallbackThrows(r) PROVE SameCounts
  BY <1>37
  DEF CallbackThrows, Returns, UnlockSend, LLM!Complete, LLM!CompleteInline,
      LLM!Moves
<1>38. CASE UNCHANGED vars
  <2>1. SameCounts
    BY <1>38 DEF vars, mainVars
  <2> QED
    BY <2>1, CountsKept
<1> QED
  BY <1>1, <1>2, <1>3, <1>4, <1>5, <1>6, <1>7, <1>8, <1>9, <1>10, <1>11, <1>12,
     <1>13, <1>14, <1>15, <1>16, <1>17, <1>18, <1>19, <1>20, <1>21, <1>22,
     <1>23, <1>24, <1>25, <1>26, <1>27, <1>28, <1>29, <1>30, <1>31, <1>32,
     <1>33, <1>34, <1>35, <1>36, <1>37, <1>38, CountsKept
  DEF Next, MainStep, MessageArrives, Environment, Exited, CallbackStep

\* The type invariant's bound on pending_callbacks.
LEMMA PendingTyped ==
  ControlInv /\ CountInv => pending \in [Sessions -> 0..Cardinality(Requests)]
<1> SUFFICES ASSUME ControlInv, CountInv, NEW s \in Sessions
             PROVE  pending[s] \in 0..Cardinality(Requests)
  BY DEF ControlInv, Stages, OtherTypes
<1> QED
  BY CountsExact, CountedFinite DEF CountInv

-----------------------------------------------------------------------------
(***************************************************************************)
(* send_mutex.                                                             *)
(***************************************************************************)
\* Nobody holds a mutex at first.
LEMMA MutexInit == Init => MutexInv
BY NamesAssumption DEF Init, MutexInv

\* Every step keeps send_mutex held by the thread that sends, and by no other.
LEMMA MutexStep == ControlInv /\ CountInv /\ MutexInv /\ [Next]_vars => MutexInv'
<1> SUFFICES ASSUME ControlInv, CountInv, MutexInv, [Next]_vars PROVE MutexInv'
  OBVIOUS
<1> USE ClientAssumption, NamesAssumption, FrameTypes DEF
      ControlInv, Stages, MainTypes, OtherTypes, RequestStages, InSession,
      MainStates, CallbackStates, LLM!Phases, MainFrames, Frame, Sessions, CountInv,
      CountedInSession, Counted, Outstanding, Idle, MutexInv,
      mainData, mainVars, sessionVars, requestVars, peerVars, netVars
<1>1. ASSUME RunLoop PROVE MutexInv'
  BY <1>1 DEF RunLoop
<1>2. ASSUME ConnectFails PROVE MutexInv'
  BY <1>2 DEF ConnectFails
<1>3. ASSUME ConnectSucceeds PROVE MutexInv'
  BY <1>3 DEF ConnectSucceeds
<1>4. ASSUME SessionEnds PROVE MutexInv'
  BY <1>4 DEF SessionEnds, ShutdownAndClose, DelayAfterSession
<1>5. ASSUME SleepForReconnect PROVE MutexInv'
  BY <1>5 DEF SleepForReconnect, NextDelay, Grow
<1>6. ASSUME LlmShutdown PROVE MutexInv'
  BY <1>6 DEF LlmShutdown, LLM!In
<1>7. ASSUME MainLocks PROVE MutexInv'
  BY <1>7 DEF MainLocks, LockSend
<1>8. ASSUME MainSendsHead PROVE MutexInv'
  BY <1>8 DEF MainSendsHead, Put
<1>9. ASSUME MainSendsTail PROVE MutexInv'
  BY <1>9 DEF MainSendsTail, Put, UnlockSend
<1>10. ASSUME MainSendFails PROVE MutexInv'
  BY <1>10 DEF MainSendFails, UnlockFailedSend, UnlockSend
<1>11. ASSUME HandshakeFails PROVE MutexInv'
  BY <1>11 DEF HandshakeFails
<1>12. ASSUME ReceiveFails PROVE MutexInv'
  BY <1>12 DEF ReceiveFails
<1>13. ASSUME AdmitRequest PROVE MutexInv'
  BY <1>13 DEF AdmitRequest, CountCallback
<1>14. ASSUME GenerateAccepted PROVE MutexInv'
  BY <1>14 DEF GenerateAccepted, LLM!Accept, LLM!Moves
<1>15. ASSUME GenerateRejected PROVE MutexInv'
  BY <1>15 DEF GenerateRejected, LLM!Reject, LLM!Moves
<1>16. ASSUME CloseSession PROVE MutexInv'
  BY <1>16 DEF CloseSession, AwaitCallbacks
<1>17. ASSUME CloseSessionWakes PROVE MutexInv'
  BY <1>17 DEF CloseSessionWakes, AwaitCallbacks
<1>18. ASSUME HelloAcknowledged PROVE MutexInv'
  BY <1>18 DEF HelloAcknowledged
<1>19. ASSUME ReceiveInvalid PROVE MutexInv'
  BY <1>19 DEF ReceiveInvalid, Receives
<1>20. ASSUME ReceiveControl PROVE MutexInv'
  BY <1>20 DEF ReceiveControl, Receives
<1>21. ASSUME StopRequested PROVE MutexInv'
  BY <1>21 DEF StopRequested
<1>22. ASSUME PeerLeaves PROVE MutexInv'
  BY <1>22 DEF PeerLeaves
<1>23. ASSUME PeerStalls PROVE MutexInv'
  BY <1>23 DEF PeerStalls
<1>24. ASSUME PeerResumes PROVE MutexInv'
  BY <1>24 DEF PeerResumes
<1>25. ASSUME NEW r \in Requests, ReceiveChatRequest(r) PROVE MutexInv'
  BY <1>25 DEF ReceiveChatRequest, Receives
<1>26. ASSUME NEW r \in Requests, CallbackStarts(r) PROVE MutexInv'
  BY <1>26 DEF CallbackStarts, LLM!Finish, LLM!Moves
<1>27. ASSUME NEW r \in Requests, CallbackChecks(r) PROVE MutexInv'
  BY <1>27 DEF CallbackChecks
<1>28. ASSUME NEW r \in Requests, CallbackLocks(r) PROVE MutexInv'
  BY <1>28 DEF CallbackLocks, LockSend
<1>29. ASSUME NEW r \in Requests, CallbackSendsHead(r) PROVE MutexInv'
  BY <1>29 DEF CallbackSendsHead, Put
<1>30. ASSUME NEW r \in Requests, CallbackSendsTail(r) PROVE MutexInv'
  BY <1>30 DEF CallbackSendsTail, Put, UnlockSend, AfterSend
<1>31. ASSUME NEW r \in Requests, CallbackSendFails(r) PROVE MutexInv'
  BY <1>31 DEF CallbackSendFails, UnlockSend, AfterFailedSend
<1>32. ASSUME NEW r \in Requests, CallbackCloses(r) PROVE MutexInv'
  BY <1>32 DEF CallbackCloses
<1>33. ASSUME NEW r \in Requests, CallbackShutsSocket(r) PROVE MutexInv'
  BY <1>33 DEF CallbackShutsSocket
<1>34. ASSUME NEW r \in Requests, CallbackLeaves(r) PROVE MutexInv'
  BY <1>34 DEF CallbackLeaves
<1>35. ASSUME NEW r \in Requests, CallbackNotifies(r) PROVE MutexInv'
  BY <1>35 DEF CallbackNotifies, NotifyAll
<1>36. ASSUME NEW r \in Requests, CallbackReturns(r) PROVE MutexInv'
  BY <1>36 DEF CallbackReturns, Returns, LLM!Complete, LLM!CompleteInline, LLM!Moves
<1>37. ASSUME NEW r \in Requests, CallbackThrows(r) PROVE MutexInv'
  BY <1>37
  DEF CallbackThrows, Returns, UnlockSend, LLM!Complete, LLM!CompleteInline,
      LLM!Moves
<1>38. CASE UNCHANGED vars
  BY <1>38 DEF vars, mainVars
<1> QED
  BY <1>1, <1>2, <1>3, <1>4, <1>5, <1>6, <1>7, <1>8, <1>9, <1>10, <1>11, <1>12,
     <1>13, <1>14, <1>15, <1>16, <1>17, <1>18, <1>19, <1>20, <1>21, <1>22,
     <1>23, <1>24, <1>25, <1>26, <1>27, <1>28, <1>29, <1>30, <1>31, <1>32,
     <1>33, <1>34, <1>35, <1>36, <1>37, <1>38
  DEF Next, MainStep, MessageArrives, Environment, Exited, CallbackStep

\* The type invariant: the variables have their types, and what it says of frame,
\* cur and the holders of send_mutex.
THEOREM TypeCorrect == Spec => []TypeOK
<1>1. ControlInv /\ CountInv /\ MutexInv => TypeOK
  <2> SUFFICES ASSUME ControlInv, CountInv, MutexInv PROVE TypeOK
    OBVIOUS
  <2>1. Flags
    BY DEF ControlInv
  <2> QED
    BY <2>1, PendingTyped, FrameTypes
    DEF ControlInv, Stages, MainTypes, OtherTypes, MutexInv, Flags, TypeOK
<1> QED
  BY <1>1, ControlInit, ControlStep, CountInit, CountStep, MutexInit, MutexStep, PTL
  DEF Spec

\* pending_callbacks counts exactly the calls of the session whose callback has not
\* passed its end, so CloseSession, which waits for 0, waits for all of them.
THEOREM PendingCorrect == Spec => []PendingExact
<1>1. CountInv => PendingExact
  BY DEF CountInv
<1> QED
  BY <1>1, ControlInit, ControlStep, CountInit, CountStep, PTL DEF Spec

\* No callback sends on the descriptor, or shuts it down, after CloseSession has closed
\* its connection or the next connection has got the same number.
THEOREM SocketSafe == Spec => []SocketOutlivesCallbacks
<1>1. CountInv => SocketOutlivesCallbacks
  BY DEF CountInv, CountedInSession, Counted, SocketOutlivesCallbacks
<1> QED
  BY <1>1, ControlInit, ControlStep, CountInit, CountStep, PTL DEF Spec

-----------------------------------------------------------------------------
(***************************************************************************)
(* What is on the wire.                                                    *)
(***************************************************************************)
Whole(w) ==
  \A i \in DOMAIN w :
    /\ i % 2 = 1 => w[i][2] = 1
    /\ i % 2 = 0 => w[i] = <<w[i-1][1], 2>>

\* FramesWhole, one connection at a time.
LEMMA WholeFrames ==
  /\ FramesWhole <=> \A s \in Sessions : Whole(wire[s])
  /\ FramesWhole' <=> \A s \in Sessions : Whole(wire'[s])
BY DEF FramesWhole, Whole

\* Odd and even numbers alternate.
LEMMA Parity ==
  \A n \in Nat :
    /\ n % 2 \in {0, 1}
    /\ (n + 1) % 2 = 1 <=> n % 2 = 0
    /\ n % 2 = 1 => n # 0
    /\ n % 2 = 0 /\ n # 0 => n - 1 \in 1..(n - 1)
OBVIOUS

\* The first half of a frame, after whole frames.
LEMMA AppendHead ==
  ASSUME NEW w \in Seq(Frames \X {1, 2}), NEW f \in Frames, Whole(w), ~Cut(w)
  PROVE  Whole(Append(w, <<f, 1>>)) /\ Half(Append(w, <<f, 1>>), f)
<1> DEFINE v == Append(w, <<f, 1>>)
<1>1. /\ Len(v) = Len(w) + 1 /\ DOMAIN v = 1..(Len(w) + 1) /\ Len(w) \in Nat
      /\ v[Len(w) + 1] = <<f, 1>> /\ \A i \in 1..Len(w) : v[i] = w[i]
      /\ DOMAIN w = 1..Len(w)
  OBVIOUS
<1>2. (Len(w) + 1) % 2 = 1
  BY <1>1, Parity DEF Cut
<1> HIDE DEF v
<1>3. ASSUME NEW i \in 1..(Len(w) + 1)
      PROVE  (i % 2 = 1 => v[i][2] = 1) /\ (i % 2 = 0 => v[i] = <<v[i-1][1], 2>>)
  <2>1. CASE i = Len(w) + 1
    BY <1>1, <1>2, <2>1
  <2>2. CASE i \in 1..Len(w)
    <3>1. (i % 2 = 1 => w[i][2] = 1) /\ (i % 2 = 0 => w[i] = <<w[i-1][1], 2>>)
      BY <1>1, <2>2 DEF Whole
    <3>2. i % 2 = 0 => i - 1 \in 1..Len(w)
      BY <1>1, <2>2, Parity
    <3> QED
      BY <1>1, <2>2, <3>1, <3>2
  <2> QED
    BY <1>1, <2>1, <2>2
<1> QED
  BY <1>1, <1>2, <1>3 DEF Whole, Half, Cut, v

\* The second half.
LEMMA AppendTail ==
  ASSUME NEW w \in Seq(Frames \X {1, 2}), NEW f \in Frames, Whole(w), Half(w, f)
  PROVE  Whole(Append(w, <<f, 2>>)) /\ ~Cut(Append(w, <<f, 2>>))
<1> DEFINE v == Append(w, <<f, 2>>)
<1>1. /\ Len(v) = Len(w) + 1 /\ DOMAIN v = 1..(Len(w) + 1) /\ Len(w) \in Nat
      /\ v[Len(w) + 1] = <<f, 2>> /\ \A i \in 1..Len(w) : v[i] = w[i]
      /\ DOMAIN w = 1..Len(w)
  OBVIOUS
<1>2. (Len(w) + 1) % 2 = 0 /\ Len(w) # 0 /\ w[Len(w)] = <<f, 1>>
  BY <1>1, Parity DEF Cut, Half
<1> HIDE DEF v
<1>3. ASSUME NEW i \in 1..(Len(w) + 1)
      PROVE  (i % 2 = 1 => v[i][2] = 1) /\ (i % 2 = 0 => v[i] = <<v[i-1][1], 2>>)
  <2>1. CASE i = Len(w) + 1
    <3>1. v[i] = <<f, 2>> /\ v[i-1] = <<f, 1>> /\ i % 2 = 0
      BY <1>1, <1>2, <2>1
    <3> QED
      BY <3>1
  <2>2. CASE i \in 1..Len(w)
    <3>1. (i % 2 = 1 => w[i][2] = 1) /\ (i % 2 = 0 => w[i] = <<w[i-1][1], 2>>)
      BY <1>1, <2>2 DEF Whole
    <3>2. i % 2 = 0 => i - 1 \in 1..Len(w)
      BY <1>1, <2>2, Parity
    <3> QED
      BY <1>1, <2>2, <3>1, <3>2
  <2> QED
    BY <1>1, <2>1, <2>2
<1> QED
  BY <1>1, <1>2, <1>3 DEF Whole, Cut, v

\* send_mutex, and the order of a session for hello, leave one sender at a time.
LEMMA OneSender ==
  ASSUME ControlInv, CountInv, MutexInv
  PROVE  \A r \in Requests : cb[r] \in {"head", "tail"} =>
           /\ sess[r] = fd /\ pc \notin {"head", "tail"}
           /\ \A q \in Requests : cb[q] \in {"head", "tail"} => q = r
BY NamesAssumption
DEF ControlInv, Stages, MainTypes, CountInv, CountedInSession, Counted,
    Outstanding, Idle,
    MutexInv, InSession

\* A step that sends nothing, and leaves half a frame to the thread that sent it or
\* the connection broken.
SameWire ==
  /\ wire' = wire
  /\ conn \in Nat /\ conn' \in Nat /\ conn \leq conn'
  /\ pc' = "tail" => pc = "tail" /\ conn' = conn /\ frame' = frame
  /\ \A r \in Requests : cb'[r] = "tail" => cb[r] = "tail" /\ sess'[r] = sess[r]
  /\ ~Broken' =>
       \/ /\ fd' = fd /\ ~Broken
          /\ pc = "tail" => pc' = "tail"
          /\ \A r \in Requests : cb[r] = "tail" => cb'[r] = "tail"
       \/ fd' \in Sessions /\ fd' > conn

\* Such a step keeps the frames whole.
LEMMA WireKept == ASSUME WireInv, SameWire PROVE WireInv'
<1>1. FramesWhole'
  BY DEF WireInv, SameWire, FramesWhole
<1>2. ~Cut(<<>>)
  BY DEF Cut
<1>3. HalfFrames'
  BY <1>2 DEF WireInv, SameWire, HalfFrames, Sessions
<1> QED
  BY <1>1, <1>3 DEF WireInv

\* Nothing is on the wire at first.
LEMMA WireInit == Init => WireInv
BY DEF Init, WireInv, FramesWhole, HalfFrames, Broken, Sessions

\* Every step leaves whole frames on every connection, the last possibly cut.
LEMMA WireStep ==
  ControlInv /\ CountInv /\ MutexInv /\ WireInv /\ [Next]_vars => WireInv'
<1> SUFFICES ASSUME ControlInv, CountInv, MutexInv, WireInv, [Next]_vars
             PROVE  WireInv'
  OBVIOUS
<1>0. /\ conn \in Nat /\ conn \leq MaxSessions /\ MaxSessions \in Nat
      /\ fd \in {0, conn} /\ (pc = "connect" => fd = 0)
      /\ cb \in [Requests -> CallbackStates]
      /\ sess \in [Requests -> 0..MaxSessions]
      /\ peer \in [Sessions -> {"open", "closed", "reset"}] /\ Flags
      /\ \A r \in Requests :
           /\ cb[r] = "tail" => sess[r] # 0
           /\ phase[r] \in {"new", "active"} => cb[r] = "none"
           /\ phase[r] = "rejected" => pc = "inline"
      /\ pc = "generate" => cur \in Requests /\ phase[cur] = "new"
  BY ClientAssumption, NamesAssumption
  DEF ControlInv, Stages, MainTypes, OtherTypes, RequestStages, InSession
<1> USE <1>0 DEF SameWire, Broken, Sessions, Flags, mainData, mainVars, sessionVars,
      requestVars, peerVars, netVars
<1>1. ASSUME RunLoop PROVE SameWire
  BY <1>1 DEF RunLoop
<1>2. ASSUME ConnectFails PROVE SameWire
  BY <1>2 DEF ConnectFails
<1>3. ASSUME ConnectSucceeds PROVE SameWire
  BY <1>3 DEF ConnectSucceeds
<1>4. ASSUME SessionEnds PROVE SameWire
  BY <1>4 DEF SessionEnds, ShutdownAndClose, DelayAfterSession
<1>5. ASSUME SleepForReconnect PROVE SameWire
  BY <1>5 DEF SleepForReconnect, NextDelay, Grow
<1>6. ASSUME LlmShutdown PROVE SameWire
  BY <1>6 DEF LlmShutdown, LLM!In
<1>7. ASSUME MainLocks PROVE SameWire
  BY <1>7 DEF MainLocks, LockSend
<1>8. ASSUME MainSendsHead PROVE WireInv'
  <2>1. /\ fd \in Sessions /\ fd = conn /\ frame \in Frames
        /\ wire' = [wire EXCEPT ![fd] = Append(wire[fd], <<frame, 1>>)]
    BY <1>8, PutTyped, FrameTypes
    DEF MainSendsHead, ControlInv, Stages, MainTypes, OtherTypes
  <2>2. ~Cut(wire[fd])
    BY <1>8, <2>1, OneSender
    DEF MainSendsHead, Put, WireInv, HalfFrames, ControlInv, Stages, MainTypes
  <2>3. /\ Whole(wire'[fd]) /\ Half(wire'[fd], frame)
        /\ \A s \in Sessions \ {fd} : wire'[s] = wire[s]
    BY <2>1, <2>2, AppendHead, WholeFrames
    DEF ControlInv, Stages, OtherTypes, WireInv
  <2>4. FramesWhole'
    BY <2>1, <2>3, WholeFrames DEF WireInv
  <2>5. \A s \in Sessions : s > conn' => wire'[s] = <<>>
    BY <1>8, <2>1, <2>3 DEF MainSendsHead, WireInv, HalfFrames, Sessions
  <2>6. pc' = "tail" /\ Half(wire'[conn'], frame')
    BY <1>8, <2>1, <2>3, OneSender DEF MainSendsHead
  <2>7. \A q \in Requests : cb'[q] # "tail"
    BY <1>8, <2>1, <2>3, OneSender DEF MainSendsHead
  <2>8. HalfFrames'
    BY <1>8, <2>1, <2>3, <2>5, <2>6, <2>7 DEF MainSendsHead, HalfFrames, Broken
  <2> QED
    BY <2>4, <2>8 DEF WireInv
<1>9. ASSUME MainSendsTail PROVE WireInv'
  <2>1. /\ fd \in Sessions /\ fd = conn /\ frame \in Frames
        /\ wire' = [wire EXCEPT ![fd] = Append(wire[fd], <<frame, 2>>)]
    BY <1>9, PutTyped, FrameTypes
    DEF MainSendsTail, ControlInv, Stages, MainTypes, OtherTypes
  <2>2. Half(wire[fd], frame)
    BY <1>9, <2>1, OneSender
    DEF MainSendsTail, Put, WireInv, HalfFrames, ControlInv, Stages, MainTypes
  <2>3. /\ Whole(wire'[fd]) /\ ~Cut(wire'[fd])
        /\ \A s \in Sessions \ {fd} : wire'[s] = wire[s]
    BY <2>1, <2>2, AppendTail, WholeFrames
    DEF ControlInv, Stages, OtherTypes, WireInv
  <2>4. FramesWhole'
    BY <2>1, <2>3, WholeFrames DEF WireInv
  <2>5. \A s \in Sessions : s > conn' => wire'[s] = <<>>
    BY <1>9, <2>1, <2>3 DEF MainSendsTail, WireInv, HalfFrames, Sessions
  <2>6. pc' # "tail"
    BY <1>9, <2>1, <2>3, OneSender DEF MainSendsTail
  <2>7. \A q \in Requests : cb'[q] # "tail"
    BY <1>9, <2>1, <2>3, OneSender DEF MainSendsTail
  <2>8. HalfFrames'
    BY <1>9, <2>1, <2>3, <2>5, <2>6, <2>7 DEF MainSendsTail, HalfFrames, Broken
  <2> QED
    BY <2>4, <2>8 DEF WireInv
<1>10. ASSUME MainSendFails PROVE SameWire
  BY <1>10 DEF MainSendFails, UnlockFailedSend, UnlockSend
<1>11. ASSUME HandshakeFails PROVE SameWire
  BY <1>11 DEF HandshakeFails
<1>12. ASSUME ReceiveFails PROVE SameWire
  BY <1>12 DEF ReceiveFails
<1>13. ASSUME AdmitRequest PROVE SameWire
  BY <1>13 DEF AdmitRequest, CountCallback
<1>14. ASSUME GenerateAccepted PROVE SameWire
  BY <1>14 DEF GenerateAccepted, LLM!Accept, LLM!Moves
<1>15. ASSUME GenerateRejected PROVE SameWire
  BY <1>15 DEF GenerateRejected, LLM!Reject, LLM!Moves
<1>16. ASSUME CloseSession PROVE SameWire
  BY <1>16 DEF CloseSession, AwaitCallbacks
<1>17. ASSUME CloseSessionWakes PROVE SameWire
  BY <1>17 DEF CloseSessionWakes, AwaitCallbacks
<1>18. ASSUME HelloAcknowledged PROVE SameWire
  BY <1>18 DEF HelloAcknowledged
<1>19. ASSUME ReceiveInvalid PROVE SameWire
  BY <1>19 DEF ReceiveInvalid, Receives
<1>20. ASSUME ReceiveControl PROVE SameWire
  BY <1>20 DEF ReceiveControl, Receives
<1>21. ASSUME StopRequested PROVE SameWire
  BY <1>21 DEF StopRequested
<1>22. ASSUME PeerLeaves PROVE SameWire
  BY <1>22 DEF PeerLeaves
<1>23. ASSUME PeerStalls PROVE SameWire
  BY <1>23 DEF PeerStalls
<1>24. ASSUME PeerResumes PROVE SameWire
  BY <1>24 DEF PeerResumes
<1>25. ASSUME NEW r \in Requests, ReceiveChatRequest(r) PROVE SameWire
  BY <1>25 DEF ReceiveChatRequest, Receives
<1>26. ASSUME NEW r \in Requests, CallbackStarts(r) PROVE SameWire
  BY <1>26 DEF CallbackStarts, LLM!Finish, LLM!Moves
<1>27. ASSUME NEW r \in Requests, CallbackChecks(r) PROVE SameWire
  BY <1>27 DEF CallbackChecks
<1>28. ASSUME NEW r \in Requests, CallbackLocks(r) PROVE SameWire
  BY <1>28 DEF CallbackLocks, LockSend
<1>29. ASSUME NEW r \in Requests, CallbackSendsHead(r) PROVE WireInv'
  <2>1. /\ fd \in Sessions /\ fd = conn /\ ChatResponse(r) \in Frames
        /\ wire' = [wire EXCEPT ![fd] = Append(wire[fd], <<ChatResponse(r), 1>>)]
    BY <1>29, PutTyped, FrameTypes
    DEF CallbackSendsHead, ControlInv, Stages, MainTypes, OtherTypes
  <2>2. ~Cut(wire[fd])
    BY <1>29, <2>1, OneSender
    DEF CallbackSendsHead, Put, WireInv, HalfFrames, ControlInv, Stages, MainTypes
  <2>3. /\ Whole(wire'[fd]) /\ Half(wire'[fd], ChatResponse(r))
        /\ \A s \in Sessions \ {fd} : wire'[s] = wire[s]
    BY <2>1, <2>2, AppendHead, WholeFrames
    DEF ControlInv, Stages, OtherTypes, WireInv
  <2>4. FramesWhole'
    BY <2>1, <2>3, WholeFrames DEF WireInv
  <2>5. \A s \in Sessions : s > conn' => wire'[s] = <<>>
    BY <1>29, <2>1, <2>3 DEF CallbackSendsHead, WireInv, HalfFrames, Sessions
  <2>6. pc' # "tail"
    BY <1>29, <2>1, <2>3, OneSender DEF CallbackSendsHead
  <2>7. /\ cb'[r] = "tail"
        /\ \A q \in Requests : cb'[q] = "tail" => Half(wire'[sess'[q]], ChatResponse(q))
    BY <1>29, <2>1, <2>3, OneSender DEF CallbackSendsHead
  <2>8. HalfFrames'
    BY <1>29, <2>1, <2>3, <2>5, <2>6, <2>7 DEF CallbackSendsHead, HalfFrames, Broken
  <2> QED
    BY <2>4, <2>8 DEF WireInv
<1>30. ASSUME NEW r \in Requests, CallbackSendsTail(r) PROVE WireInv'
  <2>1. /\ fd \in Sessions /\ fd = conn /\ ChatResponse(r) \in Frames
        /\ wire' = [wire EXCEPT ![fd] = Append(wire[fd], <<ChatResponse(r), 2>>)]
    BY <1>30, PutTyped, FrameTypes
    DEF CallbackSendsTail, ControlInv, Stages, MainTypes, OtherTypes
  <2>2. Half(wire[fd], ChatResponse(r))
    BY <1>30, <2>1, OneSender
    DEF CallbackSendsTail, Put, WireInv, HalfFrames, ControlInv, Stages, MainTypes
  <2>3. /\ Whole(wire'[fd]) /\ ~Cut(wire'[fd])
        /\ \A s \in Sessions \ {fd} : wire'[s] = wire[s]
    BY <2>1, <2>2, AppendTail, WholeFrames
    DEF ControlInv, Stages, OtherTypes, WireInv
  <2>4. FramesWhole'
    BY <2>1, <2>3, WholeFrames DEF WireInv
  <2>5. \A s \in Sessions : s > conn' => wire'[s] = <<>>
    BY <1>30, <2>1, <2>3
    DEF CallbackSendsTail, AfterSend, WireInv, HalfFrames, Sessions
  <2>6. pc' # "tail"
    BY <1>30, <2>1, <2>3, OneSender DEF CallbackSendsTail, AfterSend
  <2>7. \A q \in Requests : cb'[q] # "tail"
    BY <1>30, <2>1, <2>3, OneSender DEF CallbackSendsTail, AfterSend
  <2>8. HalfFrames'
    BY <1>30, <2>1, <2>3, <2>5, <2>6, <2>7
    DEF CallbackSendsTail, AfterSend, HalfFrames, Broken
  <2> QED
    BY <2>4, <2>8 DEF WireInv
<1>31. ASSUME NEW r \in Requests, CallbackSendFails(r) PROVE SameWire
  BY <1>31 DEF CallbackSendFails, UnlockSend, AfterFailedSend
<1>32. ASSUME NEW r \in Requests, CallbackCloses(r) PROVE SameWire
  BY <1>32 DEF CallbackCloses
<1>33. ASSUME NEW r \in Requests, CallbackShutsSocket(r) PROVE SameWire
  BY <1>33 DEF CallbackShutsSocket
<1>34. ASSUME NEW r \in Requests, CallbackLeaves(r) PROVE SameWire
  BY <1>34 DEF CallbackLeaves
<1>35. ASSUME NEW r \in Requests, CallbackNotifies(r) PROVE SameWire
  BY <1>35 DEF CallbackNotifies, NotifyAll
<1>36. ASSUME NEW r \in Requests, CallbackReturns(r) PROVE SameWire
  BY <1>36 DEF CallbackReturns, Returns, LLM!Complete, LLM!CompleteInline, LLM!Moves
<1>37. ASSUME NEW r \in Requests, CallbackThrows(r) PROVE SameWire
  BY <1>37
  DEF CallbackThrows, Returns, UnlockSend, LLM!Complete, LLM!CompleteInline,
      LLM!Moves
<1>38. CASE UNCHANGED vars
  BY <1>38, WireKept DEF vars
<1> QED
  BY <1>1, <1>2, <1>3, <1>4, <1>5, <1>6, <1>7, <1>8, <1>9, <1>10, <1>11, <1>12,
     <1>13, <1>14, <1>15, <1>16, <1>17, <1>18, <1>19, <1>20, <1>21, <1>22,
     <1>23, <1>24, <1>25, <1>26, <1>27, <1>28, <1>29, <1>30, <1>31, <1>32,
     <1>33, <1>34, <1>35, <1>36, <1>37, <1>38, WireKept
  DEF Next, MainStep, MessageArrives, Environment, Exited, CallbackStep

\* SendFrame of the main thread and that of a callback never write into each other's
\* frame, although each calls send several times.
THEOREM FramesCorrect == Spec => []FramesWhole
<1>1. WireInv => FramesWhole
  BY DEF WireInv
<1> QED
  BY <1>1, ControlInit, ControlStep, CountInit, CountStep, MutexInit, MutexStep,
     WireInit, WireStep, PTL DEF Spec

-----------------------------------------------------------------------------
(***************************************************************************)
(* Responses.                                                              *)
(***************************************************************************)
\* No request moves to another session, and no callback goes back.
CallbacksGoOn ==
  \A r \in Requests :
    /\ sess[r] # 0 => sess'[r] = sess[r]
    /\ BeyondSend(r) => BeyondSend(r)'

SendsNothing == CallbacksGoOn /\ wire' = wire

\* A step that sends nothing adds no response.
LEMMA AnswersKept == ASSUME AnswersOnce, SendsNothing PROVE AnswersOnce'
BY DEF AnswersOnce, SendsNothing, CallbacksGoOn, Sessions

\* A step that sends the first half of a response does so for a callback that had
\* not begun to send.
LEMMA AnswersAppended ==
  ASSUME AnswersOnce, CallbacksGoOn,
         wire \in [Sessions -> Seq(Frames \X {1, 2})],
         NEW t \in Sessions, NEW x \in Frames \X {1, 2},
         wire' = [wire EXCEPT ![t] = Append(wire[t], x)],
         \A r \in Requests : x = <<ChatResponse(r), 1>> =>
           ~BeyondSend(r) /\ BeyondSend(r)' /\ sess[r] = t
  PROVE  AnswersOnce'
<1> SUFFICES ASSUME NEW s \in Sessions, NEW r \in Requests,
                    NEW i \in DOMAIN wire'[s], wire'[s][i] = <<ChatResponse(r), 1>>
             PROVE  /\ sess'[r] = s /\ BeyondSend(r)'
                    /\ \A j \in DOMAIN wire'[s] :
                         wire'[s][j] = <<ChatResponse(r), 1>> => j = i
  BY DEF AnswersOnce
<1>1. CASE s # t
  BY <1>1 DEF AnswersOnce, CallbacksGoOn, Sessions
<1>2. CASE s = t
  <2>1. /\ wire'[s] = Append(wire[s], x) /\ DOMAIN wire[s] = 1..Len(wire[s])
        /\ DOMAIN wire'[s] = 1..(Len(wire[s]) + 1) /\ Len(wire[s]) \in Nat
        /\ wire'[s][Len(wire[s]) + 1] = x
        /\ \A j \in 1..Len(wire[s]) : wire'[s][j] = wire[s][j]
    BY <1>2
  <2>2. CASE x = <<ChatResponse(r), 1>>
    <3>1. \A j \in 1..Len(wire[s]) : wire[s][j] # <<ChatResponse(r), 1>>
      BY <2>1, <2>2 DEF AnswersOnce
    <3>2. \A j \in DOMAIN wire'[s] :
            wire'[s][j] = <<ChatResponse(r), 1>> => j = Len(wire[s]) + 1
      BY <2>1, <3>1
    <3>3. sess[r] = s /\ BeyondSend(r)'
      BY <1>2, <2>2
    <3>4. sess'[r] = sess[r]
      BY <3>3 DEF CallbacksGoOn, Sessions
    <3> QED
      BY <3>2, <3>3, <3>4
  <2>3. CASE x # <<ChatResponse(r), 1>>
    <3>1. i \in 1..Len(wire[s]) /\ wire[s][i] = <<ChatResponse(r), 1>>
      BY <2>1, <2>3
    <3>2. /\ sess[r] = s /\ BeyondSend(r)
          /\ \A j \in DOMAIN wire[s] : wire[s][j] = <<ChatResponse(r), 1>> => j = i
      <4>1. i \in DOMAIN wire[s] /\ wire[s][i] = <<ChatResponse(r), 1>>
        BY <2>1, <3>1
      <4> QED
        BY <4>1 DEF AnswersOnce
    <3>3. \A j \in DOMAIN wire'[s] : wire'[s][j] = <<ChatResponse(r), 1>> => j = i
      <4>1. \A j \in 1..Len(wire[s]) : wire[s][j] = <<ChatResponse(r), 1>> => j = i
        BY <2>1, <3>2
      <4> QED
        BY <2>1, <2>3, <4>1
    <3>4. sess'[r] = s /\ BeyondSend(r)'
      BY <3>2 DEF CallbacksGoOn, Sessions
    <3> QED
      BY <3>3, <3>4
  <2> QED
    BY <2>2, <2>3
<1> QED
  BY <1>1, <1>2

\* Every step leaves at most one response to a request, where the request came from.
LEMMA AnswersStep ==
  ControlInv /\ CountInv /\ MutexInv /\ AnswersOnce /\ [Next]_vars => AnswersOnce'
<1> SUFFICES ASSUME ControlInv, CountInv, MutexInv, AnswersOnce, [Next]_vars
             PROVE  AnswersOnce'
  OBVIOUS
<1>0. /\ cb \in [Requests -> CallbackStates]
      /\ sess \in [Requests -> 0..MaxSessions]
      /\ \A r \in Requests : phase[r] \in {"new", "active"} => cb[r] = "none"
      /\ pc = "generate" => phase[cur] = "new" /\ cur \in Requests
  BY NamesAssumption DEF ControlInv, Stages, MainTypes, OtherTypes, RequestStages
<1> USE <1>0 DEF SendsNothing, CallbacksGoOn, BeyondSend, requestVars, netVars
<1>1. ASSUME RunLoop PROVE SendsNothing
  BY <1>1 DEF RunLoop
<1>2. ASSUME ConnectFails PROVE SendsNothing
  BY <1>2 DEF ConnectFails
<1>3. ASSUME ConnectSucceeds PROVE SendsNothing
  BY <1>3 DEF ConnectSucceeds
<1>4. ASSUME SessionEnds PROVE SendsNothing
  BY <1>4 DEF SessionEnds, ShutdownAndClose, DelayAfterSession
<1>5. ASSUME SleepForReconnect PROVE SendsNothing
  BY <1>5 DEF SleepForReconnect, NextDelay, Grow
<1>6. ASSUME LlmShutdown PROVE SendsNothing
  BY <1>6 DEF LlmShutdown, LLM!In
<1>7. ASSUME MainLocks PROVE SendsNothing
  BY <1>7 DEF MainLocks, LockSend
<1>8. ASSUME MainSendsHead PROVE AnswersOnce'
  <2>1. /\ fd \in Sessions /\ frame \in Frames
        /\ wire' = [wire EXCEPT ![fd] = Append(wire[fd], <<frame, 1>>)]
    BY <1>8, PutTyped, FrameTypes
    DEF MainSendsHead, ControlInv, Stages, MainTypes, OtherTypes
  <2>2. CallbacksGoOn
    BY <1>8 DEF MainSendsHead, AfterSend
  <2>3. \A q \in Requests : <<frame, 1>> = <<ChatResponse(q), 1>> =>
          ~BeyondSend(q) /\ BeyondSend(q)' /\ sess[q] = fd
    BY <1>8, FrameTypes, OneSender
    DEF MainSendsHead, ControlInv, Stages, MainTypes
  <2> HIDE DEF CallbacksGoOn, BeyondSend
  <2> QED
    BY <2>1, <2>2, <2>3, AnswersAppended DEF ControlInv, Stages, OtherTypes
<1>9. ASSUME MainSendsTail PROVE AnswersOnce'
  <2>1. /\ fd \in Sessions /\ frame \in Frames
        /\ wire' = [wire EXCEPT ![fd] = Append(wire[fd], <<frame, 2>>)]
    BY <1>9, PutTyped, FrameTypes
    DEF MainSendsTail, ControlInv, Stages, MainTypes, OtherTypes
  <2>2. CallbacksGoOn
    BY <1>9 DEF MainSendsTail, AfterSend
  <2>3. \A q \in Requests : <<frame, 2>> = <<ChatResponse(q), 1>> =>
          ~BeyondSend(q) /\ BeyondSend(q)' /\ sess[q] = fd
    BY <1>9, FrameTypes, OneSender
    DEF MainSendsTail, ControlInv, Stages, MainTypes
  <2> HIDE DEF CallbacksGoOn, BeyondSend
  <2> QED
    BY <2>1, <2>2, <2>3, AnswersAppended DEF ControlInv, Stages, OtherTypes
<1>10. ASSUME MainSendFails PROVE SendsNothing
  BY <1>10 DEF MainSendFails, UnlockFailedSend, UnlockSend
<1>11. ASSUME HandshakeFails PROVE SendsNothing
  BY <1>11 DEF HandshakeFails
<1>12. ASSUME ReceiveFails PROVE SendsNothing
  BY <1>12 DEF ReceiveFails
<1>13. ASSUME AdmitRequest PROVE SendsNothing
  BY <1>13 DEF AdmitRequest, CountCallback
<1>14. ASSUME GenerateAccepted PROVE SendsNothing
  BY <1>14 DEF GenerateAccepted, LLM!Accept, LLM!Moves
<1>15. ASSUME GenerateRejected PROVE SendsNothing
  BY <1>15 DEF GenerateRejected, LLM!Reject, LLM!Moves
<1>16. ASSUME CloseSession PROVE SendsNothing
  BY <1>16 DEF CloseSession, AwaitCallbacks
<1>17. ASSUME CloseSessionWakes PROVE SendsNothing
  BY <1>17 DEF CloseSessionWakes, AwaitCallbacks
<1>18. ASSUME HelloAcknowledged PROVE SendsNothing
  BY <1>18 DEF HelloAcknowledged
<1>19. ASSUME ReceiveInvalid PROVE SendsNothing
  BY <1>19 DEF ReceiveInvalid, Receives
<1>20. ASSUME ReceiveControl PROVE SendsNothing
  BY <1>20 DEF ReceiveControl, Receives
<1>21. ASSUME StopRequested PROVE SendsNothing
  BY <1>21 DEF StopRequested
<1>22. ASSUME PeerLeaves PROVE SendsNothing
  BY <1>22 DEF PeerLeaves
<1>23. ASSUME PeerStalls PROVE SendsNothing
  BY <1>23 DEF PeerStalls
<1>24. ASSUME PeerResumes PROVE SendsNothing
  BY <1>24 DEF PeerResumes
<1>25. ASSUME NEW r \in Requests, ReceiveChatRequest(r) PROVE SendsNothing
  BY <1>25 DEF ReceiveChatRequest, Receives
<1>26. ASSUME NEW r \in Requests, CallbackStarts(r) PROVE SendsNothing
  BY <1>26 DEF CallbackStarts, LLM!Finish, LLM!Moves
<1>27. ASSUME NEW r \in Requests, CallbackChecks(r) PROVE SendsNothing
  BY <1>27 DEF CallbackChecks
<1>28. ASSUME NEW r \in Requests, CallbackLocks(r) PROVE SendsNothing
  BY <1>28 DEF CallbackLocks, LockSend
<1>29. ASSUME NEW r \in Requests, CallbackSendsHead(r) PROVE AnswersOnce'
  <2>1. /\ fd \in Sessions /\ ChatResponse(r) \in Frames
        /\ wire' = [wire EXCEPT ![fd] = Append(wire[fd], <<ChatResponse(r), 1>>)]
    BY <1>29, PutTyped, FrameTypes
    DEF CallbackSendsHead, ControlInv, Stages, MainTypes, OtherTypes
  <2>2. CallbacksGoOn
    BY <1>29 DEF CallbackSendsHead, AfterSend
  <2>3. \A q \in Requests : <<ChatResponse(r), 1>> = <<ChatResponse(q), 1>> =>
          ~BeyondSend(q) /\ BeyondSend(q)' /\ sess[q] = fd
    BY <1>29, FrameTypes, OneSender
    DEF CallbackSendsHead, ControlInv, Stages, MainTypes
  <2> HIDE DEF CallbacksGoOn, BeyondSend
  <2> QED
    BY <2>1, <2>2, <2>3, AnswersAppended DEF ControlInv, Stages, OtherTypes
<1>30. ASSUME NEW r \in Requests, CallbackSendsTail(r) PROVE AnswersOnce'
  <2>1. /\ fd \in Sessions /\ ChatResponse(r) \in Frames
        /\ wire' = [wire EXCEPT ![fd] = Append(wire[fd], <<ChatResponse(r), 2>>)]
    BY <1>30, PutTyped, FrameTypes
    DEF CallbackSendsTail, ControlInv, Stages, MainTypes, OtherTypes
  <2>2. CallbacksGoOn
    BY <1>30 DEF CallbackSendsTail, AfterSend
  <2>3. \A q \in Requests : <<ChatResponse(r), 2>> = <<ChatResponse(q), 1>> =>
          ~BeyondSend(q) /\ BeyondSend(q)' /\ sess[q] = fd
    BY <1>30, FrameTypes, OneSender
    DEF CallbackSendsTail, ControlInv, Stages, MainTypes
  <2> HIDE DEF CallbacksGoOn, BeyondSend
  <2> QED
    BY <2>1, <2>2, <2>3, AnswersAppended DEF ControlInv, Stages, OtherTypes
<1>31. ASSUME NEW r \in Requests, CallbackSendFails(r) PROVE SendsNothing
  BY <1>31 DEF CallbackSendFails, UnlockSend, AfterFailedSend
<1>32. ASSUME NEW r \in Requests, CallbackCloses(r) PROVE SendsNothing
  BY <1>32 DEF CallbackCloses
<1>33. ASSUME NEW r \in Requests, CallbackShutsSocket(r) PROVE SendsNothing
  BY <1>33 DEF CallbackShutsSocket
<1>34. ASSUME NEW r \in Requests, CallbackLeaves(r) PROVE SendsNothing
  BY <1>34 DEF CallbackLeaves
<1>35. ASSUME NEW r \in Requests, CallbackNotifies(r) PROVE SendsNothing
  BY <1>35 DEF CallbackNotifies, NotifyAll
<1>36. ASSUME NEW r \in Requests, CallbackReturns(r) PROVE SendsNothing
  BY <1>36 DEF CallbackReturns, Returns, LLM!Complete, LLM!CompleteInline, LLM!Moves
<1>37. ASSUME NEW r \in Requests, CallbackThrows(r) PROVE SendsNothing
  BY <1>37
  DEF CallbackThrows, Returns, UnlockSend, LLM!Complete, LLM!CompleteInline,
      LLM!Moves
<1>38. CASE UNCHANGED vars
  BY <1>38, AnswersKept DEF vars
<1> QED
  BY <1>1, <1>2, <1>3, <1>4, <1>5, <1>6, <1>7, <1>8, <1>9, <1>10, <1>11, <1>12,
     <1>13, <1>14, <1>15, <1>16, <1>17, <1>18, <1>19, <1>20, <1>21, <1>22,
     <1>23, <1>24, <1>25, <1>26, <1>27, <1>28, <1>29, <1>30, <1>31, <1>32,
     <1>33, <1>34, <1>35, <1>36, <1>37, <1>38, AnswersKept
  DEF Next, MainStep, MessageArrives, Environment, Exited, CallbackStep

\* The completion callback answers a request at most once, and only on the connection
\* it was asked on: a session that ends takes its unanswered requests with it.
THEOREM AnswersCorrect == Spec => []AnsweredWhereAsked
<1>1. Init => AnswersOnce
  BY DEF Init, AnswersOnce
<1>2. AnswersOnce => AnsweredWhereAsked
  <2> SUFFICES ASSUME AnswersOnce, NEW s \in Sessions, NEW r \in Requests
               PROVE  LET at == {i \in DOMAIN wire[s] :
                                     wire[s][i] = <<ChatResponse(r), 1>>}
                      IN  at # {} => Cardinality(at) = 1 /\ sess[r] = s
    BY DEF AnsweredWhereAsked
  <2> DEFINE at == {i \in DOMAIN wire[s] : wire[s][i] = <<ChatResponse(r), 1>>}
  <2>1. ASSUME NEW i \in at PROVE at = {i} /\ sess[r] = s
    BY DEF AnswersOnce
  <2>2. \A i : Cardinality({i}) = 1
    BY FS_Singleton
  <2> HIDE DEF at
  <2>3. at # {} => Cardinality(at) = 1 /\ sess[r] = s
    BY <2>1, <2>2
  <2> QED
    BY <2>3 DEF at
<1> QED
  BY <1>1, <1>2, ControlInit, ControlStep, CountInit, CountStep, MutexInit,
     MutexStep,
     AnswersStep, PTL DEF Spec

-----------------------------------------------------------------------------
(***************************************************************************)
(* The end of the process.                                                 *)
(***************************************************************************)
\* LiteLlm works on the call, or its callback is running.
Running(r) ==
  phase[r] = "active" \/ cb[r] \notin {"none", "done", "thrown"}

\* Once main has returned, LiteLlm works on no call and no callback is running, so
\* none reaches the ReverseClient that the callbacks capture and main destroys.
QuietAfterExit == pc = "exited" => \A r \in Requests : ~Running(r)

\* Shutdown lets main return only when no call is left, and none comes after it.
LEMMA QuietStep == ControlInv /\ QuietAfterExit /\ [Next]_vars => QuietAfterExit'
<1> SUFFICES ASSUME ControlInv, QuietAfterExit, [Next]_vars PROVE QuietAfterExit'
  OBVIOUS
<1>0. /\ cb \in [Requests -> CallbackStates] /\ phase \in [Requests -> LLM!Phases]
      /\ \A r \in Requests :
           /\ phase[r] \in {"new", "active"} <=> cb[r] = "none"
           /\ phase[r] = "done" <=> cb[r] \in {"done", "thrown"}
           /\ phase[r] = "rejected" => pc = "inline"
  BY DEF ControlInv, Stages, OtherTypes, RequestStages
<1> USE <1>0 DEF QuietAfterExit, Running, LLM!Phases, LLM!In, requestVars,
      mainVars, mainData
<1>1. ASSUME RunLoop PROVE QuietAfterExit'
  BY <1>1 DEF RunLoop
<1>2. ASSUME ConnectFails PROVE QuietAfterExit'
  BY <1>2 DEF ConnectFails
<1>3. ASSUME ConnectSucceeds PROVE QuietAfterExit'
  BY <1>3 DEF ConnectSucceeds
<1>4. ASSUME SessionEnds PROVE QuietAfterExit'
  BY <1>4 DEF SessionEnds, ShutdownAndClose, DelayAfterSession
<1>5. ASSUME SleepForReconnect PROVE QuietAfterExit'
  BY <1>5 DEF SleepForReconnect, NextDelay, Grow
<1>6. ASSUME LlmShutdown PROVE QuietAfterExit'
  BY <1>6 DEF LlmShutdown, LLM!In
<1>7. ASSUME MainLocks PROVE QuietAfterExit'
  BY <1>7 DEF MainLocks, LockSend
<1>8. ASSUME MainSendsHead PROVE QuietAfterExit'
  BY <1>8 DEF MainSendsHead, Put
<1>9. ASSUME MainSendsTail PROVE QuietAfterExit'
  BY <1>9 DEF MainSendsTail, Put, UnlockSend
<1>10. ASSUME MainSendFails PROVE QuietAfterExit'
  BY <1>10 DEF MainSendFails, UnlockFailedSend, UnlockSend
<1>11. ASSUME HandshakeFails PROVE QuietAfterExit'
  BY <1>11 DEF HandshakeFails
<1>12. ASSUME ReceiveFails PROVE QuietAfterExit'
  BY <1>12 DEF ReceiveFails
<1>13. ASSUME AdmitRequest PROVE QuietAfterExit'
  BY <1>13 DEF AdmitRequest, CountCallback
<1>14. ASSUME GenerateAccepted PROVE QuietAfterExit'
  BY <1>14 DEF GenerateAccepted, LLM!Accept, LLM!Moves
<1>15. ASSUME GenerateRejected PROVE QuietAfterExit'
  BY <1>15 DEF GenerateRejected, LLM!Reject, LLM!Moves
<1>16. ASSUME CloseSession PROVE QuietAfterExit'
  BY <1>16 DEF CloseSession, AwaitCallbacks
<1>17. ASSUME CloseSessionWakes PROVE QuietAfterExit'
  BY <1>17 DEF CloseSessionWakes, AwaitCallbacks
<1>18. ASSUME HelloAcknowledged PROVE QuietAfterExit'
  BY <1>18 DEF HelloAcknowledged
<1>19. ASSUME ReceiveInvalid PROVE QuietAfterExit'
  BY <1>19 DEF ReceiveInvalid, Receives
<1>20. ASSUME ReceiveControl PROVE QuietAfterExit'
  BY <1>20 DEF ReceiveControl, Receives
<1>21. ASSUME StopRequested PROVE QuietAfterExit'
  BY <1>21 DEF StopRequested
<1>22. ASSUME PeerLeaves PROVE QuietAfterExit'
  BY <1>22 DEF PeerLeaves
<1>23. ASSUME PeerStalls PROVE QuietAfterExit'
  BY <1>23 DEF PeerStalls
<1>24. ASSUME PeerResumes PROVE QuietAfterExit'
  BY <1>24 DEF PeerResumes
<1>25. ASSUME NEW r \in Requests, ReceiveChatRequest(r) PROVE QuietAfterExit'
  BY <1>25 DEF ReceiveChatRequest, Receives
<1>26. ASSUME NEW r \in Requests, CallbackStarts(r) PROVE QuietAfterExit'
  BY <1>26 DEF CallbackStarts, LLM!Finish, LLM!Moves
<1>27. ASSUME NEW r \in Requests, CallbackChecks(r) PROVE QuietAfterExit'
  BY <1>27 DEF CallbackChecks
<1>28. ASSUME NEW r \in Requests, CallbackLocks(r) PROVE QuietAfterExit'
  BY <1>28 DEF CallbackLocks, LockSend
<1>29. ASSUME NEW r \in Requests, CallbackSendsHead(r) PROVE QuietAfterExit'
  BY <1>29 DEF CallbackSendsHead, Put
<1>30. ASSUME NEW r \in Requests, CallbackSendsTail(r) PROVE QuietAfterExit'
  BY <1>30 DEF CallbackSendsTail, Put, UnlockSend, AfterSend
<1>31. ASSUME NEW r \in Requests, CallbackSendFails(r) PROVE QuietAfterExit'
  BY <1>31 DEF CallbackSendFails, UnlockSend, AfterFailedSend
<1>32. ASSUME NEW r \in Requests, CallbackCloses(r) PROVE QuietAfterExit'
  BY <1>32 DEF CallbackCloses
<1>33. ASSUME NEW r \in Requests, CallbackShutsSocket(r) PROVE QuietAfterExit'
  BY <1>33 DEF CallbackShutsSocket
<1>34. ASSUME NEW r \in Requests, CallbackLeaves(r) PROVE QuietAfterExit'
  BY <1>34 DEF CallbackLeaves
<1>35. ASSUME NEW r \in Requests, CallbackNotifies(r) PROVE QuietAfterExit'
  BY <1>35 DEF CallbackNotifies, NotifyAll
<1>36. ASSUME NEW r \in Requests, CallbackReturns(r) PROVE QuietAfterExit'
  BY <1>36 DEF CallbackReturns, Returns, LLM!Complete, LLM!CompleteInline, LLM!Moves
<1>37. ASSUME NEW r \in Requests, CallbackThrows(r) PROVE QuietAfterExit'
  BY <1>37
  DEF CallbackThrows, Returns, UnlockSend, LLM!Complete, LLM!CompleteInline,
      LLM!Moves
<1>38. CASE UNCHANGED vars
  BY <1>38 DEF vars, mainVars
<1> QED
  BY <1>1, <1>2, <1>3, <1>4, <1>5, <1>6, <1>7, <1>8, <1>9, <1>10, <1>11, <1>12,
     <1>13, <1>14, <1>15, <1>16, <1>17, <1>18, <1>19, <1>20, <1>21, <1>22,
     <1>23, <1>24, <1>25, <1>26, <1>27, <1>28, <1>29, <1>30, <1>31, <1>32,
     <1>33, <1>34, <1>35, <1>36, <1>37, <1>38
  DEF Next, MainStep, MessageArrives, Environment, Exited, CallbackStep

\* No callback outlives main, which returns after Run and Shutdown and destroys the
\* client that the callbacks capture.
THEOREM ExitSafe == Spec => []QuietAfterExit
<1>1. Init => QuietAfterExit
  BY DEF Init, QuietAfterExit
<1> QED
  BY <1>1, ControlInit, ControlStep, QuietStep, PTL DEF Spec

-----------------------------------------------------------------------------
(***************************************************************************)
(* Reconnection.  The provers know no exponentiation; that 2^n doubles     *)
(* comes from counting the subsets of 1..n.                                *)
(***************************************************************************)
\* Doubling.
LEMMA PowersOfTwo ==
  2^0 = 1 /\ \A n \in Nat : 2^n \in Nat /\ 2^(n + 1) = 2 * 2^n
<1>1. 2^0 = 1
  OBVIOUS
<1>2. ASSUME NEW n \in Nat
      PROVE  2^n \in Nat /\ 2^(n + 1) = 2 * 2^n
  <2> DEFINE S == SUBSET (1..n)
             A == {T \in SUBSET (1..(n + 1)) : n + 1 \notin T}
             B == {T \in SUBSET (1..(n + 1)) : n + 1 \in T}
             f == [T \in S |-> T \cup {n + 1}]
  <2>1. \A m \in Nat : /\ IsFiniteSet(SUBSET (1..m))
                       /\ Cardinality(SUBSET (1..m)) = 2^m
    <3> TAKE m \in Nat
    <3>1. IsFiniteSet(1..m) /\ Cardinality(1..m) = m
      BY FS_Interval
    <3> QED
      BY <3>1, FS_SUBSET
  <2>2. A = S
    OBVIOUS
  <2>3. ExistsBijection(S, B)
    <3>1. f \in [S -> B]
      OBVIOUS
    <3>2. \A T, U \in S : f[T] = f[U] => T = U
      OBVIOUS
    <3>3. \A U \in B : \E T \in S : f[T] = U
      <4> TAKE U \in B
      <4> WITNESS U \ {n + 1} \in S
      <4> QED
        OBVIOUS
    <3> HIDE DEF S, B, f
    <3>4. f \in Injection(S, B) /\ f \in Surjection(S, B)
      BY <3>1, <3>2, <3>3 DEF Injection, Surjection, IsInjective
    <3> QED
      BY <3>4 DEF ExistsBijection, Bijection
  <2>4. IsFiniteSet(B) /\ Cardinality(B) = 2^n
    BY <2>1, <2>3, FS_Bijection
  <2>5. A \cup B = SUBSET (1..(n + 1)) /\ A \cap B = {}
    OBVIOUS
  <2>6. 2^n \in Nat
    BY <2>1, FS_CardinalityType
  <2> HIDE DEF S, A, B, f
  <2>7. Cardinality(A \cup B) = Cardinality(A) + Cardinality(B) - Cardinality({})
    BY <2>1, <2>2, <2>4, <2>5, FS_Union DEF S
  <2>8. Cardinality(A \cup B) = 2^(n + 1) /\ Cardinality(A) = 2^n
    <3>1. n + 1 \in Nat
      OBVIOUS
    <3>2. Cardinality(SUBSET (1..(n + 1))) = 2^(n + 1)
      BY <2>1, <3>1
    <3> QED
      BY <2>1, <2>2, <2>5, <3>2 DEF S
  <2> QED
    BY <2>4, <2>6, <2>7, <2>8, FS_EmptySet
<1> QED
  BY <1>1, <1>2

\* One more attempt doubles the delay, until it is the maximum and stays there.
LEMMA DoubledDelay ==
  ASSUME NEW n \in 0..MaxFailures
  PROVE  LET d(k) == IF InitialMs * 2^k < MaxMs THEN InitialMs * 2^k ELSE MaxMs
         IN  NextDelay(d(n)) = d(Grow(n))
<1> DEFINE p == 2^n
<1>0. p \in Nat /\ 2^(n + 1) = 2 * p
  BY PowersOfTwo, ClientAssumption
<1>1. InitialMs * (2 * p) = (InitialMs * p) * 2 /\ InitialMs * p \in Nat
  BY <1>0, ClientAssumption
<1>2. CASE n < MaxFailures
  BY <1>0, <1>1, <1>2, ClientAssumption DEF NextDelay, Grow
<1>3. CASE n = MaxFailures
  BY <1>0, <1>1, <1>3, ClientAssumption DEF NextDelay, Grow
<1> QED
  BY <1>2, <1>3, ClientAssumption

SameDelay == delay' = delay /\ failures' = failures

\* Only the sleep and the end of a session change the delay.
LEMMA BackoffStep == ControlInv /\ BoundedBackoff /\ [Next]_vars => BoundedBackoff'
<1> SUFFICES ASSUME ControlInv, BoundedBackoff, [Next]_vars PROVE BoundedBackoff'
  OBVIOUS
<1>0. failures \in 0..MaxFailures
  BY DEF ControlInv, Stages, OtherTypes
<1> USE DEF SameDelay, mainData, mainVars
<1>1. ASSUME RunLoop PROVE SameDelay
  BY <1>1 DEF RunLoop
<1>2. ASSUME ConnectFails PROVE SameDelay
  BY <1>2 DEF ConnectFails
<1>3. ASSUME ConnectSucceeds PROVE SameDelay
  BY <1>3 DEF ConnectSucceeds
<1>4. ASSUME SessionEnds PROVE BoundedBackoff'
  <2>1. (delay' = InitialMs /\ failures' = 0) \/ SameDelay
    BY <1>4 DEF SessionEnds, DelayAfterSession, SameDelay
  <2>2. InitialMs * 2^0 = InitialMs
    BY PowersOfTwo, ClientAssumption
  <2>3. CASE delay' = InitialMs /\ failures' = 0
    BY <2>2, <2>3, ClientAssumption DEF BoundedBackoff
  <2> QED
    BY <2>1, <2>3 DEF SameDelay, BoundedBackoff
<1>5. ASSUME SleepForReconnect PROVE BoundedBackoff'
  <2>1. delay' = NextDelay(delay) /\ failures' = Grow(failures)
    BY <1>5 DEF SleepForReconnect
  <2> QED
    BY <1>0, <2>1, DoubledDelay DEF BoundedBackoff
<1>6. ASSUME LlmShutdown PROVE SameDelay
  BY <1>6 DEF LlmShutdown, LLM!In
<1>7. ASSUME MainLocks PROVE SameDelay
  BY <1>7 DEF MainLocks, LockSend
<1>8. ASSUME MainSendsHead PROVE SameDelay
  BY <1>8 DEF MainSendsHead, Put
<1>9. ASSUME MainSendsTail PROVE SameDelay
  BY <1>9 DEF MainSendsTail, Put, UnlockSend
<1>10. ASSUME MainSendFails PROVE SameDelay
  BY <1>10 DEF MainSendFails, UnlockFailedSend, UnlockSend
<1>11. ASSUME HandshakeFails PROVE SameDelay
  BY <1>11 DEF HandshakeFails
<1>12. ASSUME ReceiveFails PROVE SameDelay
  BY <1>12 DEF ReceiveFails
<1>13. ASSUME AdmitRequest PROVE SameDelay
  BY <1>13 DEF AdmitRequest, CountCallback
<1>14. ASSUME GenerateAccepted PROVE SameDelay
  BY <1>14 DEF GenerateAccepted, LLM!Accept, LLM!Moves
<1>15. ASSUME GenerateRejected PROVE SameDelay
  BY <1>15 DEF GenerateRejected, LLM!Reject, LLM!Moves
<1>16. ASSUME CloseSession PROVE SameDelay
  BY <1>16 DEF CloseSession, AwaitCallbacks
<1>17. ASSUME CloseSessionWakes PROVE SameDelay
  BY <1>17 DEF CloseSessionWakes, AwaitCallbacks
<1>18. ASSUME HelloAcknowledged PROVE SameDelay
  BY <1>18 DEF HelloAcknowledged
<1>19. ASSUME ReceiveInvalid PROVE SameDelay
  BY <1>19 DEF ReceiveInvalid, Receives
<1>20. ASSUME ReceiveControl PROVE SameDelay
  BY <1>20 DEF ReceiveControl, Receives
<1>21. ASSUME StopRequested PROVE SameDelay
  BY <1>21 DEF StopRequested
<1>22. ASSUME PeerLeaves PROVE SameDelay
  BY <1>22 DEF PeerLeaves
<1>23. ASSUME PeerStalls PROVE SameDelay
  BY <1>23 DEF PeerStalls
<1>24. ASSUME PeerResumes PROVE SameDelay
  BY <1>24 DEF PeerResumes
<1>25. ASSUME NEW r \in Requests, ReceiveChatRequest(r) PROVE SameDelay
  BY <1>25 DEF ReceiveChatRequest, Receives
<1>26. ASSUME NEW r \in Requests, CallbackStarts(r) PROVE SameDelay
  BY <1>26 DEF CallbackStarts, LLM!Finish, LLM!Moves
<1>27. ASSUME NEW r \in Requests, CallbackChecks(r) PROVE SameDelay
  BY <1>27 DEF CallbackChecks
<1>28. ASSUME NEW r \in Requests, CallbackLocks(r) PROVE SameDelay
  BY <1>28 DEF CallbackLocks, LockSend
<1>29. ASSUME NEW r \in Requests, CallbackSendsHead(r) PROVE SameDelay
  BY <1>29 DEF CallbackSendsHead, Put
<1>30. ASSUME NEW r \in Requests, CallbackSendsTail(r) PROVE SameDelay
  BY <1>30 DEF CallbackSendsTail, Put, UnlockSend, AfterSend
<1>31. ASSUME NEW r \in Requests, CallbackSendFails(r) PROVE SameDelay
  BY <1>31 DEF CallbackSendFails, UnlockSend, AfterFailedSend
<1>32. ASSUME NEW r \in Requests, CallbackCloses(r) PROVE SameDelay
  BY <1>32 DEF CallbackCloses
<1>33. ASSUME NEW r \in Requests, CallbackShutsSocket(r) PROVE SameDelay
  BY <1>33 DEF CallbackShutsSocket
<1>34. ASSUME NEW r \in Requests, CallbackLeaves(r) PROVE SameDelay
  BY <1>34 DEF CallbackLeaves
<1>35. ASSUME NEW r \in Requests, CallbackNotifies(r) PROVE SameDelay
  BY <1>35 DEF CallbackNotifies, NotifyAll
<1>36. ASSUME NEW r \in Requests, CallbackReturns(r) PROVE SameDelay
  BY <1>36 DEF CallbackReturns, Returns, LLM!Complete, LLM!CompleteInline, LLM!Moves
<1>37. ASSUME NEW r \in Requests, CallbackThrows(r) PROVE SameDelay
  BY <1>37
  DEF CallbackThrows, Returns, UnlockSend, LLM!Complete, LLM!CompleteInline,
      LLM!Moves
<1>38. CASE UNCHANGED vars
  BY <1>38 DEF vars, BoundedBackoff
<1> QED
  BY <1>1, <1>2, <1>3, <1>4, <1>5, <1>6, <1>7, <1>8, <1>9, <1>10, <1>11, <1>12,
     <1>13, <1>14, <1>15, <1>16, <1>17, <1>18, <1>19, <1>20, <1>21, <1>22,
     <1>23, <1>24, <1>25, <1>26, <1>27, <1>28, <1>29, <1>30, <1>31, <1>32,
     <1>33, <1>34, <1>35, <1>36, <1>37, <1>38
  DEF SameDelay, BoundedBackoff, Next, MainStep, MessageArrives, Environment,
      Exited, CallbackStep

\* The delay doubles with every attempt without an authenticated session, up to the
\* maximum, and starts anew after such a session.
THEOREM BackoffCorrect == Spec => []BoundedBackoff
<1>1. Init => BoundedBackoff
  BY PowersOfTwo, ClientAssumption DEF Init, BoundedBackoff
<1> QED
  BY <1>1, ControlInit, ControlStep, BackoffStep, PTL DEF Spec

=============================================================================
