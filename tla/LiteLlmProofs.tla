--------------------------- MODULE LiteLlmProofs ---------------------------
(***************************************************************************)
(* Proofs about the LiteLlm facade, for any numbers of requests, threads   *)
(* and runtimes.                                                           *)
(***************************************************************************)
EXTENDS LiteLlm, TLAPS

-----------------------------------------------------------------------------
(***************************************************************************)
(* Types.  That a worker has a job exactly in its Holding states needs the *)
(* runtime that Initialize commits to be one no worker has run on yet.     *)
(***************************************************************************)
TypeInv == TypeOK /\ FreshInstances

\* The facade starts with its types right and no runtime made.
LEMMA TypeInvInit == Init => TypeInv
<1> SUFFICES ASSUME Init PROVE TypeInv
  OBVIOUS
<1>1. FlagsOK
  BY DEF Init, FlagsOK
<1> QED
  BY <1>1, ConstantsAssumption DEF Init, TypeInv, TypeOK, FreshInstances, Callers,
     ControllerStates, WorkerStates, Holding, Responses

\* Every step of every thread preserves the types and the freshness of runtimes.
LEMMA TypeInvStep == TypeInv /\ [Next]_vars => TypeInv'
<1> SUFFICES ASSUME TypeInv, [Next]_vars PROVE TypeInv'
  OBVIOUS
<1>0. FlagsOK'
  BY DEF TypeInv, TypeOK, FlagsOK, vars, implVars, callerVars, workerVars, clientVars,
     Next, InitializeNext, ShutdownNext, GenerateAsyncNext, WorkerStep,
     InitializeCheck, RuntimeCreated, RuntimeNotCreated, InitializeCommit,
     InitializeThreadFails, InitializeRollback, ShutdownWithoutWorker, ShutdownBegin,
     ShutdownJoin, ShutdownFinish, GenerateAsyncAccepts, GenerateAsyncRejects,
     RejectionCallback, WorkerSleeps, SpuriousWakeup, WorkerTakesJob, WorkerExits,
     ParseRequestFails, GenerateCalled, GenerateReturns, GenerateFaults,
     WorkerReleases, BusyAfterwards, WorkerCallback, WorkerChecks
<1> USE ConstantsAssumption DEF
      TypeInv, TypeOK, FreshInstances, Callers, ControllerStates,
      WorkerStates, Holding, Responses, implVars, callerVars, workerVars,
      clientVars
<1>1. ASSUME NEW c \in Controllers, InitializeCheck(c) PROVE TypeInv'
  BY <1>0, <1>1 DEF InitializeCheck
<1>2. ASSUME NEW c \in Controllers, RuntimeCreated(c) PROVE TypeInv'
  BY <1>0, <1>2 DEF RuntimeCreated
<1>3. ASSUME NEW c \in Controllers, RuntimeNotCreated(c) PROVE TypeInv'
  BY <1>0, <1>3 DEF RuntimeNotCreated
<1>4. ASSUME NEW c \in Controllers, InitializeCommit(c) PROVE TypeInv'
  BY <1>0, <1>4 DEF InitializeCommit
<1>5. ASSUME NEW c \in Controllers, InitializeThreadFails(c) PROVE TypeInv'
  BY <1>0, <1>5 DEF InitializeThreadFails
<1>6. ASSUME NEW c \in Controllers, InitializeRollback(c) PROVE TypeInv'
  BY <1>0, <1>6 DEF InitializeRollback
<1>7. ASSUME NEW t \in Callers, ShutdownWithoutWorker(t) PROVE TypeInv'
  BY <1>0, <1>7 DEF ShutdownWithoutWorker, MayCallShutdown
<1>8. ASSUME NEW t \in Callers, ShutdownBegin(t) PROVE TypeInv'
  BY <1>0, <1>8 DEF ShutdownBegin, WorkerMoved, NotifyOne, MayCallShutdown
<1>9. ASSUME NEW t \in Callers, ShutdownJoin(t) PROVE TypeInv'
  BY <1>0, <1>9 DEF ShutdownJoin, Joined
<1>10. ASSUME NEW t \in Callers, ShutdownFinish(t) PROVE TypeInv'
  BY <1>0, <1>10 DEF ShutdownFinish
<1>11. ASSUME NEW r \in Requests, GenerateAsyncAccepts(r) PROVE TypeInv'
  BY <1>0, <1>11 DEF GenerateAsyncAccepts, NotifyOne, NotCalled
<1>12. ASSUME NEW r \in Requests, GenerateAsyncRejects(r) PROVE TypeInv'
  BY <1>0, <1>12 DEF GenerateAsyncRejects, Rejection, Rejections, NotCalled
<1>13. ASSUME NEW r \in Requests, RejectionCallback(r) PROVE TypeInv'
  BY <1>0, <1>13 DEF RejectionCallback
<1>14. ASSUME NEW n \in Instances, WorkerSleeps(n) PROVE TypeInv'
  BY <1>0, <1>14 DEF WorkerSleeps
<1>15. ASSUME NEW n \in Instances, SpuriousWakeup(n) PROVE TypeInv'
  BY <1>0, <1>15 DEF SpuriousWakeup
<1>16. ASSUME NEW n \in Instances, WorkerTakesJob(n) PROVE TypeInv'
  BY <1>0, <1>16 DEF WorkerTakesJob, HasJob
<1>17. ASSUME NEW n \in Instances, WorkerExits(n) PROVE TypeInv'
  BY <1>0, <1>17 DEF WorkerExits, MayExit
<1>18. ASSUME NEW n \in Instances, ParseRequestFails(n) PROVE TypeInv'
  BY <1>0, <1>18 DEF ParseRequestFails
<1>19. ASSUME NEW n \in Instances, GenerateCalled(n) PROVE TypeInv'
  BY <1>0, <1>19 DEF GenerateCalled
<1>20. ASSUME NEW n \in Instances, GenerateReturns(n) PROVE TypeInv'
  BY <1>0, <1>20 DEF GenerateReturns, RuntimeResponse, GenerateStatus
<1>21. ASSUME NEW n \in Instances, GenerateFaults(n) PROVE TypeInv'
  BY <1>0, <1>21 DEF GenerateFaults
<1>22. ASSUME NEW n \in Instances, WorkerReleases(n) PROVE TypeInv'
  BY <1>0, <1>22 DEF WorkerReleases, BusyAfterwards
<1>23. ASSUME NEW n \in Instances, WorkerCallback(n) PROVE TypeInv'
  BY <1>0, <1>23 DEF WorkerCallback
<1>24. ASSUME NEW n \in Instances, WorkerChecks(n) PROVE TypeInv'
  BY <1>0, <1>24 DEF WorkerChecks
<1>25. CASE UNCHANGED vars
  BY <1>0, <1>25 DEF vars
<1> QED
  BY <1>1, <1>2, <1>3, <1>4, <1>5, <1>6, <1>7, <1>8, <1>9, <1>10, <1>11,
     <1>12, <1>13, <1>14, <1>15, <1>16, <1>17, <1>18, <1>19, <1>20, <1>21,
     <1>22, <1>23, <1>24, <1>25
  DEF Next, InitializeNext, ShutdownNext, GenerateAsyncNext, WorkerStep

\* The type invariant of the facade, for every way of using it.
THEOREM TypeCorrect == Spec => []TypeOK
<1>1. TypeInv => TypeOK
  BY DEF TypeInv
<1> QED
  BY <1>1, TypeInvInit, TypeInvStep, PTL DEF Spec

-----------------------------------------------------------------------------
(***************************************************************************)
(* At most one callback per call, with no assumption on who calls what:    *)
(* the callback is invoked from the one place where the job is, and leaves *)
(* it.                                                                     *)
(***************************************************************************)
AnswerInv == OnePlacePerJob /\ CallbackAtMostOnce

\* No job has a place at first.
LEMMA AnswerInvInit == Init => AnswerInv
BY ConstantsAssumption
DEF Init, AnswerInv, OnePlacePerJob, CallbackAtMostOnce, Serving, Holding

\* Every step moves a job from one place to the next, or answers it.
LEMMA AnswerInvStep ==
  TypeInv /\ AnswerInv /\ [Next]_vars => AnswerInv'
<1> SUFFICES ASSUME TypeOK, FreshInstances, AnswerInv, [Next]_vars PROVE AnswerInv'
  BY DEF TypeInv
<1> USE ConstantsAssumption DEF
      TypeOK, FreshInstances, Callers, AnswerInv, OnePlacePerJob,
      CallbackAtMostOnce, Serving, Holding, WorkerStates, NotCalled,
      implVars, callerVars, workerVars, clientVars
<1>1. ASSUME NEW c \in Controllers, InitializeCheck(c) PROVE AnswerInv'
  BY <1>1 DEF InitializeCheck
<1>2. ASSUME NEW c \in Controllers, RuntimeCreated(c) PROVE AnswerInv'
  BY <1>2 DEF RuntimeCreated
<1>3. ASSUME NEW c \in Controllers, RuntimeNotCreated(c) PROVE AnswerInv'
  BY <1>3 DEF RuntimeNotCreated
<1>4. ASSUME NEW c \in Controllers, InitializeCommit(c) PROVE AnswerInv'
  BY <1>4 DEF InitializeCommit
<1>5. ASSUME NEW c \in Controllers, InitializeThreadFails(c) PROVE AnswerInv'
  BY <1>5 DEF InitializeThreadFails
<1>6. ASSUME NEW c \in Controllers, InitializeRollback(c) PROVE AnswerInv'
  BY <1>6 DEF InitializeRollback
<1>7. ASSUME NEW t \in Callers, ShutdownWithoutWorker(t) PROVE AnswerInv'
  BY <1>7 DEF ShutdownWithoutWorker, MayCallShutdown
<1>8. ASSUME NEW t \in Callers, ShutdownBegin(t) PROVE AnswerInv'
  BY <1>8 DEF ShutdownBegin, WorkerMoved, NotifyOne, MayCallShutdown
<1>9. ASSUME NEW t \in Callers, ShutdownJoin(t) PROVE AnswerInv'
  BY <1>9 DEF ShutdownJoin, Joined
<1>10. ASSUME NEW t \in Callers, ShutdownFinish(t) PROVE AnswerInv'
  BY <1>10 DEF ShutdownFinish
<1>11. ASSUME NEW r \in Requests, GenerateAsyncAccepts(r) PROVE AnswerInv'
  BY <1>11 DEF GenerateAsyncAccepts, NotifyOne, NotCalled
<1>12. ASSUME NEW r \in Requests, GenerateAsyncRejects(r) PROVE AnswerInv'
  BY <1>12 DEF GenerateAsyncRejects, Rejection, NotCalled
<1>13. ASSUME NEW r \in Requests, RejectionCallback(r) PROVE AnswerInv'
  BY <1>13 DEF RejectionCallback
<1>14. ASSUME NEW n \in Instances, WorkerSleeps(n) PROVE AnswerInv'
  BY <1>14 DEF WorkerSleeps
<1>15. ASSUME NEW n \in Instances, SpuriousWakeup(n) PROVE AnswerInv'
  BY <1>15 DEF SpuriousWakeup
<1>16. ASSUME NEW n \in Instances, WorkerTakesJob(n) PROVE AnswerInv'
  BY <1>16 DEF WorkerTakesJob, HasJob
<1>17. ASSUME NEW n \in Instances, WorkerExits(n) PROVE AnswerInv'
  BY <1>17 DEF WorkerExits, MayExit
<1>18. ASSUME NEW n \in Instances, ParseRequestFails(n) PROVE AnswerInv'
  BY <1>18 DEF ParseRequestFails
<1>19. ASSUME NEW n \in Instances, GenerateCalled(n) PROVE AnswerInv'
  BY <1>19 DEF GenerateCalled
<1>20. ASSUME NEW n \in Instances, GenerateReturns(n) PROVE AnswerInv'
  BY <1>20 DEF GenerateReturns
<1>21. ASSUME NEW n \in Instances, GenerateFaults(n) PROVE AnswerInv'
  BY <1>21 DEF GenerateFaults
<1>22. ASSUME NEW n \in Instances, WorkerReleases(n) PROVE AnswerInv'
  BY <1>22 DEF WorkerReleases, BusyAfterwards
<1>23. ASSUME NEW n \in Instances, WorkerCallback(n) PROVE AnswerInv'
  BY <1>23 DEF WorkerCallback
<1>24. ASSUME NEW n \in Instances, WorkerChecks(n) PROVE AnswerInv'
  BY <1>24 DEF WorkerChecks
<1>25. CASE UNCHANGED vars
  BY <1>25 DEF vars
<1> QED
  BY <1>1, <1>2, <1>3, <1>4, <1>5, <1>6, <1>7, <1>8, <1>9, <1>10, <1>11,
     <1>12, <1>13, <1>14, <1>15, <1>16, <1>17, <1>18, <1>19, <1>20, <1>21,
     <1>22, <1>23, <1>24, <1>25
  DEF Next, InitializeNext, ShutdownNext, GenerateAsyncNext, WorkerStep

\* No callback is invoked twice, whoever calls Initialize and Shutdown and
\* from wherever.
THEOREM AnsweredAtMostOnce == Spec => []CallbackAtMostOnce
<1>1. AnswerInv => CallbackAtMostOnce
  BY DEF AnswerInv
<1> QED
  BY <1>1, TypeInvInit, TypeInvStep, AnswerInvInit, AnswerInvStep, PTL DEF Spec

-----------------------------------------------------------------------------
(***************************************************************************)
(* Safety under a single owner.  There is then one live worker, it runs on *)
(* the current runtime, and the owner resets the members only when that    *)
(* worker has exited.                                                      *)
(***************************************************************************)
OwnedInv ==
  /\ OneLiveWorker /\ StoppingHasNoWorker /\ SlotServed /\ BusyExact
  /\ RuntimeOutlivesGeneration /\ AcceptedNotLost /\ NoAbort

\* The facade starts with no worker, no job and nothing busy.
LEMMA OwnedInvInit == Init => OwnedInv
BY ConstantsAssumption
DEF Init, OwnedInv, OneLiveWorker, StoppingHasNoWorker, SlotServed, BusyExact,
    RuntimeOutlivesGeneration, AcceptedNotLost, NoAbort, Alive, Callers

\* Under a single owner every step preserves the invariant.
LEMMA OwnedInvStep ==
  ASSUME SingleOwner
  PROVE  TypeInv /\ AnswerInv /\ OwnedInv /\ [Next]_vars => OwnedInv'
<1> SUFFICES ASSUME TypeOK, OnePlacePerJob, OwnedInv, [Next]_vars
             PROVE  OwnedInv'
  BY DEF TypeInv, AnswerInv
<1> USE ConstantsAssumption, SingleOwner DEF
      SingleOwner, TypeOK, FlagsOK, Callers, OnePlacePerJob, OwnedInv,
      OneLiveWorker, StoppingHasNoWorker, SlotServed, BusyExact,
      RuntimeOutlivesGeneration, AcceptedNotLost, NoAbort, Alive, Serving,
      Holding, WorkerStates, ControllerStates, implVars, callerVars,
      workerVars, clientVars
<1>1. ASSUME NEW c \in Controllers, InitializeCheck(c) PROVE OwnedInv'
  BY <1>1 DEF InitializeCheck
<1>2. ASSUME NEW c \in Controllers, RuntimeCreated(c) PROVE OwnedInv'
  BY <1>2 DEF RuntimeCreated
<1>3. ASSUME NEW c \in Controllers, RuntimeNotCreated(c) PROVE OwnedInv'
  BY <1>3 DEF RuntimeNotCreated
<1>4. ASSUME NEW c \in Controllers, InitializeCommit(c) PROVE OwnedInv'
  BY <1>4 DEF InitializeCommit
<1>5. ASSUME NEW c \in Controllers, InitializeThreadFails(c) PROVE OwnedInv'
  BY <1>5 DEF InitializeThreadFails
<1>6. ASSUME NEW c \in Controllers, InitializeRollback(c) PROVE OwnedInv'
  BY <1>6 DEF InitializeRollback
<1>7. ASSUME NEW t \in Callers, ShutdownWithoutWorker(t) PROVE OwnedInv'
  BY <1>7 DEF ShutdownWithoutWorker, MayCallShutdown
<1>8. ASSUME NEW t \in Callers, ShutdownBegin(t) PROVE OwnedInv'
  BY <1>8 DEF ShutdownBegin, WorkerMoved, NotifyOne, MayCallShutdown
<1>9. ASSUME NEW t \in Callers, ShutdownJoin(t) PROVE OwnedInv'
  BY <1>9 DEF ShutdownJoin, Joined
<1>10. ASSUME NEW t \in Callers, ShutdownFinish(t) PROVE OwnedInv'
  BY <1>10 DEF ShutdownFinish
<1>11. ASSUME NEW r \in Requests, GenerateAsyncAccepts(r) PROVE OwnedInv'
  BY <1>11 DEF GenerateAsyncAccepts, NotifyOne, NotCalled, Rejection, Responses, Rejections
<1>12. ASSUME NEW r \in Requests, GenerateAsyncRejects(r) PROVE OwnedInv'
  BY <1>12 DEF GenerateAsyncRejects, Rejection, NotCalled
<1>13. ASSUME NEW r \in Requests, RejectionCallback(r) PROVE OwnedInv'
  BY <1>13 DEF RejectionCallback
<1>14. ASSUME NEW n \in Instances, WorkerSleeps(n) PROVE OwnedInv'
  BY <1>14 DEF WorkerSleeps
<1>15. ASSUME NEW n \in Instances, SpuriousWakeup(n) PROVE OwnedInv'
  BY <1>15 DEF SpuriousWakeup
<1>16. ASSUME NEW n \in Instances, WorkerTakesJob(n) PROVE OwnedInv'
  BY <1>16 DEF WorkerTakesJob, HasJob
<1>17. ASSUME NEW n \in Instances, WorkerExits(n) PROVE OwnedInv'
  BY <1>17 DEF WorkerExits, MayExit
<1>18. ASSUME NEW n \in Instances, ParseRequestFails(n) PROVE OwnedInv'
  BY <1>18 DEF ParseRequestFails
<1>19. ASSUME NEW n \in Instances, GenerateCalled(n) PROVE OwnedInv'
  BY <1>19 DEF GenerateCalled
<1>20. ASSUME NEW n \in Instances, GenerateReturns(n) PROVE OwnedInv'
  BY <1>20 DEF GenerateReturns
<1>21. ASSUME NEW n \in Instances, GenerateFaults(n) PROVE OwnedInv'
  BY <1>21 DEF GenerateFaults
<1>22. ASSUME NEW n \in Instances, WorkerReleases(n) PROVE OwnedInv'
  BY <1>22 DEF WorkerReleases, BusyAfterwards
<1>23. ASSUME NEW n \in Instances, WorkerCallback(n) PROVE OwnedInv'
  BY <1>23 DEF WorkerCallback
<1>24. ASSUME NEW n \in Instances, WorkerChecks(n) PROVE OwnedInv'
  BY <1>24 DEF WorkerChecks
<1>25. CASE UNCHANGED vars
  BY <1>25 DEF vars
<1> QED
  BY <1>1, <1>2, <1>3, <1>4, <1>5, <1>6, <1>7, <1>8, <1>9, <1>10, <1>11,
     <1>12, <1>13, <1>14, <1>15, <1>16, <1>17, <1>18, <1>19, <1>20, <1>21,
     <1>22, <1>23, <1>24, <1>25
  DEF Next, InitializeNext, ShutdownNext, GenerateAsyncNext, WorkerStep

\* Under a single owner the facade keeps the runtime while Generate runs, drops
\* no accepted call, keeps busy_ exact, leaves nothing behind after Shutdown and
\* never ends the process.
THEOREM OwnedSafety ==
  ASSUME SingleOwner
  PROVE  Spec => [](/\ RuntimeOutlivesGeneration
                    /\ AcceptedNotLost
                    /\ BusyExact
                    /\ QuietAfterShutdown
                    /\ NoAbort)
<1>1. TypeInv /\ OwnedInv => QuietAfterShutdown
  <2> SUFFICES ASSUME TypeOK, OneLiveWorker, SlotServed, AcceptedNotLost,
                      worker_ = None, \A c \in Controllers : cpc[c] = "idle"
               PROVE  /\ \A n \in Instances : ~Alive(n)
                      /\ \A r \in admitted : calls[r] > 0
    BY DEF TypeInv, OwnedInv, QuietAfterShutdown
  <2>1. \A n \in Instances : ~Alive(n)
    BY ConstantsAssumption DEF TypeOK, OneLiveWorker, Callers
  <2>2. job_ = None /\ \A n \in Instances : wpc[n] \notin Serving
    BY <2>1 DEF SlotServed, Alive, Serving, Holding
  <2>3. \A r \in admitted : calls[r] \in Nat /\ calls[r] # 0
    BY <2>2, ConstantsAssumption DEF TypeOK, AcceptedNotLost
  <2> QED
    BY <2>1, <2>3
<1>2. OwnedInv => /\ RuntimeOutlivesGeneration /\ AcceptedNotLost
                  /\ BusyExact /\ NoAbort
  BY DEF OwnedInv
<1> QED
  BY <1>1, <1>2, TypeInvInit, TypeInvStep, AnswerInvInit, AnswerInvStep,
     OwnedInvInit, OwnedInvStep, PTL DEF Spec

\* Under a single owner the runtime is kept while Generate runs.
THEOREM RuntimeKept == ASSUME SingleOwner PROVE Spec => []RuntimeOutlivesGeneration
BY OwnedSafety, PTL

\* Under a single owner an accepted call is not dropped by Shutdown or a later call.
THEOREM AcceptedCallsKept == ASSUME SingleOwner PROVE Spec => []AcceptedNotLost
BY OwnedSafety, PTL

\* Under a single owner busy_ is true exactly while a job waits or is processed.
THEOREM BusyIsExact == ASSUME SingleOwner PROVE Spec => []BusyExact
BY OwnedSafety, PTL

\* Under a single owner nothing runs and nothing is owed after Shutdown.
THEOREM ShutdownLeavesNothing == ASSUME SingleOwner PROVE Spec => []QuietAfterShutdown
BY OwnedSafety, PTL

\* Under a single owner the process does not abort.
THEOREM NeverAborts == ASSUME SingleOwner PROVE Spec => []NoAbort
BY OwnedSafety, PTL

\* Under a single owner no call is accepted while a Shutdown is under way.
THEOREM AdmissionStopsAtShutdown ==
  ASSUME SingleOwner
  PROVE  Spec => AdmissionStopped
<1>1. ASSUME TypeInv, OwnedInv, [Next]_vars,
             \E t \in Callers : cpc[t] \in {"joining", "joined"}
      PROVE  admitted' = admitted
  <2>1. worker_ = None
    BY <1>1 DEF OwnedInv, OneLiveWorker, Callers
  <2>2. \A r \in Requests : ~GenerateAsyncAccepts(r)
    BY <2>1, ConstantsAssumption DEF GenerateAsyncAccepts, Rejection, Responses, Rejections
  <2> QED
    BY <1>1, <2>2
    DEF vars, clientVars, Next, InitializeNext, ShutdownNext, GenerateAsyncNext, WorkerStep,
        InitializeCheck, RuntimeCreated, RuntimeNotCreated, InitializeCommit,
        InitializeThreadFails, InitializeRollback, ShutdownWithoutWorker, ShutdownBegin,
        ShutdownJoin, ShutdownFinish, GenerateAsyncRejects, RejectionCallback,
        WorkerSleeps, SpuriousWakeup, WorkerTakesJob, WorkerExits, ParseRequestFails,
        GenerateCalled, GenerateReturns, GenerateFaults, WorkerReleases,
        WorkerCallback, WorkerChecks
<1>2. TypeInv /\ OwnedInv /\ [Next]_vars =>
        [(\E t \in Callers : cpc[t] \in {"joining", "joined"}) => admitted' = admitted]_vars
  BY <1>1
<1> QED
  BY <1>2, TypeInvInit, TypeInvStep, AnswerInvInit, AnswerInvStep,
     OwnedInvInit, OwnedInvStep, PTL DEF Spec, AdmissionStopped

-----------------------------------------------------------------------------
(***************************************************************************)
(* The answer to a call made during Shutdown.                              *)
(***************************************************************************)
StoppingInv == StoppingHasNoWorker /\ ShuttingDownNeverAnswered

\* No step lets a stopping facade have a worker_ or answers "shutting_down".
LEMMA StoppingInvStep == TypeInv /\ StoppingInv /\ [Next]_vars => StoppingInv'
<1> SUFFICES ASSUME TypeOK, StoppingInv, [Next]_vars PROVE StoppingInv'
  BY DEF TypeInv
<1> USE ConstantsAssumption DEF
      StoppingInv, StoppingHasNoWorker, ShuttingDownNeverAnswered, TypeOK,
      Callers, implVars, callerVars, workerVars, clientVars
<1>1. ASSUME NEW c \in Controllers, InitializeCheck(c) PROVE StoppingInv'
  BY <1>1 DEF InitializeCheck
<1>2. ASSUME NEW c \in Controllers, RuntimeCreated(c) PROVE StoppingInv'
  BY <1>2 DEF RuntimeCreated
<1>3. ASSUME NEW c \in Controllers, RuntimeNotCreated(c) PROVE StoppingInv'
  BY <1>3 DEF RuntimeNotCreated
<1>4. ASSUME NEW c \in Controllers, InitializeCommit(c) PROVE StoppingInv'
  BY <1>4 DEF InitializeCommit
<1>5. ASSUME NEW c \in Controllers, InitializeThreadFails(c) PROVE StoppingInv'
  BY <1>5 DEF InitializeThreadFails
<1>6. ASSUME NEW c \in Controllers, InitializeRollback(c) PROVE StoppingInv'
  BY <1>6 DEF InitializeRollback
<1>7. ASSUME NEW t \in Callers, ShutdownWithoutWorker(t) PROVE StoppingInv'
  BY <1>7 DEF ShutdownWithoutWorker
<1>8. ASSUME NEW t \in Callers, ShutdownBegin(t) PROVE StoppingInv'
  BY <1>8 DEF ShutdownBegin, WorkerMoved
<1>9. ASSUME NEW t \in Callers, ShutdownJoin(t) PROVE StoppingInv'
  BY <1>9 DEF ShutdownJoin, Joined
<1>10. ASSUME NEW t \in Callers, ShutdownFinish(t) PROVE StoppingInv'
  BY <1>10 DEF ShutdownFinish
<1>11. ASSUME NEW r \in Requests, GenerateAsyncAccepts(r) PROVE StoppingInv'
  BY <1>11 DEF GenerateAsyncAccepts
<1>12. ASSUME NEW r \in Requests, GenerateAsyncRejects(r) PROVE StoppingInv'
  BY <1>12 DEF GenerateAsyncRejects, Rejection, NotCalled
<1>13. ASSUME NEW r \in Requests, RejectionCallback(r) PROVE StoppingInv'
  BY <1>13 DEF RejectionCallback
<1>14. ASSUME NEW n \in Instances, WorkerSleeps(n) PROVE StoppingInv'
  BY <1>14 DEF WorkerSleeps
<1>15. ASSUME NEW n \in Instances, SpuriousWakeup(n) PROVE StoppingInv'
  BY <1>15 DEF SpuriousWakeup
<1>16. ASSUME NEW n \in Instances, WorkerTakesJob(n) PROVE StoppingInv'
  BY <1>16 DEF WorkerTakesJob, HasJob
<1>17. ASSUME NEW n \in Instances, WorkerExits(n) PROVE StoppingInv'
  BY <1>17 DEF WorkerExits, MayExit
<1>18. ASSUME NEW n \in Instances, ParseRequestFails(n) PROVE StoppingInv'
  BY <1>18 DEF ParseRequestFails
<1>19. ASSUME NEW n \in Instances, GenerateCalled(n) PROVE StoppingInv'
  BY <1>19 DEF GenerateCalled
<1>20. ASSUME NEW n \in Instances, GenerateReturns(n) PROVE StoppingInv'
  BY <1>20 DEF GenerateReturns, RuntimeResponse, GenerateStatus
<1>21. ASSUME NEW n \in Instances, GenerateFaults(n) PROVE StoppingInv'
  BY <1>21 DEF GenerateFaults
<1>22. ASSUME NEW n \in Instances, WorkerReleases(n) PROVE StoppingInv'
  BY <1>22 DEF WorkerReleases, BusyAfterwards
<1>23. ASSUME NEW n \in Instances, WorkerCallback(n) PROVE StoppingInv'
  BY <1>23 DEF WorkerCallback
<1>24. ASSUME NEW n \in Instances, WorkerChecks(n) PROVE StoppingInv'
  BY <1>24 DEF WorkerChecks
<1>25. CASE UNCHANGED vars
  BY <1>25 DEF vars
<1> QED
  BY <1>1, <1>2, <1>3, <1>4, <1>5, <1>6, <1>7, <1>8, <1>9, <1>10, <1>11,
     <1>12, <1>13, <1>14, <1>15, <1>16, <1>17, <1>18, <1>19, <1>20, <1>21,
     <1>22, <1>23, <1>24, <1>25
  DEF Next, InitializeNext, ShutdownNext, GenerateAsyncNext, WorkerStep

\* However the facade is used, no call is answered "shutting_down".
THEOREM NotReadyDuringShutdown == Spec => []ShuttingDownNeverAnswered
<1>1. Init => StoppingInv
  BY ConstantsAssumption DEF Init, StoppingInv, StoppingHasNoWorker,
     ShuttingDownNeverAnswered, Responses, Rejections
<1>2. StoppingInv => ShuttingDownNeverAnswered
  BY DEF StoppingInv
<1> QED
  BY <1>1, <1>2, TypeInvInit, TypeInvStep, StoppingInvStep, PTL DEF Spec

-----------------------------------------------------------------------------
(***************************************************************************)
(* The facade implements the service.                                      *)
(***************************************************************************)
\* A step of the facade moves at most one call, and as the service may.
LEMMA ServiceStep ==
  ASSUME SingleOwner,
         TypeInv, AnswerInv, OwnedInv, [Next]_vars
  PROVE  [Service!Next]_[r \in Requests |-> CallPhase(r)]
<1> DEFINE Same == \A q \in Requests : CallPhase(q)' = CallPhase(q)
           Moves(r, from, to) ==
             /\ CallPhase(r) = from /\ CallPhase(r)' = to
             /\ \A q \in Requests \ {r} : CallPhase(q)' = CallPhase(q)
           Nowhere(p) == \A q \in Requests : CallPhase(q) # p
           Goal == \/ Same
                   \/ \E r \in Requests :
                        \/ Nowhere("active") /\ Moves(r, "new", "active")
                        \/ Moves(r, "new", "rejected")
                        \/ Nowhere("completing") /\ Moves(r, "active", "completing")
                        \/ Moves(r, "completing", "done")
                        \/ Moves(r, "rejected", "done")
<1> SUFFICES Goal
  BY DEF Service!Next, Service!Accept, Service!Reject, Service!Finish,
         Service!Complete, Service!CompleteInline, Service!Moves, Service!In
<1> USE ConstantsAssumption, SingleOwner DEF
      SingleOwner, TypeInv, TypeOK, FlagsOK, Callers, AnswerInv,
      OnePlacePerJob, OwnedInv, OneLiveWorker, StoppingHasNoWorker,
      SlotServed, BusyExact, CallPhase, NotCalled, CallbackAtMostOnce,
      RuntimeOutlivesGeneration, AcceptedNotLost, NoAbort, Alive, Serving,
      Holding, WorkerStates, ControllerStates, implVars, callerVars,
      workerVars, clientVars
<1>1. ASSUME NEW c \in Controllers, InitializeCheck(c) PROVE Goal
  BY <1>1 DEF InitializeCheck
<1>2. ASSUME NEW c \in Controllers, RuntimeCreated(c) PROVE Goal
  BY <1>2 DEF RuntimeCreated
<1>3. ASSUME NEW c \in Controllers, RuntimeNotCreated(c) PROVE Goal
  BY <1>3 DEF RuntimeNotCreated
<1>4. ASSUME NEW c \in Controllers, InitializeCommit(c) PROVE Goal
  BY <1>4 DEF InitializeCommit
<1>5. ASSUME NEW c \in Controllers, InitializeThreadFails(c) PROVE Goal
  BY <1>5 DEF InitializeThreadFails
<1>6. ASSUME NEW c \in Controllers, InitializeRollback(c) PROVE Goal
  BY <1>6 DEF InitializeRollback
<1>7. ASSUME NEW t \in Callers, ShutdownWithoutWorker(t) PROVE Goal
  BY <1>7 DEF ShutdownWithoutWorker, MayCallShutdown
<1>8. ASSUME NEW t \in Callers, ShutdownBegin(t) PROVE Goal
  BY <1>8 DEF ShutdownBegin, WorkerMoved, NotifyOne, MayCallShutdown
<1>9. ASSUME NEW t \in Callers, ShutdownJoin(t) PROVE Goal
  BY <1>9 DEF ShutdownJoin, Joined
<1>10. ASSUME NEW t \in Callers, ShutdownFinish(t) PROVE Goal
  BY <1>10 DEF ShutdownFinish
<1>11. ASSUME NEW r \in Requests, GenerateAsyncAccepts(r) PROVE Goal
  BY <1>11 DEF GenerateAsyncAccepts, NotifyOne, NotCalled, Rejection, Responses, Rejections
<1>12. ASSUME NEW r \in Requests, GenerateAsyncRejects(r) PROVE Goal
  BY <1>12 DEF GenerateAsyncRejects, Rejection, NotCalled
<1>13. ASSUME NEW r \in Requests, RejectionCallback(r) PROVE Goal
  BY <1>13 DEF RejectionCallback
<1>14. ASSUME NEW n \in Instances, WorkerSleeps(n) PROVE Goal
  BY <1>14 DEF WorkerSleeps
<1>15. ASSUME NEW n \in Instances, SpuriousWakeup(n) PROVE Goal
  BY <1>15 DEF SpuriousWakeup
<1>16. ASSUME NEW n \in Instances, WorkerTakesJob(n) PROVE Goal
  BY <1>16 DEF WorkerTakesJob, HasJob
<1>17. ASSUME NEW n \in Instances, WorkerExits(n) PROVE Goal
  BY <1>17 DEF WorkerExits, MayExit
<1>18. ASSUME NEW n \in Instances, ParseRequestFails(n) PROVE Goal
  BY <1>18 DEF ParseRequestFails
<1>19. ASSUME NEW n \in Instances, GenerateCalled(n) PROVE Goal
  BY <1>19 DEF GenerateCalled
<1>20. ASSUME NEW n \in Instances, GenerateReturns(n) PROVE Goal
  BY <1>20 DEF GenerateReturns
<1>21. ASSUME NEW n \in Instances, GenerateFaults(n) PROVE Goal
  BY <1>21 DEF GenerateFaults
<1>22. ASSUME NEW n \in Instances, WorkerReleases(n) PROVE Goal
  BY <1>22 DEF WorkerReleases, BusyAfterwards
<1>23. ASSUME NEW n \in Instances, WorkerCallback(n) PROVE Goal
  BY <1>23 DEF WorkerCallback
<1>24. ASSUME NEW n \in Instances, WorkerChecks(n) PROVE Goal
  BY <1>24 DEF WorkerChecks
<1>25. CASE UNCHANGED vars
  BY <1>25 DEF vars
<1> QED
  BY <1>1, <1>2, <1>3, <1>4, <1>5, <1>6, <1>7, <1>8, <1>9, <1>10, <1>11,
     <1>12, <1>13, <1>14, <1>15, <1>16, <1>17, <1>18, <1>19, <1>20, <1>21,
     <1>22, <1>23, <1>24, <1>25
  DEF Next, InitializeNext, ShutdownNext, GenerateAsyncNext, WorkerStep

\* Under a single owner every step of the facade is a step of the service its
\* header promises, or changes nothing the callers can see.
THEOREM FacadeImplementsService ==
  ASSUME SingleOwner
  PROVE  Spec => Service!Spec
<1>1. Init => Service!Init
  BY ConstantsAssumption DEF Init, Service!Init, CallPhase, NotCalled
<1>2. TypeInv /\ AnswerInv /\ OwnedInv /\ [Next]_vars
        => [Service!Next]_[r \in Requests |-> CallPhase(r)]
  BY ServiceStep
<1> QED
  BY <1>1, <1>2, TypeInvInit, TypeInvStep, AnswerInvInit, AnswerInvStep,
     OwnedInvInit, OwnedInvStep, PTL DEF Spec, Service!Spec

=============================================================================
