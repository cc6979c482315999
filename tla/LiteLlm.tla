------------------------------ MODULE LiteLlm ------------------------------
(***************************************************************************)
(* The LiteLlm facade (src/src/lite_llm.cpp, class LiteLlm::Impl): one     *)
(* inference runtime, one worker thread, one job slot, and a mutex that    *)
(* client threads and the worker share.  Every critical section of mutex_  *)
(* is one action; whatever the code does between two critical sections is  *)
(* a step of its own, so that every interleaving the mutex allows is a     *)
(* behaviour.                                                              *)
(*                                                                         *)
(* A call of GenerateAsync is a member of Requests and is made at most     *)
(* once.  The thread that makes it is left open, so a call made by another *)
(* request's callback is covered; a call with an empty callback changes    *)
(* nothing and is not modelled.  Initialize is called by the threads in    *)
(* Controllers; Shutdown by the threads in ShutdownCallers: controllers,   *)
(* and workers, on which a completion callback makes the call.             *)
(***************************************************************************)
EXTENDS Naturals

CONSTANTS
  Requests,             \* calls of GenerateAsync
  Controllers,          \* client threads that call Initialize and Shutdown
  Instances,            \* runtimes that Initialize may create; bounds a run
  RuntimeStatuses,      \* the GenerateStatus values the runtime may return
  ShutdownCallers,      \* threads that call Shutdown
  None                  \* nullptr, std::nullopt, a thread that is not joinable

(***************************************************************************)
(* enum class GenerateStatus of the runtime's interface.                   *)
(***************************************************************************)
GenerateStatus ==
  {"Ok", "InvalidArgument", "ContextTooLong", "OutOfMemory", "InternalError"}

(***************************************************************************)
(* The responses: those of a rejected call, those of Process.              *)
(***************************************************************************)
Rejections == {"not_ready", "shutting_down", "busy"}

\* RuntimeErrorResponse and CompletionResponse: the code that answers what
\* the runtime returned.
RuntimeResponse(status) ==
  CASE status = "Ok"              -> "completion"
    [] status = "InvalidArgument" -> "invalid_argument"
    [] status = "ContextTooLong"  -> "context_too_long"
    [] status = "OutOfMemory"     -> "out_of_memory"
    [] status = "InternalError"   -> "internal_error"

Responses ==
  Rejections \cup {"completion", "invalid_request", "invalid_argument",
                   "context_too_long", "out_of_memory", "internal_error"}

ASSUME ConstantsAssumption ==
  /\ None \notin Requests \cup Instances \cup Responses
  /\ Controllers \cap Instances = {}
  /\ RuntimeStatuses \subseteq GenerateStatus
  /\ ShutdownCallers \subseteq Controllers \cup Instances

VARIABLES
  runtime_,   \* the runtime the facade owns, or None
  worker_,    \* the joinable worker thread, named after its runtime, or None
  job_,       \* the request in the job slot, or None
  busy_,      \* admission flag
  stopping_,  \* shutdown flag
  created,    \* runtimes made so far (CreateFromConfig)
  cpc,        \* where each caller of Initialize or Shutdown is
  made,       \* Initialize's local `runtime`, per controller
  joining,    \* Shutdown's local `worker`, per caller
  wpc,        \* where each worker thread is
  wjob,       \* WorkerLoop's local `job`
  wruntime,   \* the runtime on which the worker called Generate
  admitted,   \* requests that got the job slot
  response,   \* the code of the response made for each request
  calls,      \* how often each request's callback has been invoked
  aborted     \* std::terminate or a fault has ended the process

implVars   == <<runtime_, worker_, job_, busy_, stopping_>>
callerVars == <<created, cpc, made, joining>>
workerVars == <<wpc, wjob, wruntime>>
clientVars == <<admitted, response, calls>>
vars       == <<implVars, callerVars, workerVars, clientVars, aborted>>

Callers == Controllers \cup Instances

ControllerStates ==
  {"idle", "creating", "created", "rollback", "joining", "joined"}

WorkerStates ==
  {"unborn", "wait", "asleep", "parse", "generating", "finish", "callback",
   "check", "exited"}

Init ==
  /\ runtime_ = None /\ worker_ = None /\ job_ = None
  /\ busy_ = FALSE /\ stopping_ = FALSE
  /\ created = {}
  /\ cpc = [t \in Callers |-> "idle"]
  /\ made = [t \in Callers |-> None]
  /\ joining = [t \in Callers |-> None]
  /\ wpc = [n \in Instances |-> "unborn"]
  /\ wjob = [n \in Instances |-> None]
  /\ wruntime = [n \in Instances |-> None]
  /\ admitted = {}
  /\ response = [r \in Requests |-> None]
  /\ calls = [r \in Requests |-> 0]
  /\ aborted = FALSE

-----------------------------------------------------------------------------
(***************************************************************************)
(* condition_: notify_one wakes one sleeping worker, if there is one; the  *)
(* woken worker competes for the mutex again and re-evaluates its          *)
(* predicate.                                                              *)
(***************************************************************************)
\* Mutant: nobody is notified.
NotifyNobody == UNCHANGED wpc

NotifyOne ==
  \/ /\ \A n \in Instances : wpc[n] # "asleep"
     /\ UNCHANGED wpc
  \/ \E n \in Instances : /\ wpc[n] = "asleep"
                          /\ wpc' = [wpc EXCEPT ![n] = "wait"]

-----------------------------------------------------------------------------
(***************************************************************************)
(* Initialize.  The check that nothing is initialized and the commit are   *)
(* two critical sections; the runtime is created between them, unlocked.   *)
(***************************************************************************)
InitializeCheck(c) ==
  /\ cpc[c] = "idle"
  /\ runtime_ = None /\ worker_ = None
  /\ cpc' = [cpc EXCEPT ![c] = "creating"]
  /\ UNCHANGED <<implVars, created, made, joining, workerVars, clientVars, aborted>>

\* CreateFromConfig returned a runtime.
RuntimeCreated(c) ==
  /\ cpc[c] = "creating"
  /\ \E n \in Instances \ created :
       /\ created' = created \cup {n}
       /\ made' = [made EXCEPT ![c] = n]
  /\ cpc' = [cpc EXCEPT ![c] = "created"]
  /\ UNCHANGED <<implVars, joining, workerVars, clientVars, aborted>>

\* CreateFromConfig threw or returned null: Initialize reports the failure.
RuntimeNotCreated(c) ==
  /\ cpc[c] = "creating"
  /\ cpc' = [cpc EXCEPT ![c] = "idle"]
  /\ UNCHANGED <<implVars, created, made, joining, workerVars, clientVars, aborted>>

\* The commit, with the thread started.  Assigning to a joinable std::thread
\* calls std::terminate.
InitializeCommit(c) ==
  /\ cpc[c] = "created"
  /\ runtime_' = made[c]
  /\ stopping_' = FALSE
  /\ made' = [made EXCEPT ![c] = None]
  /\ cpc' = [cpc EXCEPT ![c] = "idle"]
  /\ \/ /\ worker_ = None
        /\ worker_' = made[c]
        /\ wpc' = [wpc EXCEPT ![made[c]] = "wait"]
        /\ UNCHANGED aborted
     \/ /\ worker_ # None
        /\ aborted' = TRUE
        /\ UNCHANGED <<worker_, wpc>>
  /\ UNCHANGED <<job_, busy_, created, joining, wjob, wruntime, clientVars>>

\* The commit, when std::thread throws: the lock is released by unwinding and
\* the handler takes it again to drop the runtime.
InitializeThreadFails(c) ==
  /\ cpc[c] = "created"
  /\ runtime_' = made[c]
  /\ stopping_' = FALSE
  /\ made' = [made EXCEPT ![c] = None]
  /\ cpc' = [cpc EXCEPT ![c] = "rollback"]
  /\ UNCHANGED <<worker_, job_, busy_, created, joining, workerVars, clientVars, aborted>>

InitializeRollback(c) ==
  /\ cpc[c] = "rollback"
  /\ runtime_' = None
  /\ cpc' = [cpc EXCEPT ![c] = "idle"]
  /\ UNCHANGED <<worker_, job_, busy_, stopping_, created, made, joining,
                 workerVars, clientVars, aborted>>

-----------------------------------------------------------------------------
(***************************************************************************)
(* GenerateAsync: the admission decision under the lock, and the inline    *)
(* callback of a rejected call after it.                                   *)
(***************************************************************************)
\* Mutant: admission forgets the job that is active.
RejectionIgnoresBusy ==
  IF runtime_ = None \/ worker_ = None THEN "not_ready"
  ELSE IF stopping_ THEN "shutting_down"
  ELSE None

Rejection ==
  IF runtime_ = None \/ worker_ = None THEN "not_ready"
  ELSE IF stopping_ THEN "shutting_down"
  ELSE IF busy_ THEN "busy"
  ELSE None

NotCalled(r) == r \notin admitted /\ response[r] = None

GenerateAsyncAccepts(r) ==
  /\ NotCalled(r)
  /\ Rejection = None
  /\ busy_' = TRUE
  /\ job_' = r
  /\ NotifyOne
  /\ admitted' = admitted \cup {r}
  /\ UNCHANGED <<runtime_, worker_, stopping_, callerVars, wjob, wruntime,
                 response, calls, aborted>>

GenerateAsyncRejects(r) ==
  /\ NotCalled(r)
  /\ Rejection # None
  /\ response' = [response EXCEPT ![r] = Rejection]
  /\ UNCHANGED <<implVars, callerVars, workerVars, admitted, calls, aborted>>

\* InvokeCallback on the caller's own thread.
RejectionCallback(r) ==
  /\ r \notin admitted
  /\ response[r] # None
  /\ calls[r] = 0
  /\ calls' = [calls EXCEPT ![r] = @ + 1]
  /\ UNCHANGED <<implVars, callerVars, workerVars, admitted, response, aborted>>

-----------------------------------------------------------------------------
(***************************************************************************)
(* Shutdown.  A worker thread is a caller while it runs a callback.        *)
(***************************************************************************)
MayCallShutdown(t) ==
  /\ cpc[t] = "idle" /\ t \in ShutdownCallers
  /\ t \in Instances => wpc[t] = "callback"

\* No joinable worker: the members are reset at once.
ShutdownWithoutWorker(t) ==
  /\ MayCallShutdown(t)
  /\ worker_ = None
  /\ runtime_' = None /\ job_' = None
  /\ stopping_' = FALSE /\ busy_' = FALSE
  /\ UNCHANGED <<worker_, callerVars, workerVars, clientVars, aborted>>

\* Mutant: worker_ is joined where it is instead of being moved away.
WorkerMovedNot == worker_

WorkerMoved == None

ShutdownBegin(t) ==
  /\ MayCallShutdown(t)
  /\ worker_ # None
  /\ stopping_' = TRUE
  /\ NotifyOne
  /\ joining' = [joining EXCEPT ![t] = worker_]
  /\ worker_' = WorkerMoved
  /\ cpc' = [cpc EXCEPT ![t] = "joining"]
  /\ UNCHANGED <<runtime_, job_, busy_, created, made, wjob, wruntime,
                 clientVars, aborted>>

\* Mutant: the worker is detached instead of joined.
JoinedAtOnce(t) == TRUE

\* join returns when the worker has exited; a worker that joins itself gets an
\* exception and detaches itself instead.
Joined(t) == joining[t] = t \/ wpc[joining[t]] = "exited"

ShutdownJoin(t) ==
  /\ cpc[t] = "joining"
  /\ Joined(t)
  /\ joining' = [joining EXCEPT ![t] = None]
  /\ cpc' = [cpc EXCEPT ![t] = "joined"]
  /\ UNCHANGED <<implVars, created, made, workerVars, clientVars, aborted>>

ShutdownFinish(t) ==
  /\ cpc[t] = "joined"
  /\ runtime_' = None /\ job_' = None
  /\ stopping_' = FALSE /\ busy_' = FALSE
  /\ cpc' = [cpc EXCEPT ![t] = "idle"]
  /\ UNCHANGED <<worker_, created, made, joining, workerVars, clientVars, aborted>>

-----------------------------------------------------------------------------
(***************************************************************************)
(* WorkerLoop.                                                             *)
(***************************************************************************)
WorkerSleeps(n) ==
  /\ wpc[n] = "wait"
  /\ ~stopping_ /\ job_ = None
  /\ wpc' = [wpc EXCEPT ![n] = "asleep"]
  /\ UNCHANGED <<implVars, callerVars, wjob, wruntime, clientVars, aborted>>

\* A condition variable may wake its waiters for no reason.
SpuriousWakeup(n) ==
  /\ wpc[n] = "asleep"
  /\ wpc' = [wpc EXCEPT ![n] = "wait"]
  /\ UNCHANGED <<implVars, callerVars, wjob, wruntime, clientVars, aborted>>

\* Mutant: the wait's end is taken to mean that there is a job.
HasJobUnchecked == stopping_ \/ job_ # None

HasJob == job_ # None

WorkerTakesJob(n) ==
  /\ wpc[n] = "wait"
  /\ HasJob
  /\ wjob' = [wjob EXCEPT ![n] = job_]
  /\ job_' = None
  /\ wpc' = [wpc EXCEPT ![n] = "parse"]
  /\ UNCHANGED <<runtime_, worker_, busy_, stopping_, callerVars, wruntime,
                 clientVars, aborted>>

\* Mutant: the worker leaves as soon as it is told to stop.
MayExitEagerly == stopping_

MayExit == stopping_ /\ job_ = None

WorkerExits(n) ==
  /\ wpc[n] = "wait"
  /\ MayExit
  /\ wpc' = [wpc EXCEPT ![n] = "exited"]
  /\ UNCHANGED <<implVars, callerVars, wjob, wruntime, clientVars, aborted>>

\* Mutant: the error path answers the request itself and falls through.
ParseRequestFailsAnswering(n) ==
  /\ wpc[n] = "parse"
  /\ response' = [response EXCEPT ![wjob[n]] = "invalid_request"]
  /\ calls' = [calls EXCEPT ![wjob[n]] = @ + 1]
  /\ wpc' = [wpc EXCEPT ![n] = "finish"]
  /\ UNCHANGED <<implVars, callerVars, wjob, wruntime, admitted, aborted>>

\* Process, when ParseRequest refuses the body.
ParseRequestFails(n) ==
  /\ wpc[n] = "parse"
  /\ response' = [response EXCEPT ![wjob[n]] = "invalid_request"]
  /\ wpc' = [wpc EXCEPT ![n] = "finish"]
  /\ UNCHANGED <<implVars, callerVars, wjob, wruntime, admitted, calls, aborted>>

\* Process reads runtime_ without the lock and calls Generate on it; a null
\* pointer ends the process.
GenerateCalled(n) ==
  /\ wpc[n] = "parse"
  /\ \/ /\ runtime_ # None
        /\ wruntime' = [wruntime EXCEPT ![n] = runtime_]
        /\ wpc' = [wpc EXCEPT ![n] = "generating"]
        /\ UNCHANGED aborted
     \/ /\ runtime_ = None
        /\ aborted' = TRUE
        /\ UNCHANGED <<wpc, wruntime>>
  /\ UNCHANGED <<implVars, callerVars, wjob, clientVars>>

\* Generate returns a status, or throws (answered as an internal error).
GenerateReturns(n) ==
  /\ wpc[n] = "generating"
  /\ \E status \in RuntimeStatuses \cup {"InternalError"} :
       response' = [response EXCEPT ![wjob[n]] = RuntimeResponse(status)]
  /\ wruntime' = [wruntime EXCEPT ![n] = None]
  /\ wpc' = [wpc EXCEPT ![n] = "finish"]
  /\ UNCHANGED <<implVars, callerVars, wjob, admitted, calls, aborted>>

\* Generate runs on a runtime that has been destroyed and faults.
GenerateFaults(n) ==
  /\ wpc[n] = "generating"
  /\ runtime_ # wruntime[n]
  /\ aborted' = TRUE
  /\ UNCHANGED <<implVars, callerVars, workerVars, clientVars>>

\* Mutant: busy_ is not cleared when shutting down.
BusyAfterwardsIfStopping == stopping_

BusyAfterwards == FALSE

\* busy_ is cleared before the callback runs.
WorkerReleases(n) ==
  /\ wpc[n] = "finish"
  /\ busy_' = BusyAfterwards
  /\ wpc' = [wpc EXCEPT ![n] = "callback"]
  /\ UNCHANGED <<runtime_, worker_, job_, stopping_, callerVars, wjob, wruntime,
                 clientVars, aborted>>

\* InvokeCallback on the worker; what the callback throws is swallowed.
WorkerCallback(n) ==
  /\ wpc[n] = "callback"
  /\ cpc[n] = "idle"
  /\ calls' = [calls EXCEPT ![wjob[n]] = @ + 1]
  /\ wpc' = [wpc EXCEPT ![n] = "check"]
  /\ UNCHANGED <<implVars, callerVars, wjob, wruntime, admitted, response, aborted>>

WorkerChecks(n) ==
  /\ wpc[n] = "check"
  /\ wjob' = [wjob EXCEPT ![n] = None]
  /\ wpc' = [wpc EXCEPT ![n] = IF stopping_ /\ job_ = None THEN "exited" ELSE "wait"]
  /\ UNCHANGED <<implVars, callerVars, wruntime, clientVars, aborted>>

-----------------------------------------------------------------------------
InitializeNext(c) ==
  \/ InitializeCheck(c) \/ RuntimeCreated(c) \/ RuntimeNotCreated(c)
  \/ InitializeCommit(c) \/ InitializeThreadFails(c) \/ InitializeRollback(c)

ShutdownNext(t) ==
  \/ ShutdownWithoutWorker(t) \/ ShutdownBegin(t)
  \/ ShutdownJoin(t) \/ ShutdownFinish(t)

GenerateAsyncNext(r) ==
  \/ GenerateAsyncAccepts(r) \/ GenerateAsyncRejects(r) \/ RejectionCallback(r)

\* What the worker thread does by itself, once the scheduler runs it.
WorkerStep(n) ==
  \/ WorkerSleeps(n) \/ WorkerTakesJob(n) \/ WorkerExits(n)
  \/ ParseRequestFails(n) \/ GenerateCalled(n) \/ GenerateReturns(n)
  \/ WorkerReleases(n) \/ WorkerCallback(n) \/ WorkerChecks(n)

Next ==
  /\ ~aborted
  /\ \/ \E c \in Controllers : InitializeNext(c)
     \/ \E t \in Callers : ShutdownNext(t)
     \/ \E r \in Requests : GenerateAsyncNext(r)
     \/ \E n \in Instances : WorkerStep(n) \/ SpuriousWakeup(n) \/ GenerateFaults(n)

Spec == Init /\ [][Next]_vars

(***************************************************************************)
(* Fairness.  A thread that can run does run; the runtime's Generate and   *)
(* the client's callbacks return; a Shutdown that has begun goes on.       *)
(* Nobody has to call Initialize, GenerateAsync or Shutdown.               *)
(***************************************************************************)
Fairness ==
  /\ \A n \in Instances : WF_vars(~aborted /\ WorkerStep(n))
  /\ \A t \in Callers : WF_vars(~aborted /\ (ShutdownJoin(t) \/ ShutdownFinish(t)))
  /\ \A r \in Requests : WF_vars(~aborted /\ RejectionCallback(r))

FairSpec == Spec /\ Fairness

-----------------------------------------------------------------------------
(***************************************************************************)
(* How lite-server uses the facade: one thread initializes it and shuts it *)
(* down, and no callback calls Shutdown.                                   *)
(***************************************************************************)
SingleOwner ==
  /\ \A c, d \in Controllers : c = d
  /\ ShutdownCallers \cap Instances = {}

\* The states in which a worker's local `job` is set, and those in which its
\* callback is still to be invoked.
Holding == {"parse", "generating", "finish", "callback", "check"}
Serving == Holding \ {"check"}

\* A worker thread that has been started and has not returned.
Alive(n) == wpc[n] \notin {"unborn", "exited"}

(***************************************************************************)
(* The members and locals have their types; a worker has a job exactly     *)
(* between taking it from the slot and the end of the loop's body, and a   *)
(* runtime exactly while Generate runs.                                    *)
(***************************************************************************)
FlagsOK == busy_ \in BOOLEAN /\ stopping_ \in BOOLEAN /\ aborted \in BOOLEAN

TypeOK ==
  /\ FlagsOK
  /\ runtime_ \in Instances \cup {None}
  /\ worker_ \in Instances \cup {None}
  /\ job_ \in Requests \cup {None}
  /\ created \subseteq Instances
  /\ cpc \in [Callers -> ControllerStates]
  /\ made \in [Callers -> Instances \cup {None}]
  /\ \A t \in Callers : made[t] # None <=> cpc[t] = "created"
  /\ joining \in [Callers -> Instances \cup {None}]
  /\ \A t \in Callers : joining[t] # None <=> cpc[t] = "joining"
  /\ wpc \in [Instances -> WorkerStates]
  /\ wjob \in [Instances -> Requests \cup {None}]
  /\ \A n \in Instances : wjob[n] # None <=> wpc[n] \in Holding
  /\ wruntime \in [Instances -> Instances \cup {None}]
  /\ \A n \in Instances : wruntime[n] # None <=> wpc[n] = "generating"
  /\ admitted \subseteq Requests
  /\ response \in [Requests -> Responses \cup {None}]
  /\ calls \in [Requests -> Nat]

(***************************************************************************)
(* Safety of the facade under its single owner.                            *)
(***************************************************************************)
\* Shutdown "waits for an active generation to finish": the runtime on which
\* Process called Generate is not reset or replaced while Generate runs,
\* although the worker reads runtime_ without the lock.
RuntimeOutlivesGeneration ==
  \A n \in Instances : wpc[n] = "generating" => runtime_ = wruntime[n]

\* An accepted call whose callback has not been invoked is in the job slot or
\* with a worker that is going to invoke it: neither a Shutdown that drains the
\* slot nor a later call drops it.
AcceptedNotLost ==
  \A r \in admitted :
    calls[r] = 0 =>
      \/ job_ = r
      \/ \E n \in Instances : wjob[n] = r /\ wpc[n] \in Serving

\* busy_ says exactly that a job waits in the slot or is being processed, so a
\* Shutdown, a rejected request or a failed parse never leaves it stuck.
BusyExact ==
  busy_ <=> \/ job_ # None
            \/ \E n \in Instances : wpc[n] \in {"parse", "generating", "finish"}

\* Once Shutdown has returned and until Initialize commits again, no worker
\* runs, and every call ever accepted has been answered.
QuietAfterShutdown ==
  (worker_ = None /\ \A c \in Controllers : cpc[c] = "idle") =>
    /\ \A n \in Instances : ~Alive(n)
    /\ \A r \in admitted : calls[r] > 0

\* The process never ends by std::terminate, a null runtime or a fault.
NoAbort == ~aborted

\* From the moment Shutdown releases the lock for the first time until it
\* returns, no call of GenerateAsync is accepted.
AdmissionStopped ==
  [][(\E t \in Callers : cpc[t] \in {"joining", "joined"}) => admitted' = admitted]_vars

(***************************************************************************)
(* Safety of the facade however it is used.                                *)
(***************************************************************************)
\* No callback is invoked twice, by the worker, inline, or by both.
CallbackAtMostOnce == \A r \in Requests : calls[r] \leq 1

\* GenerateAsync never answers "shutting_down": Shutdown sets stopping_ and
\* empties worker_ in one critical section, so the test of worker_ comes first
\* and a call made during Shutdown is answered "not_ready".
ShuttingDownNeverAnswered == \A r \in Requests : response[r] # "shutting_down"

(***************************************************************************)
(* The inductive invariants behind the safety properties.                  *)
(***************************************************************************)
\* A runtime that has not been committed has no worker, and no two callers of
\* Initialize hold the same one.
FreshInstances ==
  /\ \A n \in Instances \ created : wpc[n] = "unborn"
  /\ \A c \in Callers :
       made[c] # None => made[c] \in created /\ wpc[made[c]] = "unborn"
  /\ \A c, d \in Callers : made[c] # None /\ made[c] = made[d] => c = d

\* However the facade is used, a job has one place: the slot or one worker that
\* is still to invoke its callback.
OnePlacePerJob ==
  /\ \A r \in Requests : NotCalled(r) => calls[r] = 0
  /\ job_ # None => job_ \in admitted /\ calls[job_] = 0
  /\ \A n \in Instances :
       wpc[n] \in Serving =>
         /\ wjob[n] \in admitted /\ calls[wjob[n]] = 0
         /\ wjob[n] # job_
         /\ \A m \in Instances : wpc[m] \in Serving /\ wjob[m] = wjob[n] => m = n

\* A facade that is stopping has given its worker_ away to Shutdown.
StoppingHasNoWorker == stopping_ => worker_ = None

\* Under a single owner: the one live worker is worker_ or the one Shutdown is
\* joining, and it runs on the current runtime; the owner is inside Initialize
\* or Shutdown only while worker_ is empty.
OneLiveWorker ==
  /\ \A n \in Instances : cpc[n] = "idle"
  /\ \A c \in Controllers : cpc[c] # "idle" => worker_ = None
  /\ worker_ # None => Alive(worker_)
  /\ \A n \in Instances :
       Alive(n) => /\ runtime_ = n
                   /\ worker_ = n \/ \E c \in Controllers : joining[c] = n

\* Under a single owner: a job in the slot has a worker that can take it, and
\* the slot is empty while a worker processes a job.
SlotServed ==
  job_ # None =>
    /\ \E n \in Instances : Alive(n)
    /\ \A n \in Instances : wpc[n] \notin {"parse", "generating", "finish"}

(***************************************************************************)
(* Liveness of the facade under its single owner.                          *)
(***************************************************************************)
\* Every Shutdown returns: the worker is woken, drains the slot and exits.
ShutdownReturns ==
  \A t \in Callers : cpc[t] = "joining" ~> cpc[t] = "idle"

(***************************************************************************)
(* The facade implements the service its header promises.                  *)
(***************************************************************************)
CallPhase(r) ==
  IF NotCalled(r) THEN "new"
  ELSE IF calls[r] > 0 THEN "done"
  ELSE IF r \notin admitted THEN "rejected"
  ELSE IF \E n \in Instances : wjob[n] = r /\ wpc[n] = "callback" THEN "completing"
  ELSE "active"

Service == INSTANCE GenerationService
             WITH phase <- [r \in Requests |-> CallPhase(r)]

\* Every behaviour of the facade is one of the service: one generation active
\* at a time, each call answered exactly once, and answered eventually.
ImplementsService == Service!FairSpec

=============================================================================
