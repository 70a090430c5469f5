---------------------------- MODULE RenderService ----------------------------
(***************************************************************************)
(* The HTTP service around the job manager: the route handlers, the use    *)
(* cases behind them and the admission controller, composed with the job   *)
(* manager and its worker threads.                                         *)
(*                                                                         *)
(* Every route is an `async def` that calls the service synchronously, and *)
(* the service is one uvicorn process: its one event loop runs a handler   *)
(* from its first line to its answer before it looks at the next call.     *)
(* What interleaves is the handler on the loop and the workers, at every   *)
(* lock section.                                                           *)
(***************************************************************************)
EXTENDS JobManager

CONSTANTS
    Clients,      \* concurrent HTTP calls, one outstanding call each
    MaxPending,   \* settings.job_max_pending
    NoClient      \* the event loop between two handlers

ASSUME MaxPendingAssumption == MaxPending \in Nat \ {0}
ASSUME ClientsAssumption == NoClient \notin Clients
\* A job id is the hex form of a uuid4 and no status word.
ASSUME JobIdsAssumption == Jobs \cap Statuses = {}

VARIABLES
    at,          \* at[c]: where client c's call is
    call,        \* call[c]: the call itself
    target,      \* target[c]: the handler's local job
    answer,      \* answer[c]: what the call was last answered
    loop,        \* the client whose handler the event loop is running
    syncRunning, \* _sync_running of the admission controller
    settings     \* async_enabled, and job_accepting_enabled as the manager keeps it

handlerVars == <<at, call, target, answer, loop, syncRunning, settings>>
vars == <<jobVars, handlerVars>>

MaxRunning == Cardinality(Workers)

(* The calls: submit with a request_id or without, cancel of any id, a     *)
(* synchronous render, and the read-only ones (/health, GET of a job,      *)
(* capabilities), which only take their turn on the loop.                  *)
Calls == [kind : {"submit"}, request : Requests \cup {NoRequest}]
    \cup [kind : {"cancel"}, id : Jobs]
    \cup [kind : {"render"}]
    \cup [kind : {"read"}]

\* What a call is answered: a job id (202), a status, or an outcome.
Answers == Jobs \cup Statuses
             \cup {"none", "async_disabled", "not_accepting", "queue_full",
                   "rendered", "overloaded", "unknown"}

\* Positions of a call: at the client ("idle"), in the loop's ready queue
\* ("sent"), or at a lock section of its handler.
SubmitSections == {"lookup", "admit", "create", "enqueue"}
CancelSections == {"find", "cancel", "reread"}
RenderSections == {"sync_admit", "sync_enter", "sync_render", "sync_exit"}
Sections == SubmitSections \cup CancelSections \cup RenderSections

NoCall == [kind |-> "read"]

\* What the deployment decides once: nothing calls set_accepting.
Settings == [async : BOOLEAN, accepting : BOOLEAN]

FirstSection(k) ==
    CASE k.kind = "submit" -> IF k.request = NoRequest THEN "admit" ELSE "lookup"
      [] k.kind = "cancel" -> "find"
      [] k.kind = "render" -> "sync_admit"

ServiceInit ==
    /\ JobInit
    /\ at = [c \in Clients |-> "idle"]
    /\ call = [c \in Clients |-> NoCall]
    /\ target = [c \in Clients |-> NoJob]
    /\ answer = [c \in Clients |-> "none"]
    /\ loop = NoClient
    /\ syncRunning = 0
    /\ settings \in Settings

-----------------------------------------------------------------------------
(* Clients and the event loop.                                             *)

\* Bound: a submit is only sent while a job id is left for it.
IdsLeft ==
    Cardinality({j \in Jobs : status[j] = "absent"})
        > Cardinality({c \in Clients : /\ call[c].kind = "submit"
                                       /\ at[c] \in {"sent", "lookup", "admit", "create"}})

Send(c, k) ==
    /\ at[c] = "idle"
    /\ k.kind = "submit" => IdsLeft
    /\ at' = [at EXCEPT ![c] = "sent"]
    /\ call' = [call EXCEPT ![c] = k]
    /\ answer' = [answer EXCEPT ![c] = "none"]
    /\ UNCHANGED <<jobVars, target, loop, syncRunning, settings>>

\* Mutant of LoopFree: routes as plain `def`, which run on a thread pool.
ThreadPool == TRUE

\* The event loop takes up a call when it runs no other handler.
LoopFree == loop = NoClient

Dispatch(c) ==
    /\ at[c] = "sent"
    /\ call[c].kind # "read"
    /\ LoopFree
    /\ loop' = c
    /\ at' = [at EXCEPT ![c] = FirstSection(call[c])]
    /\ UNCHANGED <<jobVars, call, target, answer, syncRunning, settings>>

\* The read-only handlers: one look under one lock, then the answer.
Read(c) ==
    /\ at[c] = "sent"
    /\ call[c].kind = "read"
    /\ LoopFree
    /\ at' = [at EXCEPT ![c] = "idle"]
    /\ UNCHANGED <<jobVars, call, target, answer, loop, syncRunning, settings>>

\* The handler returns: its locals go and the loop is free again.
Reply(c, a) ==
    /\ at' = [at EXCEPT ![c] = "idle"]
    /\ answer' = [answer EXCEPT ![c] = a]
    /\ call' = [call EXCEPT ![c] = NoCall]
    /\ target' = [target EXCEPT ![c] = NoJob]
    /\ loop' = NoClient
    /\ UNCHANGED settings

\* The handler goes on to its next section.
Go(c, section) ==
    /\ at' = [at EXCEPT ![c] = section]
    /\ UNCHANGED <<call, target, answer, loop, settings>>

-----------------------------------------------------------------------------
(* POST /v1/render/jobs: SubmitRenderJobUseCase.execute.                   *)

\* Mutant of Reusable: a completed job does not answer for its request.
ReusableUnfinished == {"pending", "running"}

\* The statuses in which an earlier job answers for a repeated request_id.
Reusable == {"pending", "running", "completed"}

\* Mutant of SubmitLookup: a dead job of the request is revived.
LookupRevives(c) ==
    /\ at[c] = "lookup"
    /\ LET existing == requestIndex[call[c].request]
       IN  IF existing # NoJob
           THEN /\ Reply(c, existing)
                /\ status' = [status EXCEPT ![existing] =
                                IF @ \in Reusable THEN @ ELSE "pending"]
           ELSE Go(c, "admit") /\ UNCHANGED status
    /\ UNCHANGED <<requestOf, requestIndex, queue, cancelled, running, inSubmit,
                   pc, job, syncRunning>>

SubmitLookup(c) ==
    /\ at[c] = "lookup"
    /\ LET existing == requestIndex[call[c].request]
       IN  IF existing # NoJob /\ status[existing] \in Reusable
           THEN Reply(c, existing)
           ELSE Go(c, "admit")
    /\ UNCHANGED <<jobVars, syncRunning>>

\* Mutant of QueueFull: one too many.
QueueOverFull == Len(queue) > MaxPending

\* pending_jobs is len(_queue).
QueueFull == Len(queue) >= MaxPending

\* ensure_async_submit_allowed.
SubmitAdmit(c) ==
    /\ at[c] = "admit"
    /\ CASE ~settings.async -> Reply(c, "async_disabled")
         [] settings.async /\ ~settings.accepting -> Reply(c, "not_accepting")
         [] settings.async /\ settings.accepting ->
              IF QueueFull THEN Reply(c, "queue_full") ELSE Go(c, "create")
    /\ UNCHANGED <<jobVars, syncRunning>>

SubmitCreate(c) ==
    /\ at[c] = "create"
    /\ \E j \in Jobs :
        /\ Create(j, call[c].request)
        /\ target' = [target EXCEPT ![c] = j]
    /\ at' = [at EXCEPT ![c] = "enqueue"]
    /\ UNCHANGED <<call, answer, loop, syncRunning, settings>>

SubmitEnqueue(c) ==
    /\ at[c] = "enqueue"
    /\ Submit(target[c])
    /\ Reply(c, target[c])
    /\ UNCHANGED syncRunning

-----------------------------------------------------------------------------
(* DELETE /v1/render/jobs/{job_id}: CancelRenderJobUseCase.execute.        *)

\* Mutant of CancelFind: an unknown job is waited for.
FindSpins(c) ==
    /\ at[c] = "find"
    /\ Go(c, IF status[call[c].id] = "absent" THEN "find" ELSE "cancel")
    /\ UNCHANGED <<jobVars, syncRunning>>

CancelFind(c) ==
    /\ at[c] = "find"
    /\ IF status[call[c].id] = "absent" THEN Reply(c, "unknown") ELSE Go(c, "cancel")
    /\ UNCHANGED <<jobVars, syncRunning>>

\* Mutant of CancelApply: the record read before the cancel is the answer.
ApplyAnswersOld(c) ==
    /\ at[c] = "cancel"
    /\ \/ Cancel(call[c].id)
       \/ status[call[c].id] # "pending" /\ UNCHANGED jobVars
    /\ Reply(c, status[call[c].id])
    /\ UNCHANGED syncRunning

CancelApply(c) ==
    /\ at[c] = "cancel"
    /\ \/ Cancel(call[c].id)
       \/ status[call[c].id] # "pending" /\ UNCHANGED jobVars
    /\ Go(c, "reread")
    /\ UNCHANGED syncRunning

\* The answer is the record as it is now.
CancelReread(c) ==
    /\ at[c] = "reread"
    /\ Reply(c, status[call[c].id])
    /\ UNCHANGED <<jobVars, syncRunning>>

-----------------------------------------------------------------------------
(* POST /v1/render: RenderService.render, on the event loop itself.        *)

AtCapacity == running + syncRunning >= MaxRunning

\* ensure_sync_submit_allowed.
SyncAdmit(c) ==
    /\ at[c] = "sync_admit"
    /\ CASE ~settings.accepting -> Reply(c, "not_accepting")
         [] settings.accepting ->
              IF AtCapacity THEN Reply(c, "overloaded") ELSE Go(c, "sync_enter")
    /\ UNCHANGED <<jobVars, syncRunning>>

\* track_sync_execution, entered.
SyncEnter(c) ==
    /\ at[c] = "sync_enter"
    /\ syncRunning' = syncRunning + 1
    /\ Go(c, "sync_render")
    /\ UNCHANGED jobVars

\* Mutant of SyncRenderEnds: an exception skips the exit of the tracker.
RenderEndsUntracked(c) ==
    /\ at[c] = "sync_render"
    /\ \/ Go(c, "sync_exit")
       \/ Reply(c, "rendered")
    /\ UNCHANGED <<jobVars, syncRunning>>

\* The pipeline returns or raises; either way the call gets its outcome.
SyncRenderEnds(c) ==
    /\ at[c] = "sync_render"
    /\ Go(c, "sync_exit")
    /\ UNCHANGED <<jobVars, syncRunning>>

\* track_sync_execution, left on either path.
SyncExit(c) ==
    /\ at[c] = "sync_exit"
    /\ syncRunning' = IF syncRunning > 0 THEN syncRunning - 1 ELSE 0
    /\ Reply(c, "rendered")
    /\ UNCHANGED jobVars

-----------------------------------------------------------------------------
SubmitStep(c) == SubmitLookup(c) \/ SubmitAdmit(c) \/ SubmitCreate(c) \/ SubmitEnqueue(c)
CancelStep(c) == CancelFind(c) \/ CancelApply(c) \/ CancelReread(c)
SyncStep(c)   == SyncAdmit(c) \/ SyncEnter(c) \/ SyncExit(c)

HandlerStep(c) == SubmitStep(c) \/ CancelStep(c) \/ SyncStep(c)
TakeUp(c) == Dispatch(c) \/ Read(c)

ServiceNext ==
    \/ \E c \in Clients :
        \/ \E k \in Calls : Send(c, k)
        \/ TakeUp(c)
        \/ HandlerStep(c)
        \/ SyncRenderEnds(c)
    \/ \E w \in Workers : WorkerStep(w) /\ UNCHANGED handlerVars

ServiceSpec == ServiceInit /\ [][ServiceNext]_vars

(* Worker threads and the loop thread are scheduled fairly; the loop's     *)
(* ready queue is FIFO, so a call that waits is taken up however often     *)
(* others arrive (SF).  Nothing makes a client send.                       *)
ThreadFairness ==
    /\ \A w \in Workers : WF_vars(WorkerStep(w) /\ UNCHANGED handlerVars)
    /\ \A c \in Clients : WF_vars(HandlerStep(c)) /\ SF_vars(TakeUp(c))

\* With every render of the loop thread ending, too.
ServiceFairSpec ==
    ServiceSpec /\ ThreadFairness /\ \A c \in Clients : WF_vars(SyncRenderEnds(c))

\* Without: a synchronous render may take as long as it likes.
SlowSyncSpec == ServiceSpec /\ ThreadFairness

-----------------------------------------------------------------------------
(* Properties.                                                             *)

\* The domains of the variables.
ServiceTypeOK ==
    /\ JobTypeOK
    /\ at \in [Clients -> Sections \cup {"idle", "sent"}]
    /\ call \in [Clients -> Calls]
    /\ target \in [Clients -> Jobs \cup {NoJob}]
    /\ answer \in [Clients -> Answers]
    /\ loop \in Clients \cup {NoClient}
    /\ syncRunning \in Nat
    /\ settings \in Settings

LiveStatuses == {"pending", "running", "completed"}

\* The idempotency of request_id: no two jobs of one request are pending,
\* running or completed at a time, so a request renders at most once with
\* success however its submits, cancels and retries interleave with workers.
OneLiveJobPerRequest ==
    \A i, j \in Jobs :
        /\ requestOf[i] = requestOf[j]
        /\ requestOf[i] # NoRequest
        /\ status[i] \in LiveStatuses
        /\ status[j] \in LiveStatuses
        => i = j

\* The queue never outgrows job_max_pending: nothing enters between the
\* admission check and the append.
QueueBounded == Len(queue) <= MaxPending

\* A cancel call on a job never answers pending: a DELETE either cancels or
\* lost the race to a worker.
CancelNeverAnswersPending ==
    \A c \in Clients : answer[c] # "pending" /\ answer[c] # "absent"

\* The admission controller counts the renders of the loop exactly, and
\* there is never more than one: the pool and the loop together run at most
\* MaxRunning + 1 renders.
SyncCounted ==
    /\ syncRunning = Cardinality({c \in Clients : at[c] \in {"sync_render", "sync_exit"}})
    /\ running + syncRunning <= MaxRunning + 1

\* The service implements the abstract life cycle of jobs.
Lifecycle == INSTANCE JobLifecycle WITH
    Jobs <- Jobs, Requests <- Requests, NoRequest <- NoRequest,
    status <- status, requestOf <- requestOf
ImplementsLifecycle == Lifecycle!LifecycleSpec

\* Every call is answered, even while the pool is saturated.
EveryCallAnswered == \A c \in Clients : at[c] = "sent" ~> at[c] = "idle"

\* A job id given to a client with a 202 is the id of a job that ends.
AcceptedJobEnds ==
    \A c \in Clients, j \in Jobs : answer[c] = j ~> status[j] \in Terminal

-----------------------------------------------------------------------------
(* What the documents say, where the code does otherwise.                  *)

\* docs/architecture.md:322: a sync submission can return an overload error
\* instead of silently blocking.  So a POST /v1/render is answered even if
\* the render before it goes on forever.
SyncNeverBlocks ==
    \A c \in Clients :
        (at[c] = "sent" /\ call[c].kind = "render")
            ~> (at[c] = "idle" \/ at[c] = "sync_render")
=============================================================================
