----------------------------- MODULE JobManager -----------------------------
(***************************************************************************)
(* The in-process asynchronous job manager, InMemoryRenderJobManager: a    *)
(* table of job records, an index from request ids to job ids, a FIFO      *)
(* queue guarded by one lock and its condition variable, and a fixed pool  *)
(* of daemon worker threads.  One action is one `with self._lock` section, *)
(* or one step of a worker between two of them.                            *)
(*                                                                         *)
(* The callers (create, submit, cancel) are left open here: any thread may *)
(* call at any time.  RenderService says which calls the service makes.    *)
(***************************************************************************)
EXTENDS Integers, Sequences, FiniteSets

CONSTANTS
    Jobs,        \* the job ids uuid4 may draw
    Requests,    \* the non-empty request_id strings clients use
    Workers,     \* the worker threads, settings.job_max_running of them
    NoJob,       \* a lookup that finds nothing; a worker between two jobs
    NoRequest    \* a command without request_id

ASSUME WorkersAssumption == IsFiniteSet(Workers)
ASSUME JobsAssumption == NoJob \notin Jobs
ASSUME RequestsAssumption == NoRequest \notin Requests

VARIABLES
    status,        \* status[j]: the status of j's record, "absent" if none
    requestOf,     \* requestOf[j]: the request_id of j's record
    requestIndex,  \* _request_index
    queue,         \* _queue (the closure queued with a job id is its render)
    cancelled,     \* _cancelled
    running,       \* _running_jobs
    inSubmit,      \* jobs created whose submit call is still to come
    pc,            \* pc[w]: where worker w is in _worker_loop
    job            \* job[w]: w's local job_id

jobVars == <<status, requestOf, requestIndex, queue, cancelled, running,
             inSubmit, pc, job>>

Terminal == {"completed", "failed", "cancelled"}
Statuses == {"absent", "pending", "running"} \cup Terminal

(* Worker positions: "idle" is about to take the lock at the top of the    *)
(* loop (fresh, back from a job, or woken); "waiting" is inside            *)
(* condition.wait(); "check" holds a popped job and has not looked at      *)
(* _cancelled; "render" is inside work(); "raised" and "returned" are just *)
(* after it; "fail" and "complete" are before the update() call;           *)
(* "finally" is before the finally block.                                  *)
Rendering == {"render", "raised", "fail", "returned", "complete"}
Holding   == {"check", "finally"} \cup Rendering
Positions == {"idle", "waiting"} \cup Holding

Waiting == {w \in Workers : pc[w] = "waiting"}
Idle    == {w \in Workers : pc[w] = "idle"}
Busy    == {w \in Workers : pc[w] \in Holding}

JobInit ==
    /\ status = [j \in Jobs |-> "absent"]
    /\ requestOf = [j \in Jobs |-> NoRequest]
    /\ requestIndex = [r \in Requests |-> NoJob]
    /\ queue = <<>>
    /\ cancelled = {}
    /\ running = 0
    /\ inSubmit = {}
    /\ pc = [w \in Workers |-> "idle"]
    /\ job = [w \in Workers |-> NoJob]

-----------------------------------------------------------------------------
(* Calls from outside the pool.                                            *)

\* create(command): a pending record under a fresh id; the index follows
\* the newest job of a request id.
Create(j, r) ==
    /\ status[j] = "absent"
    /\ status' = [status EXCEPT ![j] = "pending"]
    /\ requestOf' = [requestOf EXCEPT ![j] = r]
    /\ requestIndex' = [q \in Requests |-> IF q = r THEN j ELSE requestIndex[q]]
    /\ inSubmit' = inSubmit \cup {j}
    /\ UNCHANGED <<queue, cancelled, running, pc, job>>

\* Mutant of NotifyOne: submit forgets to notify.
NotifyNone == UNCHANGED pc

\* condition.notify(): one sleeping worker, if there is one, is woken.
NotifyOne ==
    \/ /\ Waiting = {}
       /\ UNCHANGED pc
    \/ \E w \in Waiting : pc' = [pc EXCEPT ![w] = "idle"]

\* Mutant of Submit: the caller's submit may be retried after it succeeded.
SubmitRetried(j) ==
    /\ j \in inSubmit
    /\ queue' = Append(queue, j)
    /\ NotifyOne
    /\ UNCHANGED <<status, requestOf, requestIndex, cancelled, running, inSubmit, job>>

\* Mutant of Submit: notify only when the queue was empty.
SubmitNotifyIfEmpty(j) ==
    /\ j \in inSubmit
    /\ inSubmit' = inSubmit \ {j}
    /\ queue' = Append(queue, j)
    /\ IF queue = <<>> THEN NotifyOne ELSE UNCHANGED pc
    /\ UNCHANGED <<status, requestOf, requestIndex, cancelled, running, job>>

\* submit(job_id, work): called once for each created job.
Submit(j) ==
    /\ j \in inSubmit
    /\ inSubmit' = inSubmit \ {j}
    /\ queue' = Append(queue, j)
    /\ NotifyOne
    /\ UNCHANGED <<status, requestOf, requestIndex, cancelled, running, job>>

\* Mutant of Cancel: a running job is cancelled, too.
CancelUnlessTerminal(j) ==
    /\ status[j] \in {"pending", "running"}
    /\ cancelled' = cancelled \cup {j}
    /\ status' = [status EXCEPT ![j] = "cancelled"]
    /\ UNCHANGED <<requestOf, requestIndex, queue, running, inSubmit, pc, job>>

\* cancel(job_id), in the only cancel mode the settings accept: the call
\* that returns True.  The queue keeps its entry for the job.  In every
\* other status cancel returns False and changes nothing.
Cancel(j) ==
    /\ status[j] = "pending"
    /\ cancelled' = cancelled \cup {j}
    /\ status' = [status EXCEPT ![j] = "cancelled"]
    /\ UNCHANGED <<requestOf, requestIndex, queue, running, inSubmit, pc, job>>

-----------------------------------------------------------------------------
(* The worker loop.                                                        *)

GoTo(w, position) == pc' = [pc EXCEPT ![w] = position]

WorkerWait(w) ==
    /\ pc[w] = "idle"
    /\ queue = <<>>
    /\ GoTo(w, "waiting")
    /\ UNCHANGED <<status, requestOf, requestIndex, queue, cancelled, running,
                   inSubmit, job>>

WorkerPop(w) ==
    /\ pc[w] = "idle"
    /\ queue # <<>>
    /\ job' = [job EXCEPT ![w] = Head(queue)]
    /\ queue' = Tail(queue)
    /\ running' = running + 1
    /\ status' = [status EXCEPT ![Head(queue)] =
                    IF @ \in {"absent", "cancelled"} THEN @ ELSE "running"]
    /\ GoTo(w, "check")
    /\ UNCHANGED <<requestOf, requestIndex, cancelled, inSubmit>>

\* Mutant of WorkerCheck: no look at _cancelled.
CheckNothing(w) ==
    /\ pc[w] = "check"
    /\ GoTo(w, "render")
    /\ UNCHANGED <<status, requestOf, requestIndex, queue, cancelled, running,
                   inSubmit, job>>

\* Mutant of WorkerCheck: the mark stays in _cancelled.
CheckKeepsMark(w) ==
    /\ pc[w] = "check"
    /\ GoTo(w, IF job[w] \in cancelled \/ status[job[w]] = "absent"
               THEN "finally" ELSE "render")
    /\ UNCHANGED <<status, requestOf, requestIndex, queue, cancelled, running,
                   inSubmit, job>>

\* Mutant of WorkerCheck: the early continue is outside the try statement.
CheckSkipsFinally(w) ==
    /\ pc[w] = "check"
    /\ cancelled' = cancelled \ {job[w]}
    /\ GoTo(w, IF job[w] \in cancelled \/ status[job[w]] = "absent"
               THEN "idle" ELSE "render")
    /\ UNCHANGED <<status, requestOf, requestIndex, queue, running, inSubmit, job>>

\* The look at _cancelled before the render.
WorkerCheck(w) ==
    /\ pc[w] = "check"
    /\ cancelled' = cancelled \ {job[w]}
    /\ GoTo(w, IF job[w] \in cancelled \/ status[job[w]] = "absent"
               THEN "finally" ELSE "render")
    /\ UNCHANGED <<status, requestOf, requestIndex, queue, running, inSubmit, job>>

\* work() returns a result or raises an Exception.
RenderEnds(w) ==
    /\ pc[w] = "render"
    /\ \E end \in {"returned", "raised"} : GoTo(w, end)
    /\ UNCHANGED <<status, requestOf, requestIndex, queue, cancelled, running,
                   inSubmit, job>>

\* The look at _cancelled after the render; the update is a later section.
AfterRender(w, position, next) ==
    /\ pc[w] = position
    /\ IF job[w] \in cancelled
       THEN /\ cancelled' = cancelled \ {job[w]}
            /\ status' = [status EXCEPT ![job[w]] = "cancelled"]
            /\ GoTo(w, "finally")
       ELSE /\ GoTo(w, next)
            /\ UNCHANGED <<cancelled, status>>
    /\ UNCHANGED <<requestOf, requestIndex, queue, running, inSubmit, job>>

\* Mutant of RenderRaised: the error is logged and not recorded.
RaisedNotRecorded(w) == AfterRender(w, "raised", "finally")

RenderReturned(w) == AfterRender(w, "returned", "complete")
RenderRaised(w)   == AfterRender(w, "raised", "fail")

\* update(job_id, status=...): overwrites the record's status, whatever it is.
Update(w, position, outcome) ==
    /\ pc[w] = position
    /\ status' = [status EXCEPT ![job[w]] = outcome]
    /\ GoTo(w, "finally")
    /\ UNCHANGED <<requestOf, requestIndex, queue, cancelled, running, inSubmit, job>>

\* Mutant of UpdateCompleted: a status outside the API's vocabulary.
UpdateDone(w) == Update(w, "complete", "done")

UpdateCompleted(w) == Update(w, "complete", "completed")
UpdateFailed(w)    == Update(w, "fail", "failed")

\* finally: the slot is given back and the record's snapshot refreshed.
WorkerFinally(w) ==
    /\ pc[w] = "finally"
    /\ running' = IF running > 0 THEN running - 1 ELSE 0
    /\ GoTo(w, "idle")
    /\ job' = [job EXCEPT ![w] = NoJob]
    /\ UNCHANGED <<status, requestOf, requestIndex, queue, cancelled, inSubmit>>

\* Everything a worker does by itself; RenderEnds is up to the render.
WorkerLocal(w) ==
    \/ WorkerWait(w)
    \/ WorkerPop(w)
    \/ WorkerCheck(w)
    \/ RenderReturned(w)
    \/ RenderRaised(w)
    \/ UpdateCompleted(w)
    \/ UpdateFailed(w)
    \/ WorkerFinally(w)

WorkerStep(w) == WorkerLocal(w) \/ RenderEnds(w)

-----------------------------------------------------------------------------
CallerStep ==
    \/ \E j \in Jobs, r \in Requests \cup {NoRequest} : Create(j, r)
    \/ \E j \in Jobs : Submit(j)
    \/ \E j \in Jobs : Cancel(j)

JobNext == CallerStep \/ \E w \in Workers : WorkerStep(w)

JobSpec == JobInit /\ [][JobNext]_jobVars

-----------------------------------------------------------------------------
(* Properties.                                                             *)

JobTypeOK ==
    /\ status \in [Jobs -> Statuses]
    /\ requestOf \in [Jobs -> Requests \cup {NoRequest}]
    /\ requestIndex \in [Requests -> Jobs \cup {NoJob}]
    /\ queue \in Seq(Jobs)
    /\ cancelled \in SUBSET Jobs
    /\ running \in Nat
    /\ inSubmit \in SUBSET Jobs
    /\ pc \in [Workers -> Positions]
    /\ job \in [Workers -> Jobs \cup {NoJob}]

In(x, s) == \E i \in 1..Len(s) : s[i] = x
Distinct(s) == \A i, k \in 1..Len(s) : s[i] = s[k] => i = k

Queued(j) == In(j, queue)
Held(j, positions) == \E w \in Workers : job[w] = j /\ pc[w] \in positions

\* A job is in one place only: its submit call, one queue slot, or one
\* worker.  Two workers never render the same job.
OneHolder ==
    /\ Distinct(queue)
    /\ \A v, w \in Workers :
         v # w /\ pc[v] \in Holding /\ pc[w] \in Holding => job[v] # job[w]
    /\ \A w \in Workers : pc[w] \in Holding =>
         /\ ~Queued(job[w])
         /\ job[w] \notin inSubmit
    /\ \A j \in inSubmit : ~Queued(j)

\* No accepted job is lost: a pending job is on its way to the queue or in
\* it, a running job is in the hands of a worker that has yet to record its
\* end.
NoJobLost ==
    \A j \in Jobs :
        /\ status[j] = "pending" => j \in inSubmit \/ Queued(j)
        /\ status[j] = "running" => Held(j, Holding \ {"finally"})

\* A worker inside work() renders a job whose record says running: a job
\* whose cancel call returned True is never rendered.
CancelledNeverRendered ==
    \A w \in Workers : pc[w] \in Rendering => status[job[w]] = "running"

\* _cancelled does not leak: every id in it belongs to a cancelled job that
\* a worker has still to pop or to check.
CancelMarksConsumed ==
    \A j \in cancelled :
        /\ status[j] = "cancelled"
        /\ j \in inSubmit \/ Queued(j) \/ Held(j, {"check"})

\* _running_jobs, which admission and /health read, counts the workers
\* between a pop and the end of its finally block: no path skips the
\* decrement or does it twice.
RunningCounted == running = Cardinality(Busy)

\* At most job_max_running jobs say they are running, however popped,
\* cancelled and finished jobs overlap.
RunningBounded ==
    Cardinality({j \in Jobs : status[j] = "running"}) <= Cardinality(Workers)

\* No lost wake-up: while a worker sleeps, every queued job has an awake
\* idle worker about to pop it.
NoLostWakeup == Waiting # {} => Len(queue) <= Cardinality(Idle)

\* A terminal status is final, and a status only moves along
\* pending -> running -> completed or failed, or pending -> cancelled.
LegalChange(old, new) ==
    \/ new = old
    \/ old = "absent" /\ new = "pending"
    \/ old = "pending" /\ new \in {"running", "cancelled"}
    \/ old = "running" /\ new \in {"completed", "failed"}

StatusMovesForward ==
    [][\A j \in Jobs : LegalChange(status[j], status'[j])]_jobVars

\* No cancel mark stays: a worker comes to every cancelled entry of the
\* queue, however many jobs are in front of it.
CancelMarksGo == \A j \in Jobs : j \in cancelled ~> j \notin cancelled
=============================================================================
