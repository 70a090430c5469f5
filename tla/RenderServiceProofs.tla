------------------------- MODULE RenderServiceProofs -------------------------
(***************************************************************************)
(* Theorems about RenderService, for any set of jobs, requests, workers    *)
(* and clients and any bound of the queue.  The service uses the job       *)
(* manager as JobManager expects, so everything proved there of JobSpec    *)
(* holds of ServiceSpec; the invariant below adds what the handlers know.  *)
(***************************************************************************)
EXTENDS RenderService, JobManagerProofs

\* The loop runs one handler at a time: a call is at a section of its
\* handler exactly if the loop is running it.
OneHandler == \A c \in Clients : at[c] \in Sections <=> loop = c

\* A handler is the handler of its call, and only a call with a request_id
\* is looked up.
HandlerOfCall ==
    \A c \in Clients :
        /\ at[c] \in SubmitSections => call[c].kind = "submit"
        /\ at[c] \in CancelSections => call[c].kind = "cancel"
        /\ at[c] = "lookup" => call[c].request # NoRequest

\* The index knows the live job of a request, whichever job it is.
LiveJobIndexed ==
    \A j \in Jobs :
        requestOf[j] # NoRequest /\ status[j] \in LiveStatuses
            => requestIndex[requestOf[j]] = j

\* What a submit found when it looked its request up still holds when it
\* creates the job: the request has no live job.
LookupStillTrue ==
    \A c \in Clients : at[c] \in {"admit", "create"} /\ call[c].request # NoRequest =>
        \A j \in Jobs : requestOf[j] = call[c].request => status[j] \notin LiveStatuses

\* What admission found still holds when the job is queued: there is room.
AdmissionStillTrue ==
    \A c \in Clients : at[c] \in {"create", "enqueue"} => Len(queue) < MaxPending

\* The job a cancel call found stays, and once the cancel was applied it is
\* pending no more.
CancelStillTrue ==
    \A c \in Clients :
        /\ at[c] = "cancel" => status[call[c].id] # "absent"
        /\ at[c] = "reread" => status[call[c].id] \notin {"absent", "pending"}

\* The admission controller counts the one handler inside the tracker.
SyncTracked ==
    syncRunning = IF \E c \in Clients : at[c] \in {"sync_render", "sync_exit"} THEN 1 ELSE 0

\* The inductive invariant.
ServiceInv ==
    /\ JobInv
    /\ ServiceTypeOK
    /\ OneHandler
    /\ HandlerOfCall
    /\ LiveJobIndexed
    /\ LookupStillTrue
    /\ AdmissionStillTrue
    /\ QueueBounded
    /\ CancelStillTrue
    /\ CancelNeverAnswersPending
    /\ SyncTracked

-----------------------------------------------------------------------------
(* The service and the job manager.                                        *)

\* Every step of the service is one of the job manager or leaves it alone.
LEMMA StepsOfJobManager == ServiceInv /\ [ServiceNext]_vars => [JobNext]_jobVars
<1> SUFFICES ASSUME ServiceInv, ServiceNext PROVE [JobNext]_jobVars
  BY DEF vars
<1>1. ASSUME NEW c \in Clients, SubmitCreate(c) PROVE JobNext
  <2>1. call[c] \in Calls /\ call[c].kind = "submit"
    BY <1>1 DEF ServiceInv, ServiceTypeOK, HandlerOfCall, SubmitCreate, SubmitSections
  <2>2. call[c].request \in Requests \cup {NoRequest}
    BY <2>1 DEF Calls
  <2> QED
    BY <1>1, <2>2 DEF SubmitCreate, JobNext, CallerStep
<1>2. ASSUME NEW c \in Clients, SubmitEnqueue(c) PROVE JobNext
  <2>1. target[c] \in Jobs
    BY <1>2 DEF SubmitEnqueue, Submit, ServiceInv, JobInv, JobTypeOK
  <2> QED
    BY <1>2, <2>1 DEF SubmitEnqueue, JobNext, CallerStep
<1>3. ASSUME NEW c \in Clients, CancelApply(c) PROVE JobNext \/ UNCHANGED jobVars
  <2>1. call[c] \in Calls /\ call[c].kind = "cancel"
    BY <1>3 DEF ServiceInv, ServiceTypeOK, HandlerOfCall, CancelApply, CancelSections
  <2>2. call[c].id \in Jobs
    BY <2>1 DEF Calls
  <2> QED
    BY <1>3, <2>2 DEF CancelApply, JobNext, CallerStep
<1>4. ASSUME NEW c \in Clients,
             \/ \E k \in Calls : Send(c, k)
             \/ TakeUp(c) \/ SubmitLookup(c) \/ SubmitAdmit(c)
             \/ CancelFind(c) \/ CancelReread(c) \/ SyncStep(c) \/ SyncRenderEnds(c)
      PROVE  UNCHANGED jobVars
  BY <1>4 DEF Send, TakeUp, Dispatch, Read, SubmitLookup, SubmitAdmit, CancelFind,
              CancelReread, SyncStep, SyncAdmit, SyncEnter, SyncExit, SyncRenderEnds
<1>5. ASSUME NEW w \in Workers, WorkerStep(w) PROVE JobNext
  BY <1>5 DEF JobNext
<1> QED
  BY <1>1, <1>2, <1>3, <1>4, <1>5 DEF ServiceNext, HandlerStep, SubmitStep, CancelStep

\* What a worker can do to the records: start a pending job or end a running
\* one.  The queue never grows under it.
LEMMA WorkerMoves ==
    ASSUME JobInv, NEW w \in Workers, WorkerStep(w)
    PROVE  /\ UNCHANGED <<requestOf, requestIndex, inSubmit>>
           /\ Len(queue') <= Len(queue)
           /\ \A j \in Jobs :
                \/ status'[j] = status[j]
                \/ status[j] = "pending" /\ status'[j] = "running"
                \/ status[j] = "running" /\ status'[j] \in {"completed", "failed"}
<1>1. CASE WorkerPop(w)
  <2>1. /\ Head(queue) \in Jobs
        /\ Queued(Head(queue))
        /\ Len(Tail(queue)) <= Len(queue)
    BY <1>1, TailIn DEF WorkerPop, JobInv, JobTypeOK, OneHolder, Queued
  <2>2. status[Head(queue)] \in {"pending", "cancelled"}
    BY <2>1 DEF JobInv, PlaceStatus
  <2> QED
    BY <1>1, <2>1, <2>2 DEF WorkerPop, JobInv, JobTypeOK
<1>2. CASE RenderReturned(w) \/ RenderRaised(w)
  <2>1. pc[w] \in Rendering
    BY <1>2 DEF RenderReturned, RenderRaised, AfterRender, Rendering
  <2>2. job[w] \notin cancelled
    BY <2>1 DEF JobInv, CancelledNeverRendered, CancelMarksConsumed
  <2> QED
    BY <1>2, <2>2 DEF RenderReturned, RenderRaised, AfterRender, JobInv, JobTypeOK
<1>3. CASE UpdateCompleted(w) \/ UpdateFailed(w)
  <2>1. pc[w] \in Rendering
    BY <1>3 DEF UpdateCompleted, UpdateFailed, Update, Rendering
  <2>2. status[job[w]] = "running"
    BY <2>1 DEF JobInv, CancelledNeverRendered
  <2> QED
    BY <1>3, <2>2 DEF UpdateCompleted, UpdateFailed, Update, JobInv, JobTypeOK
<1>4. CASE WorkerWait(w) \/ WorkerCheck(w) \/ WorkerFinally(w) \/ RenderEnds(w)
  BY <1>4 DEF WorkerWait, WorkerCheck, WorkerFinally, RenderEnds, JobInv, JobTypeOK
<1> QED
  BY <1>1, <1>2, <1>3, <1>4 DEF WorkerStep, WorkerLocal

-----------------------------------------------------------------------------
(* The two ways a section of a handler ends.                               *)

\* While a handler is at a section no other handler is.
LEMMA OnlyHandler ==
    ASSUME ServiceInv, NEW c \in Clients, at[c] \in Sections
    PROVE  /\ loop = c
           /\ \A d \in Clients \ {c} : at[d] \notin Sections
           /\ syncRunning = IF at[c] \in {"sync_render", "sync_exit"} THEN 1 ELSE 0
<1>1. loop = c /\ \A d \in Clients \ {c} : at[d] \notin Sections
  BY DEF ServiceInv, OneHandler
<1>2. \A d \in Clients \ {c} : at[d] \notin {"sync_render", "sync_exit"}
  BY <1>1 DEF Sections, RenderSections
<1> QED
  BY <1>1, <1>2 DEF ServiceInv, SyncTracked

\* The handler answers: then no handler is under way, and whatever a handler
\* remembers no longer matters.
LEMMA ReplyInv ==
    ASSUME ServiceInv, NEW c \in Clients, at[c] \in Sections,
           NEW a \in Answers \ {"absent", "pending"}, Reply(c, a),
           JobInv', LiveJobIndexed', QueueBounded', syncRunning' = 0
    PROVE  ServiceInv'
<1> USE DEF Reply
<1>1. /\ at' \in [Clients -> Sections \cup {"idle", "sent"}]
      /\ \A d \in Clients : at'[d] \notin Sections
  <2>1. \A d \in Clients : at'[d] = IF d = c THEN "idle" ELSE at[d]
    BY DEF ServiceInv, ServiceTypeOK
  <2>2. "idle" \notin Sections
    BY DEF Sections, SubmitSections, CancelSections, RenderSections
  <2> QED
    BY <2>1, <2>2, OnlyHandler DEF ServiceInv, ServiceTypeOK
<1>2. ServiceTypeOK'
  <2>1. call' \in [Clients -> Calls]
    BY DEF ServiceInv, ServiceTypeOK, NoCall, Calls
  <2>2. target' \in [Clients -> Jobs \cup {NoJob}] /\ answer' \in [Clients -> Answers]
    BY DEF ServiceInv, ServiceTypeOK
  <2> QED
    BY <1>1, <2>1, <2>2 DEF ServiceInv, ServiceTypeOK, JobInv
<1>3. OneHandler' /\ HandlerOfCall' /\ LookupStillTrue' /\ AdmissionStillTrue'
        /\ CancelStillTrue'
  BY <1>1, ClientsAssumption
     DEF OneHandler, HandlerOfCall, LookupStillTrue, AdmissionStillTrue, CancelStillTrue,
         Sections, SubmitSections, CancelSections
<1>4. CancelNeverAnswersPending'
  BY DEF ServiceInv, ServiceTypeOK, CancelNeverAnswersPending
<1>5. SyncTracked'
  BY <1>1 DEF SyncTracked, Sections, RenderSections
<1> QED
  BY <1>2, <1>3, <1>4, <1>5 DEF ServiceInv

\* The handler goes on to a section, and what it has to know there is true.
LEMMA GoInv ==
    ASSUME ServiceInv, NEW c \in Clients, at[c] \in Sections, NEW section \in Sections,
           at' = [at EXCEPT ![c] = section], UNCHANGED <<call, answer, loop, settings>>,
           target' \in [Clients -> Jobs \cup {NoJob}],
           JobInv', LiveJobIndexed', QueueBounded',
           section # "lookup",
           section \in SubmitSections => call[c].kind = "submit",
           section \in CancelSections => call[c].kind = "cancel",
           section \in {"admit", "create"} /\ call[c].request # NoRequest =>
             \A j \in Jobs : requestOf'[j] = call[c].request => status'[j] \notin LiveStatuses,
           section \in {"create", "enqueue"} => Len(queue') < MaxPending,
           section = "cancel" => status'[call[c].id] # "absent",
           section = "reread" => status'[call[c].id] \notin {"absent", "pending"},
           syncRunning' = IF section \in {"sync_render", "sync_exit"} THEN 1 ELSE 0
    PROVE  ServiceInv'
<1>1. /\ at' \in [Clients -> Sections \cup {"idle", "sent"}]
      /\ at'[c] = section
      /\ \A d \in Clients \ {c} : at'[d] = at[d] /\ at[d] \notin Sections
  BY OnlyHandler DEF ServiceInv, ServiceTypeOK
<1>2. ServiceTypeOK'
  BY <1>1 DEF ServiceInv, ServiceTypeOK, JobInv
<1>3. OneHandler'
  BY <1>1, OnlyHandler DEF OneHandler
<1>4. HandlerOfCall'
  BY <1>1 DEF ServiceInv, HandlerOfCall, Sections, SubmitSections, CancelSections
<1>5. LookupStillTrue'
  BY <1>1 DEF LookupStillTrue, Sections, SubmitSections
<1>6. AdmissionStillTrue'
  BY <1>1 DEF AdmissionStillTrue, Sections, SubmitSections
<1>7. CancelStillTrue'
  BY <1>1 DEF CancelStillTrue, Sections, CancelSections
<1>8. CancelNeverAnswersPending'
  BY DEF ServiceInv, CancelNeverAnswersPending
<1>9. SyncTracked'
  BY <1>1 DEF SyncTracked, Sections, RenderSections
<1> QED
  BY <1>2, <1>3, <1>4, <1>5, <1>6, <1>7, <1>8, <1>9 DEF ServiceInv

-----------------------------------------------------------------------------
(* The steps that are in no handler.                                       *)

\* A step between two handlers of clients that stay out of all sections.
LEMMA OutsideInv ==
    ASSUME ServiceInv, UNCHANGED <<jobVars, syncRunning>>,
           at' \in [Clients -> Sections \cup {"idle", "sent"}],
           \A c \in Clients : at'[c] = at[c] \/ (at[c] \notin Sections /\ at'[c] \notin Sections),
           call' \in [Clients -> Calls],
           \A c \in Clients : at[c] \in Sections => call'[c] = call[c],
           answer' \in [Clients -> Answers],
           \A c \in Clients : answer'[c] = answer[c] \/ answer'[c] = "none",
           UNCHANGED <<target, loop, settings>>
    PROVE  ServiceInv'
<1>1. JobInv' /\ JobTypeOK'
  BY JobStutterInv DEF ServiceInv, JobInv
<1>2. ServiceTypeOK'
  BY <1>1 DEF ServiceInv, ServiceTypeOK
<1>3. OneHandler'
  BY DEF ServiceInv, OneHandler
<1>4. HandlerOfCall'
  BY DEF ServiceInv, HandlerOfCall, Sections, SubmitSections, CancelSections
<1>5. LiveJobIndexed' /\ QueueBounded'
  BY DEF ServiceInv, LiveJobIndexed, QueueBounded, jobVars
<1>6. LookupStillTrue' /\ AdmissionStillTrue'
  BY DEF ServiceInv, LookupStillTrue, AdmissionStillTrue, Sections, SubmitSections, jobVars
<1>7. CancelStillTrue'
  BY DEF ServiceInv, CancelStillTrue, Sections, CancelSections, jobVars
<1>8. CancelNeverAnswersPending'
  BY DEF ServiceInv, CancelNeverAnswersPending
<1>9. SyncTracked'
  <2>1. \A c \in Clients : at'[c] \in {"sync_render", "sync_exit"}
                             <=> at[c] \in {"sync_render", "sync_exit"}
    BY DEF Sections, RenderSections
  <2> QED
    BY <2>1 DEF ServiceInv, SyncTracked
<1> QED
  BY <1>1, <1>2, <1>3, <1>4, <1>5, <1>6, <1>7, <1>8, <1>9 DEF ServiceInv

\* A call outside its handler is at none of its sections.
LEMMA NoSection == "idle" \notin Sections /\ "sent" \notin Sections
BY DEF Sections, SubmitSections, CancelSections, RenderSections

\* A new call waits for the loop.
LEMMA SendInv ==
    ASSUME ServiceInv, NEW c \in Clients, NEW k \in Calls, Send(c, k)
    PROVE  ServiceInv'
<1> USE DEF Send
<1>1. /\ at' \in [Clients -> Sections \cup {"idle", "sent"}]
      /\ call' \in [Clients -> Calls]
      /\ answer' \in [Clients -> Answers]
  BY DEF ServiceInv, ServiceTypeOK, Answers
<1>2. \A d \in Clients :
        /\ at'[d] = at[d] \/ (at[d] \notin Sections /\ at'[d] \notin Sections)
        /\ at[d] \in Sections => call'[d] = call[d]
        /\ answer'[d] = answer[d] \/ answer'[d] = "none"
  BY NoSection DEF ServiceInv, ServiceTypeOK
<1> QED
  BY <1>1, <1>2, OutsideInv

\* A call that only reads changes nothing.
LEMMA ReadInv ==
    ASSUME ServiceInv, NEW c \in Clients, Read(c)
    PROVE  ServiceInv'
<1> USE DEF Read
<1>1. at' \in [Clients -> Sections \cup {"idle", "sent"}]
  BY DEF ServiceInv, ServiceTypeOK
<1>2. \A d \in Clients :
        at'[d] = at[d] \/ (at[d] \notin Sections /\ at'[d] \notin Sections)
  BY NoSection DEF ServiceInv, ServiceTypeOK
<1> QED
  BY <1>1, <1>2, OutsideInv DEF ServiceInv, ServiceTypeOK

\* The loop takes up a call: no other handler is under way.
LEMMA DispatchInv ==
    ASSUME ServiceInv, NEW c \in Clients, Dispatch(c)
    PROVE  ServiceInv'
<1> USE DEF Dispatch, LoopFree
<1> DEFINE section == FirstSection(call[c])
<1>1. \A d \in Clients : at[d] \notin Sections
  BY ClientsAssumption DEF ServiceInv, OneHandler
<1>2. /\ section \in {"admit", "lookup", "find", "sync_admit"}
      /\ section \in SubmitSections => call[c].kind = "submit"
      /\ section \in CancelSections => call[c].kind = "cancel"
      /\ section = "lookup" => call[c].request # NoRequest
      /\ section = "admit" => call[c].request = NoRequest
  <2>1. call[c] \in Calls /\ call[c].kind # "read"
    BY DEF ServiceInv, ServiceTypeOK
  <2>2. call[c].kind \in {"submit", "cancel", "render"}
    BY <2>1 DEF Calls
  <2> QED
    BY <2>2 DEF FirstSection, SubmitSections, CancelSections
<1> HIDE DEF section
<1>3. /\ at' \in [Clients -> Sections \cup {"idle", "sent"}]
      /\ \A d \in Clients : at'[d] = IF d = c THEN section ELSE at[d]
      /\ section \in Sections
  BY <1>2 DEF section, ServiceInv, ServiceTypeOK, Sections, SubmitSections, CancelSections,
              RenderSections
<1>4. JobInv' /\ JobTypeOK'
  BY JobStutterInv DEF ServiceInv, JobInv
<1>5. ServiceTypeOK'
  BY <1>3, <1>4 DEF ServiceInv, ServiceTypeOK
<1>6. OneHandler'
  BY <1>1, <1>3 DEF OneHandler
<1>7. HandlerOfCall'
  BY <1>1, <1>2, <1>3 DEF HandlerOfCall, Sections, SubmitSections, CancelSections
<1>8. LiveJobIndexed' /\ QueueBounded' /\ CancelNeverAnswersPending'
  BY DEF ServiceInv, LiveJobIndexed, QueueBounded, CancelNeverAnswersPending, jobVars
<1>9. LookupStillTrue' /\ AdmissionStillTrue'
  BY <1>1, <1>2, <1>3 DEF LookupStillTrue, AdmissionStillTrue, Sections, SubmitSections
<1>10. CancelStillTrue'
  BY <1>1, <1>2, <1>3 DEF CancelStillTrue, Sections, CancelSections
<1>11. SyncTracked'
  BY <1>1, <1>2, <1>3 DEF ServiceInv, SyncTracked, Sections, RenderSections
<1> QED
  BY <1>4, <1>5, <1>6, <1>7, <1>8, <1>9, <1>10, <1>11 DEF ServiceInv

\* Whatever a worker does between two sections of a handler, what the
\* handler found stays true: a worker revives no job, takes no room in the
\* queue and makes no job pending.
LEMMA WorkerInv ==
    ASSUME ServiceInv, NEW w \in Workers, WorkerStep(w), UNCHANGED handlerVars
    PROVE  ServiceInv'
<1> USE DEF handlerVars
<1>1. JobInv' /\ JobTypeOK' /\ JobInv /\ JobTypeOK
  BY WorkerStepInv DEF ServiceInv, JobInv
<1>2. /\ UNCHANGED <<requestOf, requestIndex>>
      /\ Len(queue') <= Len(queue) /\ Len(queue) \in Nat /\ Len(queue') \in Nat
      /\ \A j \in Jobs :
           /\ status'[j] \in LiveStatuses => status[j] \in LiveStatuses
           /\ status'[j] = "absent" => status[j] = "absent"
           /\ status'[j] = "pending" => status[j] = "pending"
  BY <1>1, WorkerMoves DEF LiveStatuses, JobTypeOK
<1>3. ServiceTypeOK' /\ OneHandler' /\ HandlerOfCall' /\ CancelNeverAnswersPending'
        /\ SyncTracked'
  BY <1>1 DEF ServiceInv, ServiceTypeOK, OneHandler, HandlerOfCall,
              CancelNeverAnswersPending, SyncTracked
<1>4. LiveJobIndexed'
  BY <1>2 DEF ServiceInv, LiveJobIndexed
<1>5. LookupStillTrue'
  BY <1>2 DEF ServiceInv, LookupStillTrue
<1>6. AdmissionStillTrue' /\ QueueBounded'
  BY <1>2, MaxPendingAssumption DEF ServiceInv, AdmissionStillTrue, QueueBounded
<1>7. CancelStillTrue'
  <2> SUFFICES ASSUME NEW c \in Clients
               PROVE  /\ at[c] = "cancel" => status'[call[c].id] # "absent"
                      /\ at[c] = "reread" => status'[call[c].id] \notin {"absent", "pending"}
    BY DEF CancelStillTrue
  <2>1. at[c] \in {"cancel", "reread"} => call[c].id \in Jobs
    BY DEF ServiceInv, ServiceTypeOK, HandlerOfCall, CancelSections, Calls
  <2> QED
    BY <1>2, <2>1 DEF ServiceInv, CancelStillTrue
<1> QED
  BY <1>1, <1>3, <1>4, <1>5, <1>6, <1>7 DEF ServiceInv

-----------------------------------------------------------------------------
(* POST /v1/render/jobs.                                                   *)

\* A section that leaves the job manager alone.
LEMMA JobsUntouched ==
    ASSUME ServiceInv, UNCHANGED jobVars
    PROVE  JobInv' /\ LiveJobIndexed' /\ QueueBounded'
<1>1. JobInv'
  BY JobStutterInv DEF ServiceInv
<1> QED
  BY <1>1 DEF ServiceInv, LiveJobIndexed, QueueBounded, jobVars

\* The look-up finds a live job of the request, or there is none.
LEMMA SubmitLookupInv ==
    ASSUME ServiceInv, NEW c \in Clients, SubmitLookup(c)
    PROVE  ServiceInv'
<1> USE DEF SubmitLookup
<1> DEFINE r == call[c].request
           existing == requestIndex[r]
<1>1. /\ at[c] \in Sections
      /\ call[c].kind = "submit"
      /\ r \in Requests
      /\ syncRunning = 0
      /\ target \in [Clients -> Jobs \cup {NoJob}]
  <2>1. at[c] \in SubmitSections /\ at[c] \in Sections
    BY DEF Sections, SubmitSections
  <2>2. call[c] \in Calls /\ call[c].kind = "submit" /\ r # NoRequest
    BY <2>1 DEF ServiceInv, ServiceTypeOK, HandlerOfCall
  <2> QED
    BY <2>1, <2>2, OnlyHandler DEF Calls, ServiceInv, ServiceTypeOK
<1>2. JobInv' /\ LiveJobIndexed' /\ QueueBounded'
  BY JobsUntouched
<1>3. CASE existing # NoJob /\ status[existing] \in Reusable
  <2>1. existing \in Jobs
    BY <1>1, <1>3 DEF ServiceInv, JobInv, JobTypeOK
  <2>2. existing \in Answers \ {"absent", "pending"}
    BY <2>1, JobIdsAssumption DEF Answers, Statuses
  <2>3. Reply(c, existing) /\ syncRunning' = 0
    BY <1>1, <1>3
  <2> HIDE DEF SubmitLookup, existing
  <2> QED
    BY <1>1, <1>2, <2>2, <2>3, ReplyInv
<1>4. CASE ~(existing # NoJob /\ status[existing] \in Reusable)
  <2>1. \A j \in Jobs : requestOf'[j] = r => status'[j] \notin LiveStatuses
    BY <1>1, <1>4, JobsAssumption, RequestsAssumption
       DEF ServiceInv, LiveJobIndexed, LiveStatuses, Reusable, jobVars
  <2>2. Go(c, "admit") /\ syncRunning' = 0
    BY <1>1, <1>4
  <2>3. "admit" \in Sections /\ "admit" \notin CancelSections
    BY DEF Sections, SubmitSections, CancelSections
  <2> HIDE DEF SubmitLookup, existing
  <2> QED
    BY <1>1, <1>2, <2>1, <2>2, <2>3, GoInv DEF Go
<1> QED
  BY <1>3, <1>4

\* Admission lets a submit on only while the queue has room.
LEMMA SubmitAdmitInv ==
    ASSUME ServiceInv, NEW c \in Clients, SubmitAdmit(c)
    PROVE  ServiceInv'
<1> USE DEF SubmitAdmit
<1>1. /\ at[c] \in Sections
      /\ call[c].kind = "submit"
      /\ syncRunning = 0
      /\ target \in [Clients -> Jobs \cup {NoJob}]
  <2>1. at[c] \in SubmitSections /\ at[c] \in Sections
    BY DEF Sections, SubmitSections
  <2> QED
    BY <2>1, OnlyHandler DEF ServiceInv, ServiceTypeOK, HandlerOfCall
<1>2. JobInv' /\ LiveJobIndexed' /\ QueueBounded'
  BY JobsUntouched
<1>3. CASE \E a \in {"async_disabled", "not_accepting", "queue_full"} : Reply(c, a)
  <2>1. {"async_disabled", "not_accepting", "queue_full"} \subseteq Answers \ {"absent", "pending"}
    BY DEF Answers
  <2> QED
    BY <1>1, <1>2, <1>3, <2>1, ReplyInv
<1>4. CASE ~QueueFull /\ Go(c, "create")
  <2>1. Len(queue') < MaxPending
    BY <1>4, MaxPendingAssumption DEF QueueFull, ServiceInv, JobInv, JobTypeOK, jobVars
  <2>2. call[c].request # NoRequest =>
          \A j \in Jobs : requestOf'[j] = call[c].request => status'[j] \notin LiveStatuses
    BY DEF ServiceInv, LookupStillTrue, jobVars
  <2>3. "create" \in Sections /\ "create" \notin CancelSections
    BY DEF Sections, SubmitSections, CancelSections
  <2> QED
    BY <1>1, <1>2, <1>4, <2>1, <2>2, <2>3, GoInv DEF Go
<1> QED
  BY <1>3, <1>4

\* The index moves to the new job, and no live job of the request is left
\* behind: the handler has found none, and none was made since.
LEMMA SubmitCreateInv ==
    ASSUME ServiceInv, NEW c \in Clients, SubmitCreate(c)
    PROVE  ServiceInv'
<1> DEFINE r == call[c].request
<1>1. PICK j \in Jobs : Create(j, r) /\ target' = [target EXCEPT ![c] = j]
  BY DEF SubmitCreate
<1>2. /\ at[c] \in Sections /\ at[c] = "create"
      /\ call[c].kind = "submit"
      /\ r \in Requests \cup {NoRequest}
      /\ syncRunning = 0
  <2>1. at[c] \in SubmitSections /\ at[c] \in Sections /\ at[c] = "create"
    BY DEF Sections, SubmitSections, SubmitCreate
  <2>2. call[c] \in Calls /\ call[c].kind = "submit"
    BY <2>1 DEF ServiceInv, ServiceTypeOK, HandlerOfCall
  <2> QED
    BY <2>1, <2>2, OnlyHandler DEF Calls
<1>3. JobInv'
  BY <1>1, <1>2, CreateInv DEF ServiceInv
<1>4. /\ status'[j] = "pending" /\ requestOf'[j] = r
      /\ \A i \in Jobs \ {j} : status'[i] = status[i] /\ requestOf'[i] = requestOf[i]
      /\ \A q \in Requests : requestIndex'[q] = IF q = r THEN j ELSE requestIndex[q]
      /\ queue' = queue
      /\ \A i \in Jobs : requestOf[i] \in Requests \cup {NoRequest}
  BY <1>1 DEF Create, ServiceInv, JobInv, JobTypeOK
<1>5. LiveJobIndexed'
  <2> SUFFICES ASSUME NEW i \in Jobs, requestOf'[i] # NoRequest, status'[i] \in LiveStatuses
               PROVE  requestIndex'[requestOf'[i]] = i
    BY DEF LiveJobIndexed
  <2>1. CASE i = j
    BY <1>2, <1>4, <2>1
  <2>2. CASE i # j
    <3>1. requestOf[i] \in Requests /\ requestIndex[requestOf[i]] = i
      BY <1>4, <2>2 DEF ServiceInv, LiveJobIndexed
    <3>2. requestOf[i] # r
      BY <1>2, <1>4, <2>2 DEF ServiceInv, LookupStillTrue
    <3> QED
      BY <1>4, <2>2, <3>1, <3>2
  <2> QED BY <2>1, <2>2
<1>6. QueueBounded' /\ Len(queue') < MaxPending
  BY <1>2, <1>4 DEF ServiceInv, QueueBounded, AdmissionStillTrue
<1>7. "enqueue" \in Sections /\ "enqueue" \notin CancelSections
  BY DEF Sections, SubmitSections, CancelSections
<1>8. target' \in [Clients -> Jobs \cup {NoJob}]
  BY <1>1 DEF ServiceInv, ServiceTypeOK
<1>9. at' = [at EXCEPT ![c] = "enqueue"] /\ UNCHANGED <<call, answer, loop, syncRunning, settings>>
  BY DEF SubmitCreate
<1> HIDE DEF r
<1> QED
  BY <1>2, <1>3, <1>5, <1>6, <1>7, <1>8, <1>9, GoInv

\* The room that admission found is still there.
LEMMA SubmitEnqueueInv ==
    ASSUME ServiceInv, NEW c \in Clients, SubmitEnqueue(c)
    PROVE  ServiceInv'
<1> USE DEF SubmitEnqueue
<1> DEFINE j == target[c]
<1>1. at[c] \in Sections /\ at[c] = "enqueue" /\ syncRunning = 0
  <2>1. at[c] \in Sections
    BY DEF Sections, SubmitSections
  <2> QED
    BY <2>1, OnlyHandler
<1>2. j \in Jobs
  BY DEF Submit, ServiceInv, JobInv, JobTypeOK
<1>3. JobInv'
  BY <1>2, SubmitInv DEF ServiceInv
<1>4. LiveJobIndexed'
  BY DEF Submit, ServiceInv, LiveJobIndexed
<1>5. QueueBounded'
  <2>1. Len(queue) < MaxPending
    BY <1>1 DEF ServiceInv, AdmissionStillTrue
  <2>2. Len(queue') = Len(queue) + 1 /\ Len(queue) \in Nat
    BY <1>2 DEF Submit, ServiceInv, JobInv, JobTypeOK
  <2> QED
    BY <2>1, <2>2, MaxPendingAssumption DEF QueueBounded
<1>6. j \in Answers \ {"absent", "pending"}
  BY <1>2, JobIdsAssumption DEF Answers, Statuses
<1>7. Reply(c, j) /\ syncRunning' = 0
  BY <1>1
<1> HIDE DEF SubmitEnqueue, j
<1> QED
  BY <1>1, <1>3, <1>4, <1>5, <1>6, <1>7, ReplyInv

-----------------------------------------------------------------------------
(* DELETE /v1/render/jobs/{job_id}.                                        *)

\* What is known of a handler at a section of cancel.
LEMMA InCancel ==
    ASSUME ServiceInv, NEW c \in Clients, at[c] \in CancelSections
    PROVE  /\ at[c] \in Sections
           /\ call[c].kind = "cancel"
           /\ call[c].id \in Jobs
           /\ syncRunning = 0
           /\ target \in [Clients -> Jobs \cup {NoJob}]
<1>1. at[c] \in Sections /\ at[c] \notin {"sync_render", "sync_exit"}
  BY DEF Sections, CancelSections
<1>2. call[c] \in Calls /\ call[c].kind = "cancel"
  BY DEF ServiceInv, ServiceTypeOK, HandlerOfCall
<1> QED
  BY <1>1, <1>2, OnlyHandler DEF Calls, ServiceInv, ServiceTypeOK

\* The first section of cancel finds a job that exists, or answers.
LEMMA CancelFindInv ==
    ASSUME ServiceInv, NEW c \in Clients, CancelFind(c)
    PROVE  ServiceInv'
<1> USE DEF CancelFind
<1>1. /\ at[c] \in Sections
      /\ call[c].kind = "cancel"
      /\ syncRunning = 0
      /\ target \in [Clients -> Jobs \cup {NoJob}]
  BY InCancel DEF CancelSections
<1>2. JobInv' /\ LiveJobIndexed' /\ QueueBounded'
  BY JobsUntouched
<1>3. CASE status[call[c].id] = "absent"
  <2>1. "unknown" \in Answers \ {"absent", "pending"}
    BY DEF Answers
  <2> QED
    BY <1>1, <1>2, <1>3, <2>1, ReplyInv
<1>4. CASE status[call[c].id] # "absent"
  <2>1. "cancel" \in Sections /\ "cancel" \notin SubmitSections
    BY DEF Sections, SubmitSections, CancelSections
  <2>2. status'[call[c].id] # "absent"
    BY <1>4 DEF jobVars
  <2> QED
    BY <1>1, <1>2, <1>4, <2>1, <2>2, GoInv DEF Go
<1> QED
  BY <1>3, <1>4

\* After its second section the job is no longer pending.
LEMMA CancelApplyInv ==
    ASSUME ServiceInv, NEW c \in Clients, CancelApply(c)
    PROVE  ServiceInv'
<1> DEFINE j == call[c].id
<1>1. /\ at[c] \in Sections /\ at[c] = "cancel"
      /\ call[c].kind = "cancel"
      /\ j \in Jobs
      /\ syncRunning = 0
      /\ target \in [Clients -> Jobs \cup {NoJob}]
  BY InCancel DEF CancelSections, CancelApply
<1>2. status[j] # "absent"
  BY <1>1 DEF ServiceInv, CancelStillTrue
<1> HIDE DEF j
<1>3. JobInv' /\ LiveJobIndexed' /\ QueueBounded' /\ status'[j] \notin {"absent", "pending"}
  <2>1. CASE Cancel(j)
    <3>1. JobInv'
      BY <1>1, <2>1, CancelInv DEF ServiceInv
    <3>2. /\ UNCHANGED <<requestOf, requestIndex, queue>>
          /\ status'[j] = "cancelled"
          /\ \A i \in Jobs : status'[i] \in LiveStatuses => status[i] \in LiveStatuses
      BY <1>1, <2>1 DEF Cancel, ServiceInv, JobInv, JobTypeOK, LiveStatuses
    <3> QED
      BY <3>1, <3>2 DEF ServiceInv, LiveJobIndexed, QueueBounded
  <2>2. CASE status[j] # "pending" /\ UNCHANGED jobVars
    BY <1>2, <2>2, JobsUntouched DEF jobVars
  <2> QED
    BY <2>1, <2>2 DEF CancelApply, j
<1>4. "reread" \in Sections /\ "reread" \notin SubmitSections
  BY DEF Sections, SubmitSections, CancelSections
<1>5. /\ at' = [at EXCEPT ![c] = "reread"]
      /\ UNCHANGED <<call, target, answer, loop, syncRunning, settings>>
  BY DEF CancelApply, Go
<1> QED
  BY <1>1, <1>3, <1>4, <1>5, GoInv DEF j

\* What the last section reads and answers is not pending.
LEMMA CancelRereadInv ==
    ASSUME ServiceInv, NEW c \in Clients, CancelReread(c)
    PROVE  ServiceInv'
<1> USE DEF CancelReread
<1>1. at[c] \in Sections /\ syncRunning = 0 /\ call[c].id \in Jobs
  BY InCancel DEF CancelSections
<1>2. JobInv' /\ LiveJobIndexed' /\ QueueBounded'
  BY JobsUntouched
<1>3. status[call[c].id] \in Answers \ {"absent", "pending"}
  BY <1>1 DEF ServiceInv, CancelStillTrue, JobInv, JobTypeOK, Answers
<1>4. Reply(c, status[call[c].id]) /\ syncRunning' = 0
  BY <1>1
<1> HIDE DEF CancelReread
<1> QED
  BY <1>1, <1>2, <1>3, <1>4, ReplyInv

-----------------------------------------------------------------------------
(* POST /v1/render.                                                        *)

\* Each section of a synchronous render keeps the counter right.
LEMMA SyncInv ==
    ASSUME ServiceInv, NEW c \in Clients, SyncStep(c) \/ SyncRenderEnds(c)
    PROVE  ServiceInv'
<1>1. /\ UNCHANGED jobVars
      /\ at[c] \in RenderSections
      /\ at[c] \in Sections
      /\ target \in [Clients -> Jobs \cup {NoJob}]
      /\ syncRunning = IF at[c] \in {"sync_render", "sync_exit"} THEN 1 ELSE 0
  <2>1. at[c] \in RenderSections /\ UNCHANGED jobVars
    BY DEF SyncStep, SyncAdmit, SyncEnter, SyncExit, SyncRenderEnds, RenderSections
  <2>2. at[c] \in Sections
    BY <2>1 DEF Sections
  <2> QED
    BY <2>1, <2>2, OnlyHandler DEF ServiceInv, ServiceTypeOK
<1>2. JobInv' /\ LiveJobIndexed' /\ QueueBounded'
  BY <1>1, JobsUntouched
<1>3. /\ "overloaded" \in Answers \ {"absent", "pending"}
      /\ "not_accepting" \in Answers \ {"absent", "pending"}
      /\ "rendered" \in Answers \ {"absent", "pending"}
  BY DEF Answers
<1>4. \A s \in RenderSections :
        /\ s \in Sections
        /\ s \notin SubmitSections /\ s \notin CancelSections
        /\ s \notin {"lookup", "admit", "create", "enqueue", "cancel", "reread"}
  BY DEF Sections, SubmitSections, CancelSections, RenderSections
<1>5. \A a : Reply(c, a) /\ a \in Answers \ {"absent", "pending"} /\ syncRunning' = 0
               => ServiceInv'
  BY <1>1, <1>2, ReplyInv
<1>6. ASSUME NEW s \in RenderSections, Go(c, s),
             syncRunning' = IF s \in {"sync_render", "sync_exit"} THEN 1 ELSE 0
      PROVE  ServiceInv'
  BY <1>1, <1>2, <1>4, <1>6, GoInv DEF Go
<1>7. CASE SyncAdmit(c)
  BY <1>1, <1>3, <1>5, <1>6, <1>7 DEF SyncAdmit, RenderSections
<1>8. CASE SyncEnter(c)
  BY <1>1, <1>6, <1>8 DEF SyncEnter, RenderSections
<1>9. CASE SyncRenderEnds(c)
  BY <1>1, <1>6, <1>9 DEF SyncRenderEnds, RenderSections
<1>10. CASE SyncExit(c)
  BY <1>1, <1>3, <1>5, <1>10 DEF SyncExit
<1> QED
  BY <1>7, <1>8, <1>9, <1>10 DEF SyncStep

-----------------------------------------------------------------------------
(* The invariant.                                                          *)

\* The invariant holds before the first call.
LEMMA ServiceInitInv == ServiceInit => ServiceInv
<1> SUFFICES ASSUME ServiceInit PROVE ServiceInv
  OBVIOUS
<1> USE DEF ServiceInit
<1>1. JobInv /\ JobTypeOK
  BY JobInitInv DEF JobInv
<1>2. ServiceTypeOK
  BY <1>1 DEF ServiceTypeOK, NoCall, Calls, Answers
<1>3. \A c \in Clients : at[c] = "idle" /\ at[c] \notin Sections
  BY NoSection
<1>4. OneHandler /\ HandlerOfCall /\ LookupStillTrue /\ AdmissionStillTrue /\ CancelStillTrue
        /\ SyncTracked
  BY <1>3, ClientsAssumption
     DEF OneHandler, HandlerOfCall, LookupStillTrue, AdmissionStillTrue, CancelStillTrue,
         SyncTracked, SubmitSections, CancelSections
<1>5. LiveJobIndexed /\ QueueBounded /\ CancelNeverAnswersPending
  BY MaxPendingAssumption
     DEF JobInit, LiveJobIndexed, LiveStatuses, QueueBounded, CancelNeverAnswersPending
<1> QED
  BY <1>1, <1>2, <1>4, <1>5 DEF ServiceInv

\* Every step keeps the invariant.
LEMMA ServiceNextInv == ServiceInv /\ [ServiceNext]_vars => ServiceInv'
<1> SUFFICES ASSUME ServiceInv, [ServiceNext]_vars PROVE ServiceInv'
  OBVIOUS
<1>1. ASSUME NEW c \in Clients, NEW k \in Calls, Send(c, k) PROVE ServiceInv'
  BY <1>1, SendInv
<1>2. ASSUME NEW c \in Clients, TakeUp(c) PROVE ServiceInv'
  BY <1>2, DispatchInv, ReadInv DEF TakeUp
<1>3. ASSUME NEW c \in Clients, SubmitStep(c) PROVE ServiceInv'
  BY <1>3, SubmitLookupInv, SubmitAdmitInv, SubmitCreateInv, SubmitEnqueueInv DEF SubmitStep
<1>4. ASSUME NEW c \in Clients, CancelStep(c) PROVE ServiceInv'
  BY <1>4, CancelFindInv, CancelApplyInv, CancelRereadInv DEF CancelStep
<1>5. ASSUME NEW c \in Clients, SyncStep(c) \/ SyncRenderEnds(c) PROVE ServiceInv'
  BY <1>5, SyncInv
<1>6. ASSUME NEW w \in Workers, WorkerStep(w), UNCHANGED handlerVars PROVE ServiceInv'
  BY <1>6, WorkerInv
<1>7. CASE UNCHANGED vars
  BY <1>7, OutsideInv DEF vars, handlerVars, ServiceInv, ServiceTypeOK
<1> QED
  BY <1>1, <1>2, <1>3, <1>4, <1>5, <1>6, <1>7 DEF ServiceNext, HandlerStep

\* The inductive invariant holds in every reachable state.
THEOREM ServiceInvariant == ServiceSpec => []ServiceInv
BY ServiceInitInv, ServiceNextInv, PTL DEF ServiceSpec

-----------------------------------------------------------------------------
(* The theorems.                                                           *)

\* Every variable of the service keeps its type.
THEOREM ServiceTypeCorrect == ServiceSpec => []ServiceTypeOK
<1>1. ServiceInv => ServiceTypeOK
  BY DEF ServiceInv
<1> QED BY <1>1, ServiceInvariant, PTL

\* The service uses the job manager as JobManager expects: its calls come
\* from one thread, submit follows create once, cancel is the only other.
LEMMA ServiceUsesJobManager == ServiceSpec => JobSpec
<1>1. ServiceInit => JobInit
  BY DEF ServiceInit
<1> QED
  BY <1>1, StepsOfJobManager, ServiceInvariant, PTL DEF ServiceSpec, JobSpec

\* A request_id never has two live jobs.
THEOREM RequestsAreIdempotent == ServiceSpec => []OneLiveJobPerRequest
<1>1. ServiceInv => OneLiveJobPerRequest
  BY DEF ServiceInv, LiveJobIndexed, OneLiveJobPerRequest
<1> QED BY <1>1, ServiceInvariant, PTL

\* The queue holds at most job_max_pending jobs.
THEOREM QueueIsBounded == ServiceSpec => []QueueBounded
<1>1. ServiceInv => QueueBounded
  BY DEF ServiceInv
<1> QED BY <1>1, ServiceInvariant, PTL

\* No cancel call answers that the job is pending still.
THEOREM CancelAnswersTruthfully == ServiceSpec => []CancelNeverAnswersPending
<1>1. ServiceInv => CancelNeverAnswersPending
  BY DEF ServiceInv
<1> QED BY <1>1, ServiceInvariant, PTL

\* The counter of synchronous renders is exact, and pool and loop together
\* run at most one render more than there are workers.
THEOREM SyncIsCounted == ServiceSpec => []SyncCounted
<1>1. ASSUME ServiceInv, RunningCounted PROVE SyncCounted
  <2> DEFINE Tracked == {c \in Clients : at[c] \in {"sync_render", "sync_exit"}}
  <2>1. running <= MaxRunning
    <3>1. Busy \in SUBSET Workers
      BY DEF Busy
    <3> QED
      BY <1>1, <3>1, WorkersAssumption, FS_Subset DEF RunningCounted, MaxRunning
  <2>2. running \in Nat /\ MaxRunning \in Nat
    BY <1>1, WorkersAssumption, FS_CardinalityType DEF ServiceInv, JobInv, JobTypeOK, MaxRunning
  <2>3. CASE Tracked = {}
    <3>1. Cardinality(Tracked) = 0 /\ syncRunning = 0
      BY <1>1, <2>3, FS_EmptySet DEF ServiceInv, SyncTracked
    <3> QED
      BY <2>1, <2>2, <3>1 DEF SyncCounted
  <2>4. CASE Tracked # {}
    <3>1. PICK c \in Clients : at[c] \in {"sync_render", "sync_exit"}
      BY <2>4
    <3>2. at[c] \in Sections
      BY <3>1 DEF Sections, RenderSections
    <3>3. \A d \in Clients \ {c} : at[d] \notin {"sync_render", "sync_exit"}
      BY <1>1, <3>2, OnlyHandler DEF Sections, RenderSections
    <3>4. Tracked = {c}
      BY <3>1, <3>3
    <3>5. Cardinality(Tracked) = 1 /\ syncRunning = 1
      BY <1>1, <3>1, <3>4, FS_Singleton DEF ServiceInv, SyncTracked
    <3> QED
      BY <2>1, <2>2, <3>5 DEF SyncCounted
  <2> QED BY <2>3, <2>4
<1> QED
  BY <1>1, ServiceInvariant, ServiceUsesJobManager, CountsAndWakeups, PTL

\* What is proved of the job manager alone holds within the service: no job
\* is shared or lost, and no cancelled job is rendered.
THEOREM JobsAreSafeInService ==
    ServiceSpec => /\ [](OneHolder /\ NoJobLost /\ CancelledNeverRendered)
                   /\ StatusMovesForward
<1>1. ServiceInv => OneHolder /\ NoJobLost /\ CancelledNeverRendered
  BY DEF ServiceInv, JobInv
<1> QED
  BY <1>1, ServiceInvariant, ServiceUsesJobManager, StatusesMoveForward, PTL

\* Every step of the service is a step of the life cycle of one job, or
\* changes no job: a job is accepted only for a request with no live job.
LEMMA StepsOfLifecycle ==
    ServiceInv /\ [ServiceNext]_vars
        => [Lifecycle!LifecycleNext]_(Lifecycle!lifecycleVars)
<1> SUFFICES ASSUME ServiceInv, ServiceNext
             PROVE  Lifecycle!LifecycleNext \/ UNCHANGED <<status, requestOf>>
  BY DEF vars, handlerVars, jobVars, Lifecycle!lifecycleVars
<1>1. JobTypeOK
  BY DEF ServiceInv, JobInv
<1>2. ASSUME NEW c \in Clients, SubmitCreate(c) PROVE Lifecycle!LifecycleNext
  <2> DEFINE r == call[c].request
  <2>1. PICK j \in Jobs : Create(j, r)
    BY <1>2 DEF SubmitCreate
  <2>2. call[c] \in Calls /\ call[c].kind = "submit" /\ at[c] = "create"
    BY <1>2 DEF ServiceInv, ServiceTypeOK, HandlerOfCall, SubmitCreate, SubmitSections
  <2>3. r \in Requests \cup {NoRequest}
    BY <2>2 DEF Calls
  <2>4. r # NoRequest => Lifecycle!LiveJobs(r) = {}
    BY <2>2 DEF ServiceInv, LookupStillTrue, LiveStatuses, Lifecycle!LiveJobs, Lifecycle!Live
  <2>5. Lifecycle!Accept(j, r)
    BY <2>1, <2>4 DEF Create, Lifecycle!Accept
  <2> QED
    BY <2>3, <2>5 DEF Lifecycle!LifecycleNext
<1>3. ASSUME NEW c \in Clients, CancelApply(c)
      PROVE  Lifecycle!LifecycleNext \/ UNCHANGED <<status, requestOf>>
  <2>1. call[c].id \in Jobs
    BY <1>3, InCancel DEF CancelApply, CancelSections
  <2> QED
    BY <1>3, <2>1 DEF CancelApply, Cancel, jobVars, Lifecycle!LifecycleNext,
                      Lifecycle!Abandon, Lifecycle!Move
<1>4. ASSUME NEW w \in Workers, WorkerStep(w)
      PROVE  Lifecycle!LifecycleNext \/ UNCHANGED <<status, requestOf>>
  <2>1. UNCHANGED requestOf
    BY <1>4, WorkerMoves DEF ServiceInv
  <2>2. \/ UNCHANGED status
        \/ \E j \in Jobs : \/ Lifecycle!Start(j)
                           \/ Lifecycle!Finish(j)
    <3>1. ASSUME NEW j \in Jobs, NEW s, status' = [status EXCEPT ![j] = s]
          PROVE  \/ UNCHANGED status
                 \/ Lifecycle!Start(j)
                 \/ Lifecycle!Finish(j)
      <4>1. status'[j] = s
        BY <1>1, <3>1 DEF JobTypeOK
      <4>2. \/ status'[j] = status[j]
            \/ status[j] = "pending" /\ status'[j] = "running"
            \/ status[j] = "running" /\ status'[j] \in {"completed", "failed"}
        BY <1>4, WorkerMoves DEF ServiceInv
      <4>3. CASE status'[j] = status[j]
        BY <1>1, <3>1, <4>1, <4>3 DEF JobTypeOK
      <4> QED
        BY <2>1, <3>1, <4>1, <4>2, <4>3 DEF Lifecycle!Start, Lifecycle!Finish, Lifecycle!Move
    <3>2. UNCHANGED status \/ \E j \in Jobs, s \in Statuses : status' = [status EXCEPT ![j] = s]
      <4>1. CASE WorkerPop(w)
        <5>1. Head(queue) \in Jobs
          BY <1>1, <4>1 DEF WorkerPop, JobTypeOK
        <5> QED
          BY <1>1, <4>1, <5>1 DEF WorkerPop, JobTypeOK, Statuses
      <4>2. CASE RenderReturned(w) \/ RenderRaised(w) \/ UpdateCompleted(w) \/ UpdateFailed(w)
        <5>1. job[w] \in Jobs
          BY <4>2 DEF RenderReturned, RenderRaised, AfterRender, UpdateCompleted, UpdateFailed,
                      Update, ServiceInv, JobInv, HoldersHaveJobs, Holding, Rendering
        <5> QED
          BY <4>2, <5>1 DEF RenderReturned, RenderRaised, AfterRender, UpdateCompleted,
                            UpdateFailed, Update, Statuses, Terminal
      <4>3. CASE WorkerWait(w) \/ WorkerCheck(w) \/ WorkerFinally(w) \/ RenderEnds(w)
        BY <4>3 DEF WorkerWait, WorkerCheck, WorkerFinally, RenderEnds
      <4> QED
        BY <1>4, <4>1, <4>2, <4>3 DEF WorkerStep, WorkerLocal
    <3> QED
      BY <3>1, <3>2
  <2> QED
    BY <2>1, <2>2 DEF Lifecycle!LifecycleNext
<1>5. ASSUME NEW c \in Clients,
             \/ \E k \in Calls : Send(c, k)
             \/ TakeUp(c) \/ SubmitLookup(c) \/ SubmitAdmit(c) \/ SubmitEnqueue(c)
             \/ CancelFind(c) \/ CancelReread(c) \/ SyncStep(c) \/ SyncRenderEnds(c)
      PROVE  UNCHANGED <<status, requestOf>>
  BY <1>5 DEF Send, TakeUp, Dispatch, Read, SubmitLookup, SubmitAdmit, SubmitEnqueue, Submit,
              CancelFind, CancelReread, SyncStep, SyncAdmit, SyncEnter, SyncExit,
              SyncRenderEnds, jobVars
<1> QED
  BY <1>2, <1>3, <1>4, <1>5 DEF ServiceNext, HandlerStep, SubmitStep, CancelStep

\* The service implements the abstract life cycle of jobs.
THEOREM ServiceImplementsLifecycle == ServiceSpec => ImplementsLifecycle
<1>1. ServiceInit => Lifecycle!LifecycleInit
  BY DEF ServiceInit, JobInit, Lifecycle!LifecycleInit
<1> QED
  BY <1>1, StepsOfLifecycle, ServiceInvariant, PTL
     DEF ServiceSpec, ImplementsLifecycle, Lifecycle!LifecycleSpec
=============================================================================
