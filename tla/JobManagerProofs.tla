-------------------------- MODULE JobManagerProofs --------------------------
(***************************************************************************)
(* Theorems about JobManager, for any set of jobs, requests and workers.   *)
(***************************************************************************)
EXTENDS JobManager, FiniteSetTheorems, TLAPS

\* A worker that is past its pop has a job.
HoldersHaveJobs == \A w \in Workers : pc[w] \in Holding => job[w] \in Jobs

\* What the place of a job says about its record: the converse of NoJobLost
\* and CancelMarksConsumed, without which neither is inductive.
PlaceStatus ==
    /\ \A j \in Jobs : j \in inSubmit \/ Queued(j) =>
         \/ status[j] = "pending"
         \/ status[j] = "cancelled" /\ j \in cancelled
    /\ \A w \in Workers : pc[w] = "check" =>
         \/ status[job[w]] = "running"
         \/ status[job[w]] = "cancelled" /\ job[w] \in cancelled
    /\ \A w \in Workers : pc[w] = "finally" => status[job[w]] \in Terminal

\* The inductive invariant.
JobInv ==
    /\ JobTypeOK
    /\ HoldersHaveJobs
    /\ OneHolder
    /\ NoJobLost
    /\ CancelledNeverRendered
    /\ CancelMarksConsumed
    /\ PlaceStatus

-----------------------------------------------------------------------------
(* The queue.                                                              *)

\* Appending a new element adds it and nothing else, and repeats nothing.
LEMMA AppendIn ==
    ASSUME NEW S, NEW s \in Seq(S), NEW x \in S, ~In(x, s), Distinct(s)
    PROVE  /\ \A y : In(y, Append(s, x)) <=> In(y, s) \/ y = x
           /\ Distinct(Append(s, x))
<1> DEFINE t == Append(s, x)
<1>1. /\ t \in Seq(S)
      /\ Len(t) = Len(s) + 1
      /\ t[Len(s) + 1] = x
      /\ \A i \in 1..Len(s) : t[i] = s[i]
  OBVIOUS
<1>2. ASSUME NEW y PROVE In(y, t) <=> In(y, s) \/ y = x
  <2>1. ASSUME In(y, t) PROVE In(y, s) \/ y = x
    BY <1>1, <2>1 DEF In
  <2>2. ASSUME In(y, s) \/ y = x PROVE In(y, t)
    BY <1>1, <2>2 DEF In
  <2> QED BY <2>1, <2>2
<1>3. Distinct(t)
  BY <1>1 DEF Distinct, In
<1> QED BY <1>2, <1>3

\* Popping the head of a queue without repetitions removes it and nothing else.
LEMMA TailIn ==
    ASSUME NEW S, NEW s \in Seq(S), s # <<>>, Distinct(s)
    PROVE  /\ Head(s) \in S
           /\ In(Head(s), s)
           /\ \A y : In(y, Tail(s)) <=> In(y, s) /\ y # Head(s)
           /\ Distinct(Tail(s))
<1> DEFINE t == Tail(s)
<1>1. /\ t \in Seq(S)
      /\ Len(s) \in Nat \ {0}
      /\ Len(t) = Len(s) - 1
      /\ Head(s) = s[1]
      /\ \A i \in 1..Len(t) : t[i] = s[i + 1]
  OBVIOUS
<1>2. Head(s) \in S /\ In(Head(s), s)
  BY <1>1 DEF In
<1>3. ASSUME NEW y PROVE In(y, t) <=> In(y, s) /\ y # Head(s)
  <2>1. ASSUME In(y, t) PROVE In(y, s) /\ y # Head(s)
    BY <1>1, <2>1 DEF In, Distinct
  <2>2. ASSUME In(y, s), y # Head(s) PROVE In(y, t)
    <3>1. PICK i \in 1..Len(s) : s[i] = y
      BY <2>2 DEF In
    <3>2. i # 1 /\ i - 1 \in 1..Len(t) /\ t[i - 1] = y
      BY <1>1, <2>2, <3>1
    <3> QED BY <3>2 DEF In
  <2> QED BY <2>1, <2>2
<1>4. Distinct(t)
  BY <1>1 DEF Distinct
<1> QED BY <1>2, <1>3, <1>4

-----------------------------------------------------------------------------
\* The invariant holds before any job is created.
LEMMA JobInitInv == JobInit => JobInv
<1> SUFFICES ASSUME JobInit PROVE JobInv
  OBVIOUS
<1> USE DEF JobInit
<1>1. JobTypeOK
  BY DEF JobTypeOK, Statuses, Terminal, Positions, Holding, Rendering
<1>2. \A j \in Jobs : ~Queued(j)
  BY DEF Queued, In
<1>3. \A w \in Workers : pc[w] \notin Holding
  BY DEF Holding, Rendering
<1> QED
  BY <1>1, <1>2, <1>3
  DEF JobInv, HoldersHaveJobs, OneHolder, Distinct, NoJobLost, Holding,
      CancelledNeverRendered, CancelMarksConsumed, PlaceStatus

-----------------------------------------------------------------------------
(* One lemma per action.                                                   *)

\* create adds a job that has no place yet but is about to be submitted.
LEMMA CreateInv ==
    ASSUME JobInv, NEW j \in Jobs, NEW r \in Requests \cup {NoRequest}, Create(j, r)
    PROVE  JobInv'
<1> USE DEF Create
<1>1. JobTypeOK'
  BY DEF JobInv, JobTypeOK, Statuses
<1>2. \A k : Queued(k)' <=> Queued(k)
  BY DEF Queued
<1>3. ~Queued(j) /\ j \notin inSubmit /\ j \notin cancelled
  BY DEF JobInv, PlaceStatus, CancelMarksConsumed
<1>4. \A w \in Workers : pc[w] \in Holding => job[w] # j
  BY DEF JobInv, HoldersHaveJobs, PlaceStatus, CancelledNeverRendered, Holding, Terminal
<1>5. \A k \in Jobs : k # j => status'[k] = status[k]
  BY DEF JobInv, JobTypeOK
<1>6. status'[j] = "pending"
  BY DEF JobInv, JobTypeOK
<1>7. HoldersHaveJobs' /\ OneHolder'
  BY <1>2, <1>3, <1>4 DEF JobInv, HoldersHaveJobs, OneHolder
<1>8. NoJobLost'
  BY <1>2, <1>5, <1>6 DEF JobInv, NoJobLost, Held
<1>9. CancelledNeverRendered'
  BY <1>4, <1>5 DEF JobInv, CancelledNeverRendered, HoldersHaveJobs, Holding
<1>10. CancelMarksConsumed'
  BY <1>2, <1>3, <1>5 DEF JobInv, JobTypeOK, CancelMarksConsumed, Held
<1>11. PlaceStatus'
  BY <1>2, <1>4, <1>5, <1>6 DEF JobInv, PlaceStatus, HoldersHaveJobs, Holding
<1> QED
  BY <1>1, <1>7, <1>8, <1>9, <1>10, <1>11 DEF JobInv

\* What a notify leaves alone: every worker that holds a job.
LEMMA NotifyHolding ==
    ASSUME pc \in [Workers -> Positions], NotifyOne
    PROVE  /\ pc' \in [Workers -> Positions]
           /\ \A w \in Workers : pc[w] \in Holding \/ pc'[w] \in Holding => pc'[w] = pc[w]
BY DEF NotifyOne, Waiting, Positions, Holding, Rendering

\* submit moves a job from its caller to the end of the queue.
LEMMA SubmitInv ==
    ASSUME JobInv, NEW j \in Jobs, Submit(j)
    PROVE  JobInv'
<1> USE DEF Submit
<1>1. /\ pc' \in [Workers -> Positions]
      /\ \A w \in Workers : pc[w] \in Holding \/ pc'[w] \in Holding => pc'[w] = pc[w]
  BY NotifyHolding DEF JobInv, JobTypeOK
<1>2. JobTypeOK'
  BY <1>1 DEF JobInv, JobTypeOK
<1>3. /\ \A k : Queued(k)' <=> Queued(k) \/ k = j
      /\ Distinct(queue)'
  BY AppendIn DEF JobInv, JobTypeOK, OneHolder, Queued
<1>4. HoldersHaveJobs' /\ OneHolder'
  BY <1>1, <1>3 DEF JobInv, HoldersHaveJobs, OneHolder
<1>5. NoJobLost'
  BY <1>1, <1>3 DEF JobInv, NoJobLost, Held
<1>6. CancelledNeverRendered'
  BY <1>1 DEF JobInv, CancelledNeverRendered, Holding
<1>7. CancelMarksConsumed'
  BY <1>1, <1>3 DEF JobInv, CancelMarksConsumed, Held, Holding
<1>8. PlaceStatus'
  BY <1>1, <1>3 DEF JobInv, PlaceStatus, Holding
<1> QED
  BY <1>2, <1>4, <1>5, <1>6, <1>7, <1>8 DEF JobInv

\* cancel marks a job where it is and leaves it there.
LEMMA CancelInv ==
    ASSUME JobInv, NEW j \in Jobs, Cancel(j)
    PROVE  JobInv'
<1> USE DEF Cancel
<1>1. JobTypeOK'
  BY DEF JobInv, JobTypeOK, Statuses, Terminal
<1>2. \A k : Queued(k)' <=> Queued(k)
  BY DEF Queued
<1>3. j \in inSubmit \/ Queued(j)
  BY DEF JobInv, NoJobLost
<1>4. \A w \in Workers : pc[w] \in Holding => job[w] # j
  BY <1>3 DEF JobInv, OneHolder
<1>5. /\ status'[j] = "cancelled"
      /\ \A k \in Jobs : k # j => status'[k] = status[k]
  BY DEF JobInv, JobTypeOK
<1>6. HoldersHaveJobs' /\ OneHolder'
  BY <1>2 DEF JobInv, HoldersHaveJobs, OneHolder
<1>7. NoJobLost'
  BY <1>2, <1>5 DEF JobInv, NoJobLost, Held
<1>8. CancelledNeverRendered'
  BY <1>4, <1>5 DEF JobInv, CancelledNeverRendered, HoldersHaveJobs, Holding
<1>9. CancelMarksConsumed'
  BY <1>2, <1>3, <1>5 DEF JobInv, JobTypeOK, CancelMarksConsumed, Held
<1>10. PlaceStatus'
  BY <1>2, <1>4, <1>5 DEF JobInv, PlaceStatus, HoldersHaveJobs, Holding
<1> QED
  BY <1>1, <1>6, <1>7, <1>8, <1>9, <1>10 DEF JobInv

\* A step of worker w that only moves w.
LEMMA GoToFacts ==
    ASSUME NEW w \in Workers, NEW position \in Positions,
           pc \in [Workers -> Positions], GoTo(w, position)
    PROVE  /\ pc' \in [Workers -> Positions]
           /\ pc'[w] = position
           /\ \A v \in Workers : v # w => pc'[v] = pc[v]
BY DEF GoTo

\* Going to sleep moves no job.
LEMMA WaitInv ==
    ASSUME JobInv, NEW w \in Workers, WorkerWait(w)
    PROVE  JobInv'
<1> USE DEF WorkerWait
<1>1. /\ pc' \in [Workers -> Positions]
      /\ pc'[w] = "waiting"
      /\ \A v \in Workers : v # w => pc'[v] = pc[v]
  BY GoToFacts DEF JobInv, JobTypeOK, Positions
<1>2. \A k : Queued(k)' <=> Queued(k)
  BY DEF Queued
<1> USE DEF Holding, Rendering
<1>3. JobTypeOK'
  BY <1>1 DEF JobInv, JobTypeOK
<1>4. HoldersHaveJobs' /\ OneHolder'
  BY <1>1, <1>2 DEF JobInv, HoldersHaveJobs, OneHolder
<1>5. NoJobLost'
  BY <1>1, <1>2 DEF JobInv, NoJobLost, Held
<1>6. CancelledNeverRendered'
  BY <1>1 DEF JobInv, CancelledNeverRendered
<1>7. CancelMarksConsumed'
  BY <1>1, <1>2 DEF JobInv, CancelMarksConsumed, Held
<1>8. PlaceStatus'
  BY <1>1, <1>2 DEF JobInv, PlaceStatus
<1> QED
  BY <1>3, <1>4, <1>5, <1>6, <1>7, <1>8 DEF JobInv

\* The pop moves the first job from the queue into the hands of a worker.
LEMMA PopInv ==
    ASSUME JobInv, NEW w \in Workers, WorkerPop(w)
    PROVE  JobInv'
<1> USE DEF WorkerPop
<1> DEFINE h == Head(queue)
<1>1. /\ pc' \in [Workers -> Positions]
      /\ pc'[w] = "check"
      /\ \A v \in Workers : v # w => pc'[v] = pc[v]
  BY GoToFacts DEF JobInv, JobTypeOK, Positions, Holding
<1>2. /\ h \in Jobs
      /\ Queued(h)
      /\ \A k : Queued(k)' <=> Queued(k) /\ k # h
      /\ Distinct(queue)'
  BY TailIn DEF JobInv, JobTypeOK, OneHolder, Queued
<1>3. \A v \in Workers : pc[v] \in Holding => job[v] # h
  BY <1>2 DEF JobInv, OneHolder
<1>4. h \notin inSubmit
  BY <1>2 DEF JobInv, OneHolder
<1>5. /\ job'[w] = h
      /\ \A v \in Workers : v # w => job'[v] = job[v]
  BY DEF JobInv, JobTypeOK
<1>6. /\ \A k \in Jobs : k # h => status'[k] = status[k]
      /\ \/ status[h] = "pending" /\ status'[h] = "running"
         \/ status[h] = "cancelled" /\ status'[h] = "cancelled" /\ h \in cancelled
  BY <1>2 DEF JobInv, JobTypeOK, PlaceStatus
<1>7. JobTypeOK'
  <2>1. status' \in [Jobs -> Statuses]
    BY <1>2 DEF JobInv, JobTypeOK, Statuses
  <2>2. job' \in [Workers -> Jobs \cup {NoJob}]
    BY <1>2 DEF JobInv, JobTypeOK
  <2>3. queue' \in Seq(Jobs)
    BY DEF JobInv, JobTypeOK
  <2> QED
    BY <1>1, <2>1, <2>2, <2>3 DEF JobInv, JobTypeOK
<1>8. HoldersHaveJobs'
  BY <1>1, <1>2, <1>5 DEF JobInv, HoldersHaveJobs
<1>9. OneHolder'
  <2>1. \A v \in Workers : v # w => (pc'[v] \in Holding <=> pc[v] \in Holding)
    BY <1>1
  <2> QED
    BY <1>2, <1>3, <1>4, <1>5, <2>1 DEF JobInv, OneHolder
<1>10. NoJobLost'
  BY <1>1, <1>2, <1>5, <1>6 DEF JobInv, NoJobLost, Held, Holding, Rendering
<1>11. CancelledNeverRendered'
  BY <1>1, <1>3, <1>5, <1>6 DEF JobInv, CancelledNeverRendered, HoldersHaveJobs, Holding, Rendering
<1>12. CancelMarksConsumed'
  BY <1>1, <1>2, <1>5, <1>6 DEF JobInv, JobTypeOK, CancelMarksConsumed, Held
<1>13. PlaceStatus'
  BY <1>1, <1>2, <1>3, <1>4, <1>5, <1>6
     DEF JobInv, JobTypeOK, PlaceStatus, HoldersHaveJobs, Holding
<1> QED
  BY <1>7, <1>8, <1>9, <1>10, <1>11, <1>12, <1>13 DEF JobInv

\* The look at _cancelled lets a job without a mark through to the render.
LEMMA CheckInv ==
    ASSUME JobInv, NEW w \in Workers, WorkerCheck(w)
    PROVE  JobInv'
<1> USE DEF WorkerCheck
<1> DEFINE h == job[w]
<1>1. h \in Jobs /\ ~Queued(h) /\ h \notin inSubmit
  BY DEF JobInv, HoldersHaveJobs, OneHolder, Holding
<1>2. \/ status[h] = "running" /\ h \notin cancelled
      \/ status[h] = "cancelled" /\ h \in cancelled
  BY DEF JobInv, PlaceStatus, CancelMarksConsumed
<1>3. /\ pc' \in [Workers -> Positions]
      /\ \/ pc'[w] = "finally" /\ status[h] = "cancelled"
         \/ pc'[w] = "render" /\ status[h] = "running"
      /\ \A v \in Workers : v # w => pc'[v] = pc[v]
  BY <1>2 DEF JobInv, JobTypeOK, GoTo, Positions, Holding, Rendering
<1>4. \A k : Queued(k)' <=> Queued(k)
  BY DEF Queued
<1>5. \A v \in Workers : v # w /\ pc[v] \in Holding => job[v] # h
  BY DEF JobInv, OneHolder, Holding
<1> USE DEF Holding, Rendering
<1>6. JobTypeOK'
  BY <1>3 DEF JobInv, JobTypeOK
<1>7. HoldersHaveJobs' /\ OneHolder'
  BY <1>3, <1>4 DEF JobInv, HoldersHaveJobs, OneHolder
<1>8. NoJobLost'
  BY <1>1, <1>3, <1>4 DEF JobInv, NoJobLost, Held
<1>9. CancelledNeverRendered'
  BY <1>3 DEF JobInv, CancelledNeverRendered
<1>10. CancelMarksConsumed'
  BY <1>3, <1>4 DEF JobInv, JobTypeOK, CancelMarksConsumed, Held
<1>11. PlaceStatus'
  BY <1>1, <1>3, <1>4, <1>5 DEF JobInv, PlaceStatus, Terminal
<1> QED
  BY <1>6, <1>7, <1>8, <1>9, <1>10, <1>11 DEF JobInv

\* A step of worker w that only moves it from one place of its render to
\* another one.
LEMMA RenderMoveInv ==
    ASSUME JobInv, NEW w \in Workers, NEW position \in Rendering,
           pc[w] \in Rendering, GoTo(w, position),
           UNCHANGED <<status, requestOf, requestIndex, queue, cancelled, running,
                       inSubmit, job>>
    PROVE  JobInv'
<1>1. /\ pc' \in [Workers -> Positions]
      /\ pc'[w] \in Rendering
      /\ \A v \in Workers : v # w => pc'[v] = pc[v]
  BY GoToFacts DEF JobInv, JobTypeOK, Positions, Holding
<1>2. \A k : Queued(k)' <=> Queued(k)
  BY DEF Queued
<1> USE DEF Holding, Rendering
<1>3. JobTypeOK'
  BY <1>1 DEF JobInv, JobTypeOK
<1>4. HoldersHaveJobs' /\ OneHolder'
  BY <1>1, <1>2 DEF JobInv, HoldersHaveJobs, OneHolder
<1>5. NoJobLost'
  BY <1>1, <1>2 DEF JobInv, NoJobLost, Held
<1>6. CancelledNeverRendered'
  BY <1>1 DEF JobInv, CancelledNeverRendered
<1>7. CancelMarksConsumed'
  BY <1>1, <1>2 DEF JobInv, CancelMarksConsumed, Held
<1>8. PlaceStatus'
  BY <1>1, <1>2 DEF JobInv, PlaceStatus
<1> QED
  BY <1>3, <1>4, <1>5, <1>6, <1>7, <1>8 DEF JobInv

\* A render that ends leaves the job in the hands of its worker.
LEMMA RenderEndsInv ==
    ASSUME JobInv, NEW w \in Workers, RenderEnds(w)
    PROVE  JobInv'
BY RenderMoveInv DEF RenderEnds, Rendering

\* With pending_only no job is cancelled under its render: the branch that
\* finds it in _cancelled is dead.
LEMMA AfterRenderInv ==
    ASSUME JobInv, NEW w \in Workers, NEW position \in Rendering, NEW next \in Rendering,
           AfterRender(w, position, next)
    PROVE  JobInv'
<1>1. status[job[w]] = "running"
  BY DEF JobInv, CancelledNeverRendered, AfterRender
<1>2. job[w] \notin cancelled
  BY <1>1 DEF JobInv, CancelMarksConsumed
<1> QED
  BY <1>2, RenderMoveInv DEF AfterRender

\* The update makes the job terminal while its worker still holds it.
LEMMA UpdateInv ==
    ASSUME JobInv, NEW w \in Workers, NEW position \in Rendering,
           NEW outcome \in {"completed", "failed"}, Update(w, position, outcome)
    PROVE  JobInv'
<1> USE DEF Update
<1> DEFINE h == job[w]
<1>1. h \in Jobs /\ ~Queued(h) /\ h \notin inSubmit /\ h \notin cancelled
  BY DEF JobInv, HoldersHaveJobs, OneHolder, Holding, CancelledNeverRendered,
         CancelMarksConsumed
<1>2. /\ pc' \in [Workers -> Positions]
      /\ pc'[w] = "finally"
      /\ \A v \in Workers : v # w => pc'[v] = pc[v]
  BY GoToFacts DEF JobInv, JobTypeOK, Positions, Holding
<1>3. /\ status'[h] = outcome
      /\ \A k \in Jobs : k # h => status'[k] = status[k]
  BY <1>1 DEF JobInv, JobTypeOK
<1>4. \A k : Queued(k)' <=> Queued(k)
  BY DEF Queued
<1>5. \A v \in Workers : v # w /\ pc[v] \in Holding => job[v] # h
  BY DEF JobInv, OneHolder, Holding
<1>6. JobTypeOK'
  BY <1>2 DEF JobInv, JobTypeOK, Statuses, Terminal
<1> USE DEF Holding, Rendering
<1>7. HoldersHaveJobs' /\ OneHolder'
  BY <1>2, <1>4 DEF JobInv, HoldersHaveJobs, OneHolder
<1>8. NoJobLost'
  BY <1>2, <1>3, <1>4 DEF JobInv, NoJobLost, Held
<1>9. CancelledNeverRendered'
  BY <1>2, <1>3, <1>5 DEF JobInv, CancelledNeverRendered, HoldersHaveJobs
<1>10. CancelMarksConsumed'
  BY <1>1, <1>2, <1>3, <1>4 DEF JobInv, JobTypeOK, CancelMarksConsumed, Held
<1>11. PlaceStatus'
  BY <1>1, <1>2, <1>3, <1>4, <1>5 DEF JobInv, PlaceStatus, HoldersHaveJobs, Terminal
<1> QED
  BY <1>6, <1>7, <1>8, <1>9, <1>10, <1>11 DEF JobInv

\* The finally block lets go of a job that has ended.
LEMMA FinallyInv ==
    ASSUME JobInv, NEW w \in Workers, WorkerFinally(w)
    PROVE  JobInv'
<1> USE DEF WorkerFinally
<1>1. /\ pc' \in [Workers -> Positions]
      /\ pc'[w] = "idle"
      /\ \A v \in Workers : v # w => pc'[v] = pc[v]
  BY GoToFacts DEF JobInv, JobTypeOK, Positions
<1>2. \A v \in Workers : v # w => job'[v] = job[v]
  BY DEF JobInv, JobTypeOK
<1>3. status[job[w]] \in Terminal
  BY DEF JobInv, PlaceStatus
<1>4. \A k : Queued(k)' <=> Queued(k)
  BY DEF Queued
<1> USE DEF Holding, Rendering
<1>5. JobTypeOK'
  <2>1. running' \in Nat
    BY DEF JobInv, JobTypeOK
  <2> QED
    BY <1>1, <2>1 DEF JobInv, JobTypeOK
<1>6. HoldersHaveJobs' /\ OneHolder'
  BY <1>1, <1>2, <1>4 DEF JobInv, HoldersHaveJobs, OneHolder
<1>7. NoJobLost'
  BY <1>1, <1>2, <1>4 DEF JobInv, NoJobLost, Held
<1>8. CancelledNeverRendered'
  BY <1>1, <1>2 DEF JobInv, CancelledNeverRendered
<1>9. CancelMarksConsumed'
  BY <1>1, <1>2, <1>4 DEF JobInv, CancelMarksConsumed, Held
<1>10. PlaceStatus'
  BY <1>1, <1>2, <1>4 DEF JobInv, PlaceStatus
<1> QED
  BY <1>5, <1>6, <1>7, <1>8, <1>9, <1>10 DEF JobInv

\* Every step of a worker keeps the invariant.
LEMMA WorkerStepInv ==
    ASSUME JobInv, NEW w \in Workers, WorkerStep(w)
    PROVE  JobInv'
<1>1. CASE WorkerWait(w)      BY <1>1, WaitInv
<1>2. CASE WorkerPop(w)       BY <1>2, PopInv
<1>3. CASE WorkerCheck(w)     BY <1>3, CheckInv
<1>4. CASE RenderReturned(w)  BY <1>4, AfterRenderInv DEF RenderReturned, Rendering
<1>5. CASE RenderRaised(w)    BY <1>5, AfterRenderInv DEF RenderRaised, Rendering
<1>6. CASE UpdateCompleted(w) BY <1>6, UpdateInv DEF UpdateCompleted, Rendering
<1>7. CASE UpdateFailed(w)    BY <1>7, UpdateInv DEF UpdateFailed, Rendering
<1>8. CASE WorkerFinally(w)   BY <1>8, FinallyInv
<1>9. CASE RenderEnds(w)      BY <1>9, RenderEndsInv
<1> QED
  BY <1>1, <1>2, <1>3, <1>4, <1>5, <1>6, <1>7, <1>8, <1>9 DEF WorkerStep, WorkerLocal

\* So does a step that changes nothing.
LEMMA JobStutterInv == ASSUME JobInv, UNCHANGED jobVars PROVE JobInv'
<1> USE DEF jobVars
<1>1. JobTypeOK' /\ HoldersHaveJobs'
  BY DEF JobInv, JobTypeOK, HoldersHaveJobs
<1>2. OneHolder' /\ NoJobLost' /\ CancelledNeverRendered'
  BY DEF JobInv, OneHolder, NoJobLost, CancelledNeverRendered, Queued, Held
<1>3. CancelMarksConsumed' /\ PlaceStatus'
  BY DEF JobInv, CancelMarksConsumed, PlaceStatus, Queued, Held
<1> QED BY <1>1, <1>2, <1>3 DEF JobInv

\* Every step keeps the invariant.
LEMMA JobNextInv == JobInv /\ [JobNext]_jobVars => JobInv'
<1> SUFFICES ASSUME JobInv, [JobNext]_jobVars PROVE JobInv'
  OBVIOUS
<1>1. CASE CallerStep
  BY <1>1, CreateInv, SubmitInv, CancelInv DEF CallerStep
<1>2. CASE \E w \in Workers : WorkerStep(w)
  BY <1>2, WorkerStepInv
<1>3. CASE UNCHANGED jobVars
  BY <1>3, JobStutterInv
<1> QED BY <1>1, <1>2, <1>3 DEF JobNext

\* The inductive invariant holds in every reachable state.
THEOREM JobInvariant == JobSpec => []JobInv
BY JobInitInv, JobNextInv, PTL DEF JobSpec

-----------------------------------------------------------------------------
(* Counting workers: _running_jobs and the wake-ups.                       *)

CountInv == RunningCounted /\ NoLostWakeup

\* A set of workers is finite, so it can be counted.
LEMMA WorkersFinite ==
    /\ IsFiniteSet(Busy) /\ Cardinality(Busy) \in Nat
    /\ IsFiniteSet(Idle) /\ Cardinality(Idle) \in Nat
<1>1. Busy \in SUBSET Workers /\ Idle \in SUBSET Workers
  BY DEF Busy, Idle
<1> QED BY <1>1, WorkersAssumption, FS_Subset, FS_CardinalityType

\* At the start no worker is busy and nothing is queued.
LEMMA CountInit == JobInit => CountInv
<1> SUFFICES ASSUME JobInit PROVE CountInv
  OBVIOUS
<1>1. Busy = {} /\ Waiting = {}
  BY DEF JobInit, Busy, Waiting, Holding, Rendering
<1> QED
  BY <1>1, FS_EmptySet DEF CountInv, RunningCounted, NoLostWakeup, JobInit

\* A step that moves no worker in or out of Idle, Waiting and Busy and
\* leaves the counter and the queue alone.
LEMMA CountSame ==
    ASSUME CountInv, Idle' = Idle, Waiting' = Waiting, Busy' = Busy,
           UNCHANGED <<running, queue>>
    PROVE  CountInv'
BY DEF CountInv, RunningCounted, NoLostWakeup

\* A submit wakes a worker if one sleeps.
LEMMA CountSubmit ==
    ASSUME JobTypeOK, CountInv, NEW j \in Jobs, Submit(j)
    PROVE  CountInv'
<1> USE DEF Submit
<1>1. Len(queue') = Len(queue) + 1 /\ Len(queue) \in Nat
  BY DEF JobTypeOK
<1>2. CASE Waiting = {} /\ UNCHANGED pc
  BY <1>2 DEF CountInv, RunningCounted, NoLostWakeup, Waiting, Busy
<1>3. CASE \E w \in Waiting : pc' = [pc EXCEPT ![w] = "idle"]
  <2>1. PICK w \in Waiting : pc' = [pc EXCEPT ![w] = "idle"]
    BY <1>3
  <2>2. w \in Workers /\ pc[w] = "waiting"
    BY <2>1 DEF Waiting
  <2>3. Busy' = Busy
    BY <2>1, <2>2 DEF Busy, JobTypeOK, Holding, Rendering
  <2>4. Idle' = Idle \cup {w} /\ w \notin Idle
    BY <2>1, <2>2 DEF Idle, JobTypeOK
  <2>5. Cardinality(Idle') = Cardinality(Idle) + 1
    BY <2>4, WorkersFinite, FS_AddElement
  <2>6. Len(queue') <= Cardinality(Idle')
    BY <1>1, <2>1, <2>5, WorkersFinite DEF CountInv, NoLostWakeup
  <2> QED
    BY <2>3, <2>6 DEF CountInv, RunningCounted, NoLostWakeup
<1> QED BY <1>2, <1>3 DEF NotifyOne

\* A worker goes to sleep only on an empty queue.
LEMMA CountWait ==
    ASSUME JobTypeOK, CountInv, NEW w \in Workers, WorkerWait(w)
    PROVE  CountInv'
<1> USE DEF WorkerWait, GoTo
<1>1. Busy' = Busy
  BY DEF Busy, JobTypeOK, Holding, Rendering
<1>2. Len(queue') = 0
  OBVIOUS
<1>3. Idle' = Idle \ {w}
  BY DEF Idle, JobTypeOK
<1>4. Cardinality(Idle') \in Nat
  BY <1>3, WorkersFinite, FS_RemoveElement, FS_CardinalityType
<1> QED
  BY <1>1, <1>2, <1>4 DEF CountInv, RunningCounted, NoLostWakeup

\* A pop counts its worker as busy.
LEMMA CountPop ==
    ASSUME JobTypeOK, CountInv, NEW w \in Workers, WorkerPop(w)
    PROVE  CountInv'
<1> USE DEF WorkerPop, GoTo
<1>1. Len(queue') = Len(queue) - 1 /\ Len(queue) \in Nat
  BY DEF JobTypeOK
<1>2. Busy' = Busy \cup {w} /\ w \notin Busy
  BY DEF Busy, JobTypeOK, Holding, Rendering
<1>3. Cardinality(Busy') = Cardinality(Busy) + 1
  BY <1>2, WorkersFinite, FS_AddElement
<1>4. Idle' = Idle \ {w} /\ w \in Idle
  BY DEF Idle, JobTypeOK
<1>5. Cardinality(Idle') = Cardinality(Idle) - 1
  BY <1>4, WorkersFinite, FS_RemoveElement
<1>6. Waiting' = Waiting
  BY DEF Waiting, JobTypeOK
<1> QED
  BY <1>1, <1>3, <1>5, <1>6, WorkersFinite DEF CountInv, RunningCounted, NoLostWakeup

\* The counter is positive whenever a worker reaches its finally block, so
\* the max(0, ...) in the code never hides a miscount.
LEMMA CountFinally ==
    ASSUME JobTypeOK, CountInv, NEW w \in Workers, WorkerFinally(w)
    PROVE  CountInv'
<1> USE DEF WorkerFinally, GoTo
<1>1. Busy' = Busy \ {w} /\ w \in Busy
  BY DEF Busy, JobTypeOK, Holding, Rendering
<1>2. Cardinality(Busy') = Cardinality(Busy) - 1 /\ Cardinality(Busy') \in Nat
  BY <1>1, WorkersFinite, FS_RemoveElement, FS_CardinalityType
<1>3. running' = Cardinality(Busy')
  BY <1>2, WorkersFinite DEF CountInv, RunningCounted
<1>4. Idle' = Idle \cup {w} /\ w \notin Idle
  BY DEF Idle, JobTypeOK
<1>5. Cardinality(Idle') = Cardinality(Idle) + 1
  BY <1>4, WorkersFinite, FS_AddElement
<1>6. Waiting' = Waiting
  BY DEF Waiting, JobTypeOK
<1> QED
  BY <1>3, <1>5, <1>6, WorkersFinite DEF CountInv, RunningCounted, NoLostWakeup, JobTypeOK

\* A busy worker that stays busy.
LEMMA CountBusy ==
    ASSUME JobTypeOK, CountInv, NEW w \in Workers, NEW position \in Holding,
           pc[w] \in Holding, GoTo(w, position), UNCHANGED <<running, queue>>
    PROVE  CountInv'
<1> USE DEF GoTo
<1>1. Busy' = Busy /\ Idle' = Idle /\ Waiting' = Waiting
  BY DEF Busy, Idle, Waiting, JobTypeOK, Holding, Rendering
<1> QED BY <1>1, CountSame

\* Every step keeps the counts and the wake-ups.
LEMMA CountNext == JobTypeOK /\ CountInv /\ [JobNext]_jobVars => CountInv'
<1> SUFFICES ASSUME JobTypeOK, CountInv, [JobNext]_jobVars PROVE CountInv'
  OBVIOUS
<1>1. ASSUME UNCHANGED <<pc, running, queue>> PROVE CountInv'
  BY <1>1, CountSame DEF Idle, Waiting, Busy
<1>2. CASE CallerStep
  BY <1>1, <1>2, CountSubmit DEF CallerStep, Create, Cancel
<1>3. ASSUME NEW w \in Workers, WorkerStep(w) PROVE CountInv'
  <2>1. CASE WorkerWait(w)    BY <2>1, CountWait
  <2>2. CASE WorkerPop(w)     BY <2>2, CountPop
  <2>3. CASE WorkerFinally(w) BY <2>3, CountFinally
  <2>4. CASE WorkerCheck(w)
    BY <2>4, CountBusy DEF WorkerCheck, Holding, Rendering
  <2>5. CASE RenderEnds(w)
    BY <2>5, CountBusy DEF RenderEnds, Holding, Rendering
  <2>6. CASE RenderReturned(w)
    BY <2>6, CountBusy DEF RenderReturned, AfterRender, Holding, Rendering
  <2>7. CASE RenderRaised(w)
    BY <2>7, CountBusy DEF RenderRaised, AfterRender, Holding, Rendering
  <2>8. CASE UpdateCompleted(w) \/ UpdateFailed(w)
    BY <2>8, CountBusy DEF UpdateCompleted, UpdateFailed, Update, Holding, Rendering
  <2> QED
    BY <1>3, <2>1, <2>2, <2>3, <2>4, <2>5, <2>6, <2>7, <2>8 DEF WorkerStep, WorkerLocal
<1>4. CASE UNCHANGED jobVars
  BY <1>1, <1>4 DEF jobVars
<1> QED BY <1>2, <1>3, <1>4 DEF JobNext

-----------------------------------------------------------------------------
(* The theorems.                                                           *)

\* Every variable keeps its type.
THEOREM JobTypeCorrect == JobSpec => []JobTypeOK
<1>1. JobInv => JobTypeOK
  BY DEF JobInv
<1> QED BY <1>1, JobInvariant, PTL

\* A job is in one place only, and no accepted job is lost between them.
THEOREM JobsAreNeitherSharedNorLost == JobSpec => [](OneHolder /\ NoJobLost)
<1>1. JobInv => OneHolder /\ NoJobLost
  BY DEF JobInv
<1> QED BY <1>1, JobInvariant, PTL

\* A job whose cancel call returned True is never rendered.
THEOREM CancelIsEffective == JobSpec => []CancelledNeverRendered
<1>1. JobInv => CancelledNeverRendered
  BY DEF JobInv
<1> QED BY <1>1, JobInvariant, PTL

\* _cancelled holds no mark that a worker will not consume.
THEOREM CancelMarksDoNotLeak == JobSpec => []CancelMarksConsumed
<1>1. JobInv => CancelMarksConsumed
  BY DEF JobInv
<1> QED BY <1>1, JobInvariant, PTL

\* The running count is exact and no worker sleeps through a queued job.
THEOREM CountsAndWakeups == JobSpec => [](RunningCounted /\ NoLostWakeup)
<1>1. JobInit => CountInv
  BY CountInit
<1>2. JobTypeOK /\ CountInv /\ [JobNext]_jobVars => CountInv'
  BY CountNext
<1>3. CountInv => RunningCounted /\ NoLostWakeup
  BY DEF CountInv
<1> QED BY <1>1, <1>2, <1>3, JobTypeCorrect, PTL DEF JobSpec

\* At most as many jobs say they are running as there are workers.
THEOREM RunningIsBounded == JobSpec => []RunningBounded
<1>1. ASSUME JobInv PROVE RunningBounded
  <2> DEFINE R == {j \in Jobs : status[j] = "running"}
             holder == [j \in R |-> CHOOSE w \in Workers : job[w] = j /\ pc[w] \in Holding]
  <2>1. \A j \in R : \E w \in Workers : job[w] = j /\ pc[w] \in Holding
    BY <1>1 DEF JobInv, NoJobLost, Held
  <2>2. \A j \in R : holder[j] \in Workers /\ job[holder[j]] = j
    BY <2>1
  <2>3. holder \in [R -> Workers]
    BY <2>2
  <2> HIDE DEF holder
  <2>4. \A i, k \in R : holder[i] = holder[k] => i = k
    BY <2>2
  <2>5. holder \in Injection(R, Workers)
    BY <2>3, <2>4 DEF Injection, IsInjective
  <2> QED
    BY <2>5, WorkersAssumption, FS_Injection DEF RunningBounded
<1> QED BY <1>1, JobInvariant, PTL

\* A status only moves forward, and a terminal one is final.
THEOREM StatusesMoveForward == JobSpec => StatusMovesForward
<1> DEFINE A == \A j \in Jobs : LegalChange(status[j], status'[j])
<1>1. ASSUME JobInv, [JobNext]_jobVars PROVE A
  <2> USE DEF LegalChange
  <2>1. CASE UNCHANGED jobVars
    BY <2>1 DEF jobVars
  <2>2. CASE CallerStep
    BY <1>1, <2>2 DEF CallerStep, Create, Submit, Cancel, JobInv, JobTypeOK
  <2>3. ASSUME NEW w \in Workers, WorkerStep(w) PROVE A
    <3>1. CASE UNCHANGED status
      BY <3>1
    <3>2. CASE WorkerPop(w)
      <4>1. Head(queue) \in Jobs /\ Queued(Head(queue))
        BY <1>1, <3>2, TailIn DEF WorkerPop, JobInv, JobTypeOK, OneHolder, Queued
      <4> QED
        BY <1>1, <3>2, <4>1 DEF WorkerPop, JobInv, JobTypeOK, PlaceStatus
    <3>3. CASE RenderReturned(w) \/ RenderRaised(w)
      BY <1>1, <3>3 DEF RenderReturned, RenderRaised, AfterRender, JobInv, JobTypeOK,
                        CancelledNeverRendered, CancelMarksConsumed, Rendering
    <3>4. CASE UpdateCompleted(w) \/ UpdateFailed(w)
      BY <1>1, <3>4 DEF UpdateCompleted, UpdateFailed, Update, JobInv, JobTypeOK,
                        CancelledNeverRendered, Rendering
    <3> QED
      BY <2>3, <3>1, <3>2, <3>3, <3>4
      DEF WorkerStep, WorkerLocal, WorkerWait, WorkerCheck, WorkerFinally, RenderEnds
  <2> QED BY <1>1, <2>1, <2>2, <2>3 DEF JobNext
<1>2. JobInv /\ [JobNext]_jobVars => [A]_jobVars
  BY <1>1
<1> QED BY <1>2, JobInvariant, PTL DEF JobSpec, StatusMovesForward
=============================================================================
