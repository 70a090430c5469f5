---------------------------- MODULE JobLifecycle ----------------------------
(***************************************************************************)
(* What the asynchronous API promises about jobs, with no queue, lock or   *)
(* thread in sight.  A request_id is an idempotency key: a new job is      *)
(* accepted for it only while no earlier one is pending, running or        *)
(* completed, so a render that completed is never repeated.  A job ends    *)
(* once, and only a pending job can be cancelled.                          *)
(***************************************************************************)
CONSTANTS Jobs, Requests, NoRequest

VARIABLES status, requestOf

lifecycleVars == <<status, requestOf>>

Live == {"pending", "running", "completed"}
LiveJobs(r) == {j \in Jobs : requestOf[j] = r /\ status[j] \in Live}

LifecycleInit ==
    /\ status = [j \in Jobs |-> "absent"]
    /\ requestOf = [j \in Jobs |-> NoRequest]

Accept(j, r) ==
    /\ status[j] = "absent"
    /\ r # NoRequest => LiveJobs(r) = {}
    /\ status' = [status EXCEPT ![j] = "pending"]
    /\ requestOf' = [requestOf EXCEPT ![j] = r]

Move(j, from, to) ==
    /\ status[j] = from
    /\ status' = [status EXCEPT ![j] = to]
    /\ UNCHANGED requestOf

Start(j)   == Move(j, "pending", "running")
Abandon(j) == Move(j, "pending", "cancelled")
Finish(j)  == Move(j, "running", "completed") \/ Move(j, "running", "failed")

LifecycleNext ==
    \E j \in Jobs :
        \/ \E r \in Requests \cup {NoRequest} : Accept(j, r)
        \/ Start(j)
        \/ Abandon(j)
        \/ Finish(j)

LifecycleSpec == LifecycleInit /\ [][LifecycleNext]_lifecycleVars
=============================================================================
