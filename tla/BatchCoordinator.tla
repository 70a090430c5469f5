-------------------------- MODULE BatchCoordinator --------------------------
(***************************************************************************)
(* TritonStageBatchCoordinator.execute: threads that render at the same    *)
(* time and reach the same heavy stage share one Triton call.  The first   *)
(* thread of a group leads it: it waits for a window of time or for a full *)
(* group, closes the group, runs the batch outside the lock and hands out  *)
(* the results; the others wait for their item's event.                    *)
(*                                                                         *)
(* A group is named by its leader and an item by its thread, since a       *)
(* thread is in one call at a time.  _BatchGroup.closed has no variable:   *)
(* it is set in the section that deletes the group, so no lookup sees it.  *)
(***************************************************************************)
EXTENDS Integers, Sequences, FiniteSets

CONSTANTS
    Threads,   \* the threads that render: job workers and the event loop
    Keys,      \* (stage_key, model_variant) pairs
    Batched,   \* the keys of stages enabled in stage_enabled
    MaxSize,   \* max_size
    NoGroup    \* _groups.get(key) is None

ASSUME BatchedAssumption == Batched \in SUBSET Keys
ASSUME MaxSizeAssumption == MaxSize \in Nat \ {0}
ASSUME NoGroupAssumption == NoGroup \notin Threads
\* A thread's result is told apart from no result and from an exception.
ASSUME OutcomesAssumption == Threads \cap {"unset", "error"} = {}

VARIABLES
    groups,    \* _groups: the open group of a key, by its leader
    members,   \* members[l]: items of the group led by l
    expired,   \* expired[l]: l's deadline has passed
    batch,     \* batch[l]: the list of items l has taken out of its group
    results,   \* results[l]: one result per item, or <<>> if run_batch failed
    next,      \* next[l]: the item l hands its outcome to next
    outcome,   \* outcome[t]: item.result or item.error of t's latest call
    key,       \* key[t]: the key of t's latest call
    pc         \* pc[t]: where t is in execute, "out" of it included

batchVars == <<groups, members, expired, batch, results, next, outcome, key, pc>>

(* A payload and its result are named by the thread; "error" is an         *)
(* exception of run_batch, "unset" an item nobody has served yet.          *)
Outcomes == Threads \cup {"unset", "error"}
Leading == {"lead", "run", "deliver"}

BatchInit ==
    /\ groups = [k \in Keys |-> NoGroup]
    /\ members = [t \in Threads |-> <<>>]
    /\ expired = [t \in Threads |-> FALSE]
    /\ batch = [t \in Threads |-> <<>>]
    /\ results = [t \in Threads |-> <<>>]
    /\ next = [t \in Threads |-> 1]
    /\ outcome = [t \in Threads |-> "unset"]
    /\ key \in [Threads -> Keys]
    /\ pc = [t \in Threads |-> "out"]

-----------------------------------------------------------------------------
Enter(t, k, position) ==
    /\ pc[t] = "out"
    /\ pc' = [pc EXCEPT ![t] = position]
    /\ key' = [key EXCEPT ![t] = k]
    /\ outcome' = [outcome EXCEPT ![t] = "unset"]

Bypassed(k) == k \notin Batched \/ MaxSize <= 1

\* A stage without batching calls run_batch([payload]) itself.
ExecuteAlone(t, k) ==
    /\ Bypassed(k)
    /\ Enter(t, k, "alone")
    /\ UNCHANGED <<groups, members, expired, batch, results, next>>

AloneEnds(t) ==
    /\ pc[t] = "alone"
    /\ pc' = [pc EXCEPT ![t] = "out"]
    /\ \E o \in {t, "error"} : outcome' = [outcome EXCEPT ![t] = o]
    /\ UNCHANGED <<groups, members, expired, batch, results, next, key>>

\* The first section: join the open group of the key, or open one and lead.
OpenGroup(t, k) ==
    /\ ~Bypassed(k)
    /\ groups[k] = NoGroup
    /\ Enter(t, k, "lead")
    /\ groups' = [groups EXCEPT ![k] = t]
    /\ members' = [members EXCEPT ![t] = <<t>>]
    /\ expired' = [expired EXCEPT ![t] = FALSE]
    /\ UNCHANGED <<batch, results, next>>

JoinGroup(t, k) ==
    /\ ~Bypassed(k)
    /\ groups[k] # NoGroup
    /\ Enter(t, k, "follow")
    /\ members' = [members EXCEPT ![groups[k]] = Append(@, t)]
    /\ UNCHANGED <<groups, expired, batch, results, next>>

\* The leader's window ends, whenever that is.
Deadline(t) ==
    /\ pc[t] = "lead"
    /\ ~expired[t]
    /\ expired' = [expired EXCEPT ![t] = TRUE]
    /\ UNCHANGED <<groups, members, batch, results, next, outcome, key, pc>>

\* Mutant of CloseGroup: the group stays in _groups.
CloseKeepsGroup(t) ==
    /\ pc[t] = "lead"
    /\ expired[t] \/ Len(members[t]) >= MaxSize
    /\ batch' = [batch EXCEPT ![t] = members[t]]
    /\ pc' = [pc EXCEPT ![t] = "run"]
    /\ UNCHANGED <<groups, members, expired, results, next, outcome, key>>

\* The leader gets the lock back with a full group or an expired window.
CloseGroup(t) ==
    /\ pc[t] = "lead"
    /\ expired[t] \/ Len(members[t]) >= MaxSize
    /\ groups' = IF groups[key[t]] = t THEN [groups EXCEPT ![key[t]] = NoGroup] ELSE groups
    /\ batch' = [batch EXCEPT ![t] = members[t]]
    /\ pc' = [pc EXCEPT ![t] = "run"]
    /\ UNCHANGED <<members, expired, results, next, outcome, key>>

\* Mutant of RunBatch: results come back in another order.
RunReversed(t) ==
    /\ pc[t] = "run"
    /\ results' = [results EXCEPT ![t] = [i \in 1..Len(batch[t]) |->
                                            batch[t][Len(batch[t]) + 1 - i]]]
    /\ pc' = [pc EXCEPT ![t] = "deliver"]
    /\ UNCHANGED <<groups, members, expired, batch, next, outcome, key>>

\* run_batch returns one result per payload, in order; or it raises, or
\* returns another number of results, which raises here.
RunBatch(t) ==
    /\ pc[t] = "run"
    /\ \E r \in {batch[t], <<>>} : results' = [results EXCEPT ![t] = r]
    /\ pc' = [pc EXCEPT ![t] = "deliver"]
    /\ UNCHANGED <<groups, members, expired, batch, next, outcome, key>>

\* Mutant of Deliver: after an error the other items are left alone.
DeliverFirstError(t) ==
    /\ pc[t] = "deliver"
    /\ next[t] <= Len(batch[t])
    /\ outcome' = [outcome EXCEPT ![batch[t][next[t]]] =
                     IF results[t] = <<>> THEN "error" ELSE results[t][next[t]]]
    /\ next' = [next EXCEPT ![t] = IF results[t] = <<>> THEN Len(batch[t]) + 1 ELSE @ + 1]
    /\ UNCHANGED <<groups, members, expired, batch, results, key, pc>>

\* Item after item gets its result, or the one exception, and its event is
\* set; after the last one the leader returns its own outcome.
Deliver(t) ==
    /\ pc[t] = "deliver"
    /\ next[t] <= Len(batch[t])
    /\ outcome' = [outcome EXCEPT ![batch[t][next[t]]] =
                     IF results[t] = <<>> THEN "error" ELSE results[t][next[t]]]
    /\ next' = [next EXCEPT ![t] = @ + 1]
    /\ UNCHANGED <<groups, members, expired, batch, results, key, pc>>

LeaderReturns(t) ==
    /\ pc[t] = "deliver"
    /\ next[t] > Len(batch[t])
    /\ pc' = [pc EXCEPT ![t] = "out"]
    /\ next' = [next EXCEPT ![t] = 1]
    /\ members' = [members EXCEPT ![t] = <<>>]
    /\ batch' = [batch EXCEPT ![t] = <<>>]
    /\ results' = [results EXCEPT ![t] = <<>>]
    /\ UNCHANGED <<groups, expired, outcome, key>>

\* Mutant of FollowerReturns: the wait has the leader's window as timeout.
FollowerTimesOut(t) ==
    /\ pc[t] = "follow"
    /\ pc' = [pc EXCEPT ![t] = "out"]
    /\ UNCHANGED <<groups, members, expired, batch, results, next, outcome, key>>

\* event.wait() has no timeout.
FollowerReturns(t) ==
    /\ pc[t] = "follow"
    /\ outcome[t] # "unset"
    /\ pc' = [pc EXCEPT ![t] = "out"]
    /\ UNCHANGED <<groups, members, expired, batch, results, next, outcome, key>>

-----------------------------------------------------------------------------
Execute(t) == \E k \in Keys : ExecuteAlone(t, k) \/ OpenGroup(t, k) \/ JoinGroup(t, k)

Proceed(t) ==
    \/ AloneEnds(t)
    \/ Deadline(t)
    \/ CloseGroup(t)
    \/ RunBatch(t)
    \/ Deliver(t)
    \/ LeaderReturns(t)
    \/ FollowerReturns(t)

BatchNext == \E t \in Threads : Execute(t) \/ Proceed(t)

BatchSpec == BatchInit /\ [][BatchNext]_batchVars

\* Threads are scheduled fairly, time passes and a Triton call ends (every
\* request has a timeout); nothing makes a thread enter.
BatchFairSpec == BatchSpec /\ \A t \in Threads : WF_batchVars(Proceed(t))

-----------------------------------------------------------------------------
(* Properties.                                                             *)

\* The domains of the variables.
BatchTypeOK ==
    /\ groups \in [Keys -> Threads \cup {NoGroup}]
    /\ members \in [Threads -> Seq(Threads)]
    /\ expired \in [Threads -> BOOLEAN]
    /\ batch \in [Threads -> Seq(Threads)]
    /\ results \in [Threads -> Seq(Threads)]
    /\ next \in [Threads -> Nat \ {0}]
    /\ outcome \in [Threads -> Outcomes]
    /\ key \in [Threads -> Keys]
    /\ pc \in [Threads -> Leading \cup {"out", "alone", "follow"}]

\* The indexes at which t waits in the hands of leader l.
Places(l, t) ==
    IF pc[l] = "lead"
    THEN {i \in 1..Len(members[l]) : members[l][i] = t}
    ELSE {i \in next[l]..Len(batch[l]) : batch[l][i] = t}

Leaders == {l \in Threads : pc[l] \in Leading}

\* No item is lost or served by another model: a thread that waits for its
\* item is in exactly one place of one group, whose leader has the same key
\* and will still serve it, however late it joined.
ServedByOneLeader ==
    \A t \in Threads :
        pc[t] \notin {"out", "alone"} /\ outcome[t] = "unset" =>
            \E l \in Leaders :
                /\ key[l] = key[t]
                /\ \E i \in Places(l, t) : Places(l, t) = {i}
                /\ \A m \in Leaders \ {l} : Places(m, t) = {}

\* A call gets the result of its own payload or an error, never the result
\* of another thread's.
OwnOutcome == \A t \in Threads : outcome[t] \in {t, "unset", "error"}

\* execute never returns an item that nobody has served.
NeverReturnsUnset ==
    [][\A t \in Threads : pc[t] # "out" /\ pc'[t] = "out" => outcome'[t] # "unset"]_batchVars

\* Every call returns.
EveryCallReturns == \A t \in Threads : pc[t] # "out" ~> pc[t] = "out"
=============================================================================
