--------------------------- MODULE ModelResources ---------------------------
(***************************************************************************)
(* What the render threads create at its first use and then share: the     *)
(* stage behind a LazyStageAdapter, made under a lock, and what is kept    *)
(* without one, the diffusers pipeline of the V2 shadow and the native     *)
(* Triton client.  A thread calls the stage again and again; any creation  *)
(* may raise, and fails that call.                                         *)
(***************************************************************************)
EXTENDS Naturals, FiniteSets

CONSTANTS
    Threads,
    MaxCalls,     \* bound: how often a thread calls a stage
    MaxFailures,  \* bound: how many creations raise
    None, Failed

ASSUME ResourceBounds == MaxCalls \in Nat /\ MaxFailures \in Nat
ASSUME ThreadsAssumption == IsFiniteSet(Threads)
\* None is no thread and no stage.
ASSUME NoneAssumption == None \notin Threads \cup Nat

VARIABLES
    pc,        \* where each thread is
    needs,     \* which memo the thread's call needs, "pipeline" or "client"
    lock,      \* the thread in the adapter's lock, or None
    delegate,  \* the adapter's stage, the number of the creation, or None
    label,     \* the adapter's device_label: that stage's, or None ("lazy")
    got,       \* the stage each thread was given: a number, None or Failed
    memo,      \* who created the kept pipeline and client, or None
    made,      \* how many of "stage", "pipeline" and "client" were created
    calls, failures

resourceVars ==
    <<pc, needs, lock, delegate, label, got, memo, made, calls, failures>>

Memos == {"pipeline", "client"}

ResourceInit ==
    /\ pc = [t \in Threads |-> "idle"]
    /\ needs = [t \in Threads |-> "pipeline"]
    /\ lock = None
    /\ delegate = None
    /\ label = None
    /\ got = [t \in Threads |-> None]
    /\ memo = [m \in Memos |-> None]
    /\ made = [x \in Memos \cup {"stage"} |-> 0]
    /\ calls = [t \in Threads |-> 0]
    /\ failures = 0

Goes(t, from, to) == pc[t] = from /\ pc' = [pc EXCEPT ![t] = to]

\* A local V2 shadow goes through the adapter, a Triton stage to the client.
Call(t) ==
    /\ calls[t] < MaxCalls
    /\ calls' = [calls EXCEPT ![t] = @ + 1]
    /\ \E m \in Memos :
          /\ needs' = [needs EXCEPT ![t] = m]
          /\ Goes(t, "idle", IF m = "pipeline" THEN "first test" ELSE "look")
    /\ got' = [got EXCEPT ![t] = None]
    /\ UNCHANGED <<lock, delegate, label, memo, made, failures>>

-----------------------------------------------------------------------------
(* LazyStageAdapter._get_delegate.                                         *)

FirstTest(t) ==
    /\ Goes(t, "first test", IF delegate = None THEN "lock" ELSE "return")
    /\ UNCHANGED <<needs, lock, delegate, label, got, memo, made, calls, failures>>

Lock(t) ==
    /\ Goes(t, "lock", "second test")
    /\ lock = None
    /\ lock' = t
    /\ UNCHANGED <<needs, delegate, label, got, memo, made, calls, failures>>

\* Mutant: what was seen before the lock is taken for true.
SecondTestLeftOut(t) ==
    /\ Goes(t, "second test", "factory")
    /\ UNCHANGED <<needs, lock, delegate, label, got, memo, made, calls, failures>>

SecondTest(t) ==
    /\ Goes(t, "second test", IF delegate = None THEN "factory" ELSE "unlock")
    /\ UNCHANGED <<needs, lock, delegate, label, got, memo, made, calls, failures>>

FactoryReturns(t) ==
    /\ Goes(t, "factory", "label")
    /\ made' = [made EXCEPT !["stage"] = @ + 1]
    /\ delegate' = made'["stage"]
    /\ UNCHANGED <<needs, lock, label, got, memo, calls, failures>>

\* Mutant: the lock is not released.
RaisesInLock(t) ==
    /\ failures < MaxFailures
    /\ failures' = failures + 1
    /\ Goes(t, "factory", "idle")
    /\ got' = [got EXCEPT ![t] = Failed]
    /\ UNCHANGED <<needs, lock, delegate, label, memo, made, calls>>

\* The exception leaves the with statement and fails the call; the next one
\* tries again.
FactoryRaises(t) ==
    /\ failures < MaxFailures
    /\ failures' = failures + 1
    /\ Goes(t, "factory", "idle")
    /\ lock' = None
    /\ got' = [got EXCEPT ![t] = Failed]
    /\ UNCHANGED <<needs, delegate, label, memo, made, calls>>

SetLabel(t) ==
    /\ Goes(t, "label", "unlock")
    /\ label' = delegate
    /\ UNCHANGED <<needs, lock, delegate, got, memo, made, calls, failures>>

Unlock(t) ==
    /\ Goes(t, "unlock", "return")
    /\ lock' = None
    /\ UNCHANGED <<needs, delegate, label, got, memo, made, calls, failures>>

\* self._delegate is read once more, without the lock.
Return(t) ==
    /\ Goes(t, "return", "look")
    /\ got' = [got EXCEPT ![t] = delegate]
    /\ UNCHANGED <<needs, lock, delegate, label, memo, made, calls, failures>>

-----------------------------------------------------------------------------
(* _load_pipeline and _get_native_http_client: look, create, keep, each in *)
(* its own time.                                                           *)

Look(t) ==
    /\ Goes(t, "look", IF memo[needs[t]] = None THEN "create" ELSE "idle")
    /\ UNCHANGED <<needs, lock, delegate, label, got, memo, made, calls, failures>>

CreateReturns(t) ==
    /\ Goes(t, "create", "keep")
    /\ made' = [made EXCEPT ![needs[t]] = @ + 1]
    /\ UNCHANGED <<needs, lock, delegate, label, got, memo, calls, failures>>

CreateRaises(t) ==
    /\ failures < MaxFailures
    /\ failures' = failures + 1
    /\ Goes(t, "create", "idle")
    /\ UNCHANGED <<needs, lock, delegate, label, got, memo, made, calls>>

\* Mutant: what was created is used and not kept.
KeepNothing(t) ==
    /\ Goes(t, "keep", "idle")
    /\ UNCHANGED <<needs, lock, delegate, label, got, memo, made, calls, failures>>

\* The last to keep wins.
Keep(t) ==
    /\ Goes(t, "keep", "idle")
    /\ memo' = [memo EXCEPT ![needs[t]] = t]
    /\ UNCHANGED <<needs, lock, delegate, label, got, made, calls, failures>>

-----------------------------------------------------------------------------
\* Everything a thread does within a call; a creation ends one way or the
\* other.
Step(t) ==
    \/ FirstTest(t) \/ Lock(t) \/ SecondTest(t) \/ FactoryReturns(t) \/ FactoryRaises(t)
    \/ SetLabel(t) \/ Unlock(t) \/ Return(t)
    \/ Look(t) \/ CreateReturns(t) \/ CreateRaises(t) \/ Keep(t)

ResourceNext == \E t \in Threads : Call(t) \/ Step(t)

\* The operating system runs every thread, and a creation ends.  The lock is
\* not fair, and need not be: it is taken only until a creation succeeds.
ResourceSpec ==
    /\ ResourceInit
    /\ [][ResourceNext]_resourceVars
    /\ \A t \in Threads : WF_resourceVars(Step(t))

-----------------------------------------------------------------------------
(* Properties.                                                             *)

\* The domains of the variables.
ResourceTypeOK ==
    /\ pc \in [Threads -> {"idle", "first test", "lock", "second test", "factory", "label",
                           "unlock", "return", "look", "create", "keep"}]
    /\ needs \in [Threads -> Memos]
    /\ lock \in Threads \cup {None}
    /\ delegate \in Nat \cup {None}
    /\ label \in Nat \cup {None}
    /\ got \in [Threads -> Nat \cup {None, Failed}]
    /\ memo \in [Memos -> Threads \cup {None}]
    /\ made \in [Memos \cup {"stage"} -> Nat]
    /\ calls \in [Threads -> 0..MaxCalls]
    /\ failures \in 0..MaxFailures

\* A stage behind an adapter is created once, and every thread uses that one,
\* also when threads come while it is created and when creations fail before.
Once == INSTANCE OnceCell WITH
            Threads <- Threads, None <- None, Failed <- Failed, cell <- delegate, got <- got
AdapterIsOnceCell == Once!OnceSpec

\* What is kept without a lock may be created twice, but no more often than
\* threads come together at its first use: no thread creates it again.
CreationsAreBounded ==
    \A m \in Memos : made[m] <= Cardinality(Threads)

\* Every call ends, with a stage that runs or with the exception of a creation.
EveryUseEnds == \A t \in Threads : pc[t] # "idle" ~> pc[t] = "idle"
=============================================================================
