------------------------ MODULE ModelResourcesProofs ------------------------
(***************************************************************************)
(* Theorems about ModelResources, for any finite set of threads, any       *)
(* number of calls and any number of creations that raise.                 *)
(***************************************************************************)
EXTENDS ModelResources, FiniteSetTheorems, TLAPS

\* The positions inside the adapter's lock.
InLock == {"second test", "factory", "label", "unlock"}

\* The lock is held by exactly the thread that is inside it.
LockHeld == \A t \in Threads : pc[t] \in InLock <=> lock = t

\* The factory runs only while there is no stage, and whoever is past it
\* leaves with one: the second test sees what was true when the lock was got.
StageKnown ==
    \A t \in Threads :
        /\ pc[t] = "factory" => delegate = None
        /\ pc[t] \in {"label", "unlock", "return"} => delegate # None

\* The inductive invariant of the adapter.
AdapterInv ==
    /\ ResourceTypeOK
    /\ LockHeld
    /\ StageKnown

\* The threads that are creating a pipeline or client, and those that have
\* created one and not kept it yet.
Creating(m) == {t \in Threads : pc[t] = "create" /\ needs[t] = m}
Keeping(m)  == {t \in Threads : pc[t] = "keep" /\ needs[t] = m}

\* Until something is kept, what was made is in the hands of its makers;
\* from then on no thread starts to make another, so those that are at it
\* are all that can come.
CreationsLeft ==
    \A m \in Memos :
        IF memo[m] = None
        THEN made[m] = Cardinality(Keeping(m))
        ELSE made[m] + Cardinality(Creating(m)) <= Cardinality(Threads)

\* The invariant holds before the first call.
LEMMA AdapterInitInv == ResourceInit => AdapterInv
<1> SUFFICES ASSUME ResourceInit PROVE AdapterInv
  OBVIOUS
<1> USE DEF ResourceInit
<1>1. ResourceTypeOK
  BY ResourceBounds DEF ResourceTypeOK, Memos
<1>2. LockHeld /\ StageKnown
  BY NoneAssumption DEF LockHeld, StageKnown, InLock
<1> QED BY <1>1, <1>2 DEF AdapterInv

\* A stage that was made is a number, so it is not None.
LEMMA StageIsNumber ==
    ASSUME ResourceTypeOK, NEW t \in Threads, FactoryReturns(t)
    PROVE  made' \in [Memos \cup {"stage"} -> Nat] /\ delegate' \in Nat
<1>1. made \in [Memos \cup {"stage"} -> Nat]
  BY DEF ResourceTypeOK
<1>2. made' \in [Memos \cup {"stage"} -> Nat]
  BY <1>1 DEF FactoryReturns
<1> QED
  BY <1>2 DEF FactoryReturns

\* Every step keeps the types.
LEMMA ResourceTypeNext == ResourceTypeOK /\ [ResourceNext]_resourceVars => ResourceTypeOK'
<1> SUFFICES ASSUME ResourceTypeOK, [ResourceNext]_resourceVars PROVE ResourceTypeOK'
  OBVIOUS
<1> USE DEF Goes
<1>1. ASSUME NEW t \in Threads, Call(t) PROVE ResourceTypeOK'
  <2>1. calls \in [Threads -> 0..MaxCalls]
    BY DEF ResourceTypeOK
  <2>2. calls' \in [Threads -> 0..MaxCalls]
    <3>1. calls[t] < MaxCalls /\ calls' = [calls EXCEPT ![t] = @ + 1]
      BY <1>1 DEF Call
    <3> QED
      BY <2>1, <3>1, ResourceBounds
  <2>3. needs' \in [Threads -> Memos] /\ got' \in [Threads -> Nat \cup {None, Failed}]
    BY <1>1 DEF Call, ResourceTypeOK
  <2> QED
    BY <1>1, <2>2, <2>3 DEF Call, ResourceTypeOK
<1>2. ASSUME NEW t \in Threads,
             FirstTest(t) \/ Lock(t) \/ SecondTest(t) \/ SetLabel(t) \/ Unlock(t)
      PROVE  ResourceTypeOK'
  BY <1>2 DEF FirstTest, Lock, SecondTest, SetLabel, Unlock, ResourceTypeOK
<1>3. ASSUME NEW t \in Threads, FactoryReturns(t) PROVE ResourceTypeOK'
  BY <1>3, StageIsNumber DEF FactoryReturns, ResourceTypeOK
<1>4. ASSUME NEW t \in Threads, FactoryRaises(t) \/ CreateRaises(t) PROVE ResourceTypeOK'
  <2>1. failures \in 0..MaxFailures
    BY DEF ResourceTypeOK
  <2>2. failures' \in 0..MaxFailures
    BY <1>4, <2>1, ResourceBounds DEF FactoryRaises, CreateRaises
  <2> QED
    BY <1>4, <2>2 DEF FactoryRaises, CreateRaises, ResourceTypeOK
<1>5. ASSUME NEW t \in Threads, Return(t) \/ Look(t) PROVE ResourceTypeOK'
  BY <1>5 DEF Return, Look, ResourceTypeOK
<1>6. ASSUME NEW t \in Threads, Keep(t) PROVE ResourceTypeOK'
  BY <1>6 DEF Keep, ResourceTypeOK
<1>7. ASSUME NEW t \in Threads, CreateReturns(t) PROVE ResourceTypeOK'
  <2>1. made \in [Memos \cup {"stage"} -> Nat] /\ needs[t] \in Memos
    BY DEF ResourceTypeOK
  <2>2. made' \in [Memos \cup {"stage"} -> Nat]
    BY <1>7, <2>1 DEF CreateReturns
  <2> QED
    BY <1>7, <2>2 DEF CreateReturns, ResourceTypeOK
<1>8. CASE UNCHANGED resourceVars
  BY <1>8 DEF resourceVars, ResourceTypeOK
<1> QED
  BY <1>1, <1>2, <1>3, <1>4, <1>5, <1>6, <1>7, <1>8 DEF ResourceNext, Step

\* A step of t outside the lock, to a place outside it.
LEMMA OutsideLock ==
    ASSUME AdapterInv, NEW t \in Threads, NEW from, NEW to, Goes(t, from, to),
           from \notin InLock, to \notin InLock, UNCHANGED <<lock, delegate>>,
           to = "return" => delegate # None
    PROVE  LockHeld' /\ StageKnown'
<1>1. \A s \in Threads : pc'[s] = IF s = t THEN to ELSE pc[s]
  BY DEF AdapterInv, ResourceTypeOK, Goes
<1> QED
  BY <1>1 DEF AdapterInv, LockHeld, StageKnown, Goes, InLock

\* Every step keeps the invariant of the adapter.
LEMMA AdapterNextInv == AdapterInv /\ [ResourceNext]_resourceVars => AdapterInv'
<1> SUFFICES ASSUME AdapterInv, [ResourceNext]_resourceVars PROVE AdapterInv'
  OBVIOUS
<1>1. ResourceTypeOK'
  BY ResourceTypeNext DEF AdapterInv
<1>2. ASSUME NEW t \in Threads,
             \/ Call(t) \/ FirstTest(t) \/ Return(t)
             \/ Look(t) \/ CreateReturns(t) \/ CreateRaises(t) \/ Keep(t)
      PROVE  LockHeld' /\ StageKnown'
  <2>1. CASE Call(t)           BY <2>1, OutsideLock DEF Call, InLock
  <2>2. CASE FirstTest(t)      BY <2>2, OutsideLock DEF FirstTest, InLock
  <2>3. CASE Return(t)         BY <2>3, OutsideLock DEF Return, InLock
  <2>4. CASE Look(t)           BY <2>4, OutsideLock DEF Look, InLock
  <2>5. CASE CreateReturns(t)  BY <2>5, OutsideLock DEF CreateReturns, InLock
  <2>6. CASE CreateRaises(t)   BY <2>6, OutsideLock DEF CreateRaises, InLock
  <2>7. CASE Keep(t)           BY <2>7, OutsideLock DEF Keep, InLock
  <2> QED BY <1>2, <2>1, <2>2, <2>3, <2>4, <2>5, <2>6, <2>7
<1>3. ASSUME NEW t \in Threads,
             \/ Lock(t) \/ SecondTest(t) \/ FactoryReturns(t)
             \/ FactoryRaises(t) \/ SetLabel(t) \/ Unlock(t)
      PROVE  LockHeld' /\ StageKnown'
  <2> USE DEF AdapterInv, ResourceTypeOK, LockHeld, StageKnown, InLock, Goes
  <2>1. CASE Lock(t)
    BY <2>1, NoneAssumption DEF Lock
  <2>2. CASE SecondTest(t)
    BY <2>2 DEF SecondTest
  <2>3. CASE FactoryReturns(t)
    BY <2>3, StageIsNumber, NoneAssumption DEF FactoryReturns
  <2>4. CASE FactoryRaises(t)
    BY <2>4, NoneAssumption DEF FactoryRaises
  <2>5. CASE SetLabel(t)
    BY <2>5 DEF SetLabel
  <2>6. CASE Unlock(t)
    BY <2>6, NoneAssumption DEF Unlock
  <2> QED BY <1>3, <2>1, <2>2, <2>3, <2>4, <2>5, <2>6
<1>4. CASE UNCHANGED resourceVars
  BY <1>1, <1>4 DEF resourceVars, AdapterInv, LockHeld, StageKnown
<1> QED
  BY <1>1, <1>2, <1>3, <1>4 DEF ResourceNext, Step, AdapterInv

\* The inductive invariant of the adapter holds in every reachable state.
THEOREM AdapterInvariant == ResourceSpec => []AdapterInv
BY AdapterInitInv, AdapterNextInv, PTL DEF ResourceSpec

\* Every variable keeps its type.
THEOREM ResourceTypeCorrect == ResourceSpec => []ResourceTypeOK
<1>1. AdapterInv => ResourceTypeOK
  BY DEF AdapterInv
<1> QED BY <1>1, AdapterInvariant, PTL

\* A stage behind an adapter is created once, and every call that does not
\* fail in the factory is given that one.
THEOREM AdapterImplementsOnceCell == ResourceSpec => AdapterIsOnceCell
<1>1. ResourceInit => Once!OnceInit
  BY DEF ResourceInit, Once!OnceInit
<1>2. AdapterInv /\ [ResourceNext]_resourceVars => [Once!OnceNext]_(Once!onceVars)
  <2> SUFFICES ASSUME AdapterInv, ResourceNext
               PROVE  Once!OnceNext \/ UNCHANGED <<delegate, got>>
    BY DEF resourceVars, Once!onceVars
  <2> USE DEF Once!OnceNext, Goes
  <2>1. ASSUME NEW t \in Threads, Call(t) PROVE Once!OnceNext
    BY <2>1 DEF Call, Once!Forget
  <2>2. ASSUME NEW t \in Threads, FactoryReturns(t) PROVE Once!OnceNext
    <3>1. delegate = None
      BY <2>2 DEF FactoryReturns, AdapterInv, StageKnown
    <3>2. delegate' \in Nat
      BY <2>2, StageIsNumber DEF AdapterInv
    <3> QED
      BY <2>2, <3>1, <3>2 DEF FactoryReturns, Once!Create
  <2>3. ASSUME NEW t \in Threads, FactoryRaises(t) PROVE Once!OnceNext
    <3>1. delegate = None
      BY <2>3 DEF FactoryRaises, AdapterInv, StageKnown
    <3> QED
      BY <2>3, <3>1 DEF FactoryRaises, Once!UseFails
  <2>4. ASSUME NEW t \in Threads, Return(t) PROVE Once!OnceNext
    <3>1. delegate # None
      BY <2>4 DEF Return, AdapterInv, StageKnown
    <3> QED
      BY <2>4, <3>1 DEF Return, Once!Use
  <2>5. ASSUME NEW t \in Threads,
               \/ FirstTest(t) \/ Lock(t) \/ SecondTest(t) \/ SetLabel(t) \/ Unlock(t)
               \/ Look(t) \/ CreateReturns(t) \/ CreateRaises(t) \/ Keep(t)
        PROVE  UNCHANGED <<delegate, got>>
    BY <2>5 DEF FirstTest, Lock, SecondTest, SetLabel, Unlock, Look, CreateReturns,
                CreateRaises, Keep
  <2> QED
    BY <2>1, <2>2, <2>3, <2>4, <2>5 DEF ResourceNext, Step
<1> QED
  BY <1>1, <1>2, AdapterInvariant, PTL DEF ResourceSpec, AdapterIsOnceCell, Once!OnceSpec

-----------------------------------------------------------------------------
(* Counting what is created without a lock.                                *)

\* A set of threads is finite, and no larger than the set of all.
LEMMA ThreadsCounted ==
    /\ Cardinality(Threads) \in Nat
    /\ \A S : S \subseteq Threads =>
         IsFiniteSet(S) /\ Cardinality(S) \in Nat /\ Cardinality(S) <= Cardinality(Threads)
BY ThreadsAssumption, FS_Subset, FS_CardinalityType

\* A step that leaves the makers, what they made and what is kept alone.
LEMMA CreationsSame ==
    ASSUME CreationsLeft, UNCHANGED memo,
           \A m \in Memos : Creating(m)' = Creating(m) /\ Keeping(m)' = Keeping(m)
                              /\ made'[m] = made[m]
    PROVE  CreationsLeft'
BY DEF CreationsLeft

\* A step of a thread that is not at a memo, to a place that is none either.
LEMMA OutsideMemo ==
    ASSUME ResourceTypeOK, CreationsLeft, NEW t \in Threads, NEW from, NEW to,
           Goes(t, from, to), from \notin {"create", "keep"}, to \notin {"create", "keep"},
           UNCHANGED memo, \A m \in Memos : made'[m] = made[m],
           \A s \in Threads : s # t => needs'[s] = needs[s]
    PROVE  CreationsLeft'
<1>1. \A s \in Threads : pc'[s] = IF s = t THEN to ELSE pc[s]
  BY DEF ResourceTypeOK, Goes
<1>2. \A m \in Memos : Creating(m)' = Creating(m) /\ Keeping(m)' = Keeping(m)
  BY <1>1 DEF Creating, Keeping, Goes
<1> QED BY <1>2, CreationsSame

\* The types that the counting below uses.
LEMMA CountTypes ==
    ASSUME ResourceTypeOK
    PROVE  /\ \A m \in Memos : /\ made[m] \in Nat
                               /\ Keeping(m) \subseteq Threads
                               /\ Creating(m) \subseteq Threads
           /\ \A t \in Threads : needs[t] \in Memos
           /\ DOMAIN made = Memos \cup {"stage"} /\ DOMAIN memo = Memos /\ DOMAIN pc = Threads
BY DEF ResourceTypeOK, Keeping, Creating

\* The look at an empty memo lets one more thread create.
LEMMA LookCounted ==
    ASSUME ResourceTypeOK, CreationsLeft, NEW t \in Threads, Look(t)
    PROVE  CreationsLeft'
<1>1. \A m \in Memos : Keeping(m)' = Keeping(m)
  BY CountTypes DEF Look, Goes, Keeping
<1>2. \A m \in Memos : memo[m] # None => Creating(m)' = Creating(m)
  BY CountTypes DEF Look, Goes, Creating
<1>3. memo' = memo /\ made' = made
  BY DEF Look
<1> QED BY <1>1, <1>2, <1>3 DEF CreationsLeft

\* A creation that returns moves its thread from creating to keeping.
LEMMA CreateReturnsCounted ==
    ASSUME ResourceTypeOK, CreationsLeft, NEW t \in Threads, CreateReturns(t)
    PROVE  CreationsLeft'
<1>1. PICK n \in Memos : n = needs[t]
  BY CountTypes
<1>2. made'[n] = made[n] + 1 /\ made[n] \in Nat /\ memo' = memo
  BY <1>1, CountTypes DEF CreateReturns
<1>3. \A m \in Memos \ {n} : /\ Creating(m)' = Creating(m)
                             /\ Keeping(m)' = Keeping(m)
                             /\ made'[m] = made[m]
  BY <1>1, CountTypes DEF CreateReturns, Goes, Creating, Keeping
<1>4. Keeping(n)' = Keeping(n) \cup {t} /\ t \notin Keeping(n)
  BY <1>1, CountTypes DEF CreateReturns, Goes, Keeping
<1>5. Creating(n)' = Creating(n) \ {t} /\ t \in Creating(n)
  BY <1>1, CountTypes DEF CreateReturns, Goes, Creating
<1>6. /\ IsFiniteSet(Keeping(n)) /\ Cardinality(Keeping(n)) \in Nat
      /\ IsFiniteSet(Creating(n)) /\ Cardinality(Creating(n)) \in Nat
  BY CountTypes, ThreadsCounted
<1>7. Cardinality(Keeping(n)') = Cardinality(Keeping(n)) + 1
  BY <1>4, <1>6, FS_AddElement
<1>8. Cardinality(Creating(n)') = Cardinality(Creating(n)) - 1
  BY <1>5, <1>6, FS_RemoveElement
<1> QED BY <1>2, <1>3, <1>6, <1>7, <1>8, ThreadsCounted DEF CreationsLeft

\* A creation that raises takes its thread out.
LEMMA CreateRaisesCounted ==
    ASSUME ResourceTypeOK, CreationsLeft, NEW t \in Threads, CreateRaises(t)
    PROVE  CreationsLeft'
<1>1. \A m \in Memos : Keeping(m)' = Keeping(m) /\ Creating(m)' \subseteq Creating(m)
  BY CountTypes DEF CreateRaises, Goes, Keeping, Creating
<1>2. \A m \in Memos : /\ Cardinality(Creating(m)') <= Cardinality(Creating(m))
                       /\ Cardinality(Creating(m)') \in Nat
                       /\ Cardinality(Creating(m)) \in Nat
  BY <1>1, CountTypes, ThreadsCounted, FS_Subset, FS_CardinalityType
<1>3. memo' = memo /\ made' = made
  BY DEF CreateRaises
<1> QED BY <1>1, <1>2, <1>3, CountTypes, ThreadsCounted DEF CreationsLeft

\* The first to keep: those who have made one and those who are at it are
\* different threads.
LEMMA KeepCounted ==
    ASSUME ResourceTypeOK, CreationsLeft, NEW t \in Threads, Keep(t)
    PROVE  CreationsLeft'
<1>1. PICK n \in Memos : n = needs[t]
  BY CountTypes
<1>2. /\ made' = made
      /\ memo'[n] # None
      /\ \A m \in Memos \ {n} : memo'[m] = memo[m]
  BY <1>1, CountTypes, NoneAssumption DEF Keep
<1>3. /\ \A m \in Memos : Creating(m)' = Creating(m)
      /\ \A m \in Memos \ {n} : Keeping(m)' = Keeping(m)
  BY <1>1, CountTypes DEF Keep, Goes, Creating, Keeping
<1>4. Cardinality(Keeping(n)) + Cardinality(Creating(n)) <= Cardinality(Threads)
  <2>1. Keeping(n) \cap Creating(n) = {}
    BY DEF Keeping, Creating
  <2>2. /\ IsFiniteSet(Keeping(n)) /\ Cardinality(Keeping(n)) \in Nat
        /\ IsFiniteSet(Creating(n)) /\ Cardinality(Creating(n)) \in Nat
        /\ Keeping(n) \cup Creating(n) \subseteq Threads
    BY CountTypes, ThreadsCounted
  <2>3. Cardinality(Keeping(n) \cup Creating(n))
          = Cardinality(Keeping(n)) + Cardinality(Creating(n)) - Cardinality({})
    BY <2>1, <2>2, FS_Union
  <2>4. Cardinality(Keeping(n) \cup Creating(n)) <= Cardinality(Threads)
    BY <2>2, ThreadsCounted
  <2> QED
    BY <2>2, <2>3, <2>4, FS_EmptySet
<1>5. made'[n] + Cardinality(Creating(n)') <= Cardinality(Threads)
  BY <1>2, <1>3, <1>4 DEF CreationsLeft
<1> QED BY <1>2, <1>3, <1>5 DEF CreationsLeft

\* Every step keeps the count of what can still be created.
LEMMA CreationNextInv == ResourceTypeOK /\ CreationsLeft /\ [ResourceNext]_resourceVars => CreationsLeft'
<1> SUFFICES ASSUME ResourceTypeOK, CreationsLeft, [ResourceNext]_resourceVars
             PROVE  CreationsLeft'
  OBVIOUS
<1>1. ASSUME NEW t \in Threads, Look(t) \/ CreateReturns(t) \/ CreateRaises(t) \/ Keep(t)
      PROVE  CreationsLeft'
  BY <1>1, LookCounted, CreateReturnsCounted, CreateRaisesCounted, KeepCounted
<1>2. ASSUME NEW t \in Threads, Call(t) PROVE CreationsLeft'
  <2>1. PICK m \in Memos : /\ needs' = [needs EXCEPT ![t] = m]
                           /\ Goes(t, "idle", IF m = "pipeline" THEN "first test" ELSE "look")
    BY <1>2 DEF Call
  <2> QED
    BY <1>2, <2>1, OutsideMemo DEF Call, ResourceTypeOK
<1>3. ASSUME NEW t \in Threads,
             \/ FirstTest(t) \/ Lock(t) \/ SecondTest(t) \/ SetLabel(t)
             \/ Unlock(t) \/ Return(t)
      PROVE  CreationsLeft'
  BY <1>3, OutsideMemo DEF FirstTest, Lock, SecondTest, SetLabel, Unlock, Return
<1>4. ASSUME NEW t \in Threads, FactoryReturns(t) \/ FactoryRaises(t)
      PROVE  CreationsLeft'
  BY <1>4, OutsideMemo DEF FactoryReturns, FactoryRaises, ResourceTypeOK, Memos
<1>5. CASE UNCHANGED resourceVars
  BY <1>5, CreationsSame DEF resourceVars, Creating, Keeping
<1> QED
  BY <1>1, <1>2, <1>3, <1>4, <1>5 DEF ResourceNext, Step

\* No more pipelines or clients are ever created than there are threads,
\* however often they call and whichever creations raise.
THEOREM CreationsBounded == ResourceSpec => []CreationsAreBounded
<1>1. ResourceInit => CreationsLeft
  <2> SUFFICES ASSUME ResourceInit PROVE CreationsLeft
    OBVIOUS
  <2>1. \A m \in Memos : Keeping(m) = {} /\ made[m] = 0 /\ memo[m] = None
    BY DEF ResourceInit, Keeping
  <2> QED
    BY <2>1, FS_EmptySet DEF CreationsLeft
<1>2. ResourceTypeOK /\ CreationsLeft /\ [ResourceNext]_resourceVars => CreationsLeft'
  BY CreationNextInv
<1>3. ResourceTypeOK /\ CreationsLeft => CreationsAreBounded
  <2> SUFFICES ASSUME ResourceTypeOK, CreationsLeft, NEW m \in Memos
               PROVE  made[m] <= Cardinality(Threads)
    BY DEF CreationsAreBounded
  <2>1. Keeping(m) \subseteq Threads /\ Creating(m) \subseteq Threads /\ made[m] \in Nat
    BY DEF Keeping, Creating, ResourceTypeOK
  <2>2. /\ Cardinality(Keeping(m)) <= Cardinality(Threads)
        /\ Cardinality(Creating(m)) \in Nat
    BY <2>1, ThreadsCounted
  <2> QED
    BY <2>1, <2>2, ThreadsCounted DEF CreationsLeft
<1> QED
  BY <1>1, <1>2, <1>3, ResourceTypeCorrect, PTL DEF ResourceSpec
=============================================================================
