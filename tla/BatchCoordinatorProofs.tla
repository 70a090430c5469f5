----------------------- MODULE BatchCoordinatorProofs -----------------------
(***************************************************************************)
(* Theorems about BatchCoordinator, for any set of threads and keys and    *)
(* any size of a group.                                                    *)
(***************************************************************************)
EXTENDS BatchCoordinator, TLAPS

\* The items of l's group, and the indexes of those it has yet to serve.
Items(l) == IF pc[l] = "lead" THEN members[l] ELSE batch[l]
Unserved(l) == next[l]..Len(Items(l))

\* t's item has a place in a group and has not been served there.
Awaited(t) == \E l \in Leaders : \E i \in Unserved(l) : Items(l)[i] = t

\* A group that can be joined has a leader of its key that is still waiting
\* for members.
OpenGroupsLead ==
    \A k \in Keys : groups[k] # NoGroup => pc[groups[k]] = "lead" /\ key[groups[k]] = k

\* Nothing is handed out before the batch has run.
NothingHandedOut == \A t \in Threads : pc[t] # "deliver" => next[t] = 1

\* A leader's own item is the first of its group: once it hands out results
\* it has its own.  What it hands out is the batch's results or one error.
LeaderFirst ==
    \A l \in Leaders :
        /\ Len(Items(l)) >= 1
        /\ Items(l)[1] = l
        /\ next[l] > 1 => outcome[l] # "unset"
        /\ pc[l] = "deliver" => results[l] \in {batch[l], <<>>}

\* The members of a group are of its key.
SameKey == \A l \in Leaders : \A i \in Unserved(l) : key[Items(l)[i]] = key[l]

\* No item has two unserved places.
OnePlace ==
    \A l, m \in Leaders : \A i \in Unserved(l), j \in Unserved(m) :
        Items(l)[i] = Items(m)[j] => l = m /\ i = j

\* Exactly the threads that wait for a result are awaited by a leader.
WaitersAwaited ==
    \A t \in Threads : Awaited(t) <=> pc[t] \notin {"out", "alone"} /\ outcome[t] = "unset"

\* The inductive invariant.
BatchInv ==
    /\ BatchTypeOK
    /\ OpenGroupsLead
    /\ NothingHandedOut
    /\ LeaderFirst
    /\ SameKey
    /\ OnePlace
    /\ WaitersAwaited
    /\ OwnOutcome

-----------------------------------------------------------------------------
\* The invariant holds before the first call.
LEMMA BatchInitInv == BatchInit => BatchInv
<1> SUFFICES ASSUME BatchInit PROVE BatchInv
  OBVIOUS
<1> USE DEF BatchInit
<1>1. BatchTypeOK
  BY DEF BatchTypeOK, Outcomes
<1>2. Leaders = {}
  BY DEF Leaders, Leading
<1>3. OpenGroupsLead /\ NothingHandedOut /\ OwnOutcome
  BY DEF OpenGroupsLead, NothingHandedOut, OwnOutcome
<1>4. LeaderFirst /\ SameKey /\ OnePlace /\ WaitersAwaited
  BY <1>2 DEF LeaderFirst, SameKey, OnePlace, WaitersAwaited, Awaited
<1> QED BY <1>1, <1>3, <1>4 DEF BatchInv

\* What waits in a group is a thread.
LEMMA ItemsAreThreads ==
    ASSUME BatchTypeOK, NEW l \in Threads
    PROVE  Items(l) \in Seq(Threads) /\ \A i \in Unserved(l) : Items(l)[i] \in Threads
<1>1. Items(l) \in Seq(Threads) /\ next[l] \in Nat \ {0}
  BY DEF BatchTypeOK, Items
<1> QED
  BY <1>1 DEF Unserved

\* What Enter changes.
LEMMA EnterTypes ==
    ASSUME BatchTypeOK, NEW t \in Threads, NEW k \in Keys,
           NEW position \in {"alone", "lead", "follow"}, Enter(t, k, position)
    PROVE  /\ pc' \in [Threads -> Leading \cup {"out", "alone", "follow"}]
           /\ key' \in [Threads -> Keys]
           /\ outcome' \in [Threads -> Outcomes]
BY DEF Enter, BatchTypeOK, Outcomes, Leading

\* The item that is handed out next, and what it is given.
LEMMA Delivered ==
    ASSUME BatchInv, NEW t \in Threads, Deliver(t)
    PROVE  /\ batch[t][next[t]] \in Threads
           /\ next[t] \in 1..Len(batch[t])
           /\ \E given \in {batch[t][next[t]], "error"} :
                outcome' = [outcome EXCEPT ![batch[t][next[t]]] = given]
<1>1. /\ next[t] \in Nat \ {0} /\ batch[t] \in Seq(Threads)
      /\ next[t] <= Len(batch[t])
  BY DEF Deliver, BatchInv, BatchTypeOK
<1>2. next[t] \in 1..Len(batch[t]) /\ batch[t][next[t]] \in Threads
  BY <1>1
<1>3. results[t] \in {batch[t], <<>>}
  BY DEF Deliver, BatchInv, LeaderFirst, Leaders, Leading
<1> QED
  BY <1>2, <1>3 DEF Deliver

\* Every step keeps the types.
LEMMA BatchTypeNext == BatchInv /\ [BatchNext]_batchVars => BatchTypeOK'
<1> SUFFICES ASSUME BatchInv, [BatchNext]_batchVars PROVE BatchTypeOK'
  OBVIOUS
<1>0. BatchTypeOK
  BY DEF BatchInv
<1>1. ASSUME NEW t \in Threads, NEW k \in Keys, ExecuteAlone(t, k) PROVE BatchTypeOK'
  BY <1>0, <1>1, EnterTypes DEF ExecuteAlone, BatchTypeOK
<1>2. ASSUME NEW t \in Threads, NEW k \in Keys, OpenGroup(t, k) PROVE BatchTypeOK'
  <2>1. members' \in [Threads -> Seq(Threads)]
    BY <1>0, <1>2 DEF OpenGroup, BatchTypeOK
  <2>2. groups' \in [Keys -> Threads \cup {NoGroup}] /\ expired' \in [Threads -> BOOLEAN]
    BY <1>0, <1>2 DEF OpenGroup, BatchTypeOK
  <2> QED
    BY <1>0, <1>2, <2>1, <2>2, EnterTypes DEF OpenGroup, BatchTypeOK
<1>3. ASSUME NEW t \in Threads, NEW k \in Keys, JoinGroup(t, k) PROVE BatchTypeOK'
  <2>1. groups[k] \in Threads
    BY <1>0, <1>3 DEF JoinGroup, BatchTypeOK
  <2>2. members' \in [Threads -> Seq(Threads)]
    BY <1>0, <1>3, <2>1 DEF JoinGroup, BatchTypeOK
  <2> QED
    BY <1>0, <1>3, <2>2, EnterTypes DEF JoinGroup, BatchTypeOK
<1>4. ASSUME NEW t \in Threads, AloneEnds(t) PROVE BatchTypeOK'
  BY <1>0, <1>4 DEF AloneEnds, BatchTypeOK, Outcomes
<1>5. ASSUME NEW t \in Threads, Deadline(t) PROVE BatchTypeOK'
  BY <1>0, <1>5 DEF Deadline, BatchTypeOK
<1>6. ASSUME NEW t \in Threads, CloseGroup(t) PROVE BatchTypeOK'
  BY <1>0, <1>6 DEF CloseGroup, BatchTypeOK, Leading
<1>7. ASSUME NEW t \in Threads, RunBatch(t) PROVE BatchTypeOK'
  <2>1. results \in [Threads -> Seq(Threads)] /\ batch[t] \in Seq(Threads)
    BY <1>0 DEF BatchTypeOK
  <2>2. results' \in [Threads -> Seq(Threads)]
    <3>1. PICK r \in {batch[t], <<>>} : results' = [results EXCEPT ![t] = r]
      BY <1>7 DEF RunBatch
    <3>2. r \in Seq(Threads)
      <4>1. <<>> \in Seq(Threads)
        OBVIOUS
      <4> QED
        BY <2>1, <4>1, Zenon
    <3> QED
      BY <2>1, <3>1, <3>2
  <2> QED
    BY <1>0, <1>7, <2>2 DEF RunBatch, BatchTypeOK, Leading
<1>8. ASSUME NEW t \in Threads, Deliver(t) PROVE BatchTypeOK'
  <2>1. next \in [Threads -> Nat \ {0}] /\ outcome \in [Threads -> Outcomes]
    BY <1>0 DEF BatchTypeOK
  <2>2. next' \in [Threads -> Nat \ {0}]
    BY <1>8, <2>1 DEF Deliver
  <2>3. outcome' \in [Threads -> Outcomes]
    BY <1>8, <2>1, Delivered DEF Outcomes
  <2> QED
    BY <1>0, <1>8, <2>2, <2>3 DEF Deliver, BatchTypeOK
<1>9. ASSUME NEW t \in Threads, LeaderReturns(t) PROVE BatchTypeOK'
  <2>1. next' \in [Threads -> Nat \ {0}]
    BY <1>0, <1>9 DEF LeaderReturns, BatchTypeOK
  <2> QED
    BY <1>0, <1>9, <2>1 DEF LeaderReturns, BatchTypeOK
<1>10. ASSUME NEW t \in Threads, FollowerReturns(t) PROVE BatchTypeOK'
  BY <1>0, <1>10 DEF FollowerReturns, BatchTypeOK
<1>11. CASE UNCHANGED batchVars
  BY <1>0, <1>11 DEF batchVars, BatchTypeOK
<1> QED
  BY <1>1, <1>2, <1>3, <1>4, <1>5, <1>6, <1>7, <1>8, <1>9, <1>10, <1>11
     DEF BatchNext, Execute, Proceed

-----------------------------------------------------------------------------
(* The steps that leave every group as it is.                              *)

\* Nobody awaits a thread that is out, on its own, or has its outcome.
LEMMA NotAwaited ==
    ASSUME BatchInv, NEW t \in Threads,
           pc[t] \in {"out", "alone"} \/ outcome[t] # "unset"
    PROVE  \A l \in Leaders : \A i \in Unserved(l) : Items(l)[i] # t
BY DEF BatchInv, WaitersAwaited, Awaited

\* A thread that no leader awaits enters or leaves outside all groups.
LEMMA BystanderInv ==
    ASSUME BatchInv, BatchTypeOK', NEW t \in Threads, t \notin Leaders,
           pc[t] \in {"out", "alone"} \/ outcome[t] # "unset",
           pc'[t] \in {"out", "alone"},
           outcome'[t] \in {t, "unset", "error"},
           \A s \in Threads \ {t} :
             pc'[s] = pc[s] /\ key'[s] = key[s] /\ outcome'[s] = outcome[s],
           UNCHANGED <<groups, members, batch, results, next>>
    PROVE  BatchInv'
<1>1. /\ Leaders' = Leaders
      /\ \A l \in Leaders : l # t /\ Items(l)' = Items(l) /\ Unserved(l)' = Unserved(l)
  BY DEF Leaders, Leading, Items, Unserved
<1>2. \A l \in Leaders : \A i \in Unserved(l) : Items(l)[i] # t /\ Items(l)[i] \in Threads
  BY NotAwaited, ItemsAreThreads DEF BatchInv, Leaders
<1>3. OpenGroupsLead'
  BY DEF BatchInv, BatchTypeOK, OpenGroupsLead, Leaders, Leading
<1>4. NothingHandedOut' /\ OwnOutcome'
  BY DEF BatchInv, NothingHandedOut, OwnOutcome, Leaders, Leading
<1>5. LeaderFirst'
  BY <1>1 DEF BatchInv, LeaderFirst, Leaders
<1>6. SameKey'
  BY <1>1, <1>2 DEF BatchInv, SameKey, Leaders
<1>7. OnePlace'
  BY <1>1 DEF BatchInv, OnePlace
<1>8. WaitersAwaited'
  BY <1>1, <1>2 DEF BatchInv, WaitersAwaited, Awaited
<1> QED
  BY <1>3, <1>4, <1>5, <1>6, <1>7, <1>8 DEF BatchInv

\* A leader goes on with its group as it is.
LEMMA LeaderMovesInv ==
    ASSUME BatchInv, BatchTypeOK', NEW t \in Leaders,
           pc'[t] \in Leading, Items(t)' = Items(t),
           \A s \in Threads \ {t} : pc'[s] = pc[s] /\ batch'[s] = batch[s] /\ results'[s] = results[s],
           UNCHANGED <<members, next, outcome, key>>,
           pc'[t] = "deliver" => results'[t] \in {batch'[t], <<>>},
           pc'[t] # "deliver" => next[t] = 1,
           OpenGroupsLead'
    PROVE  BatchInv'
<1>1. /\ Leaders' = Leaders
      /\ \A l \in Leaders : Items(l)' = Items(l) /\ Unserved(l)' = Unserved(l)
  BY DEF Leaders, Items, Unserved
<1>2. NothingHandedOut' /\ OwnOutcome'
  BY DEF BatchInv, NothingHandedOut, OwnOutcome
<1>3. LeaderFirst'
  BY <1>1 DEF BatchInv, LeaderFirst, Leaders
<1>4. SameKey' /\ OnePlace'
  BY <1>1 DEF BatchInv, SameKey, OnePlace
<1>5. WaitersAwaited'
  BY <1>1 DEF BatchInv, WaitersAwaited, Awaited, Leaders, Leading
<1> QED
  BY <1>2, <1>3, <1>4, <1>5 DEF BatchInv

\* Calls that are not batched, and followers that return, touch no group.
LEMMA OutsideGroupsInv ==
    ASSUME BatchInv, BatchTypeOK', NEW t \in Threads,
           \/ \E k \in Keys : ExecuteAlone(t, k)
           \/ AloneEnds(t) \/ FollowerReturns(t)
    PROVE  BatchInv'
<1>0. BatchTypeOK
  BY DEF BatchInv
<1>1. CASE \E k \in Keys : ExecuteAlone(t, k)
  BY <1>0, <1>1, BystanderInv DEF ExecuteAlone, Enter, BatchTypeOK, Leaders, Leading
<1>2. CASE AloneEnds(t)
  <2>1. PICK o \in {t, "error"} : outcome' = [outcome EXCEPT ![t] = o]
    BY <1>2 DEF AloneEnds
  <2>2. outcome'[t] \in {t, "error"} /\ \A s \in Threads \ {t} : outcome'[s] = outcome[s]
    BY <1>0, <2>1 DEF BatchTypeOK
  <2> QED
    BY <1>0, <1>2, <2>2, BystanderInv DEF AloneEnds, BatchTypeOK, Leaders, Leading
<1>3. CASE FollowerReturns(t)
  <2>1. outcome[t] \in {t, "unset", "error"}
    BY DEF BatchInv, OwnOutcome
  <2> QED
    BY <1>0, <1>3, <2>1, BystanderInv DEF FollowerReturns, BatchTypeOK, Leaders, Leading
<1> QED
  BY <1>1, <1>2, <1>3

\* The end of the wait, the close and the batch itself keep every place.
LEMMA LeadingInv ==
    ASSUME BatchInv, BatchTypeOK', NEW t \in Threads,
           Deadline(t) \/ CloseGroup(t) \/ RunBatch(t)
    PROVE  BatchInv'
<1>0. BatchTypeOK /\ NothingHandedOut /\ OpenGroupsLead
  BY DEF BatchInv
<1>1. CASE Deadline(t)
  <2>1. OpenGroupsLead'
    BY <1>0, <1>1 DEF Deadline, OpenGroupsLead
  <2>2. pc[t] = "lead" /\ t \in Leaders /\ Items(t)' = Items(t) /\ next[t] = 1
    BY <1>0, <1>1 DEF Deadline, Leaders, Leading, Items, NothingHandedOut
  <2> QED
    BY <1>1, <2>1, <2>2, LeaderMovesInv DEF Deadline, Leading
<1>2. CASE CloseGroup(t)
  <2>1. OpenGroupsLead'
    <3>1. \A k \in Keys : groups'[k] # NoGroup => groups'[k] = groups[k] /\ groups[k] # t
      BY <1>0, <1>2 DEF CloseGroup, BatchTypeOK, OpenGroupsLead
    <3>2. \A s \in Threads \ {t} : pc'[s] = pc[s] /\ key'[s] = key[s]
      BY <1>0, <1>2 DEF CloseGroup, BatchTypeOK
    <3> QED
      BY <1>0, <3>1, <3>2 DEF OpenGroupsLead, BatchTypeOK
  <2>2. t \in Leaders /\ Items(t)' = Items(t) /\ next[t] = 1 /\ pc'[t] = "run"
    BY <1>0, <1>2 DEF CloseGroup, BatchTypeOK, Leaders, Leading, Items, NothingHandedOut
  <2> QED
    BY <1>0, <1>2, <2>1, <2>2, LeaderMovesInv DEF CloseGroup, BatchTypeOK, Leading
<1>3. CASE RunBatch(t)
  <2>1. OpenGroupsLead'
    BY <1>0, <1>3 DEF RunBatch, OpenGroupsLead, BatchTypeOK
  <2>2. t \in Leaders /\ Items(t)' = Items(t) /\ pc'[t] = "deliver"
    BY <1>0, <1>3 DEF RunBatch, BatchTypeOK, Leaders, Leading, Items
  <2>3. results'[t] \in {batch'[t], <<>>} /\ \A s \in Threads \ {t} : results'[s] = results[s]
    BY <1>0, <1>3 DEF RunBatch, BatchTypeOK
  <2> QED
    BY <1>0, <1>3, <2>1, <2>2, <2>3, LeaderMovesInv DEF RunBatch, BatchTypeOK, Leading
<1> QED
  BY <1>1, <1>2, <1>3

-----------------------------------------------------------------------------
(* The steps that change a group.                                          *)

\* A new group has its leader as the first item.
LEMMA OpenGroupInv ==
    ASSUME BatchInv, BatchTypeOK', NEW t \in Threads, NEW k \in Keys, OpenGroup(t, k)
    PROVE  BatchInv'
<1> USE DEF OpenGroup, Enter
<1>0. BatchTypeOK
  BY DEF BatchInv
<1>1. /\ pc[t] = "out" /\ pc'[t] = "lead" /\ key'[t] = k /\ outcome'[t] = "unset"
      /\ \A s \in Threads \ {t} :
           pc'[s] = pc[s] /\ key'[s] = key[s] /\ outcome'[s] = outcome[s]
      /\ members'[t] = <<t>> /\ \A s \in Threads \ {t} : members'[s] = members[s]
      /\ groups'[k] = t /\ \A q \in Keys \ {k} : groups'[q] = groups[q]
      /\ UNCHANGED <<batch, results, next>>
  BY <1>0 DEF BatchTypeOK
<1>2. next[t] = 1
  BY <1>1 DEF BatchInv, NothingHandedOut
<1> HIDE DEF OpenGroup, Enter
<1>3. /\ Leaders' = Leaders \cup {t} /\ t \notin Leaders
      /\ \A l \in Leaders : l # t /\ Items(l)' = Items(l) /\ Unserved(l)' = Unserved(l)
      /\ Items(t)' = <<t>> /\ Unserved(t)' = {1}
  BY <1>1, <1>2 DEF Leaders, Leading, Items, Unserved
<1>4. \A l \in Leaders : \A i \in Unserved(l) : Items(l)[i] # t /\ Items(l)[i] \in Threads
  BY <1>0, <1>1, NotAwaited, ItemsAreThreads DEF Leaders
<1>5. OpenGroupsLead'
  <2>1. \A q \in Keys : groups[q] # NoGroup => groups[q] \in Threads \ {t}
    BY <1>0, <1>1 DEF BatchInv, BatchTypeOK, OpenGroupsLead
  <2> QED
    BY <1>1, <2>1 DEF BatchInv, OpenGroupsLead
<1>6. NothingHandedOut' /\ OwnOutcome'
  BY <1>1, <1>2 DEF BatchInv, NothingHandedOut, OwnOutcome
<1>7. LeaderFirst'
  BY <1>1, <1>2, <1>3 DEF BatchInv, LeaderFirst, Leaders
<1>8. SameKey'
  BY <1>1, <1>3, <1>4 DEF BatchInv, SameKey, Leaders
<1>9. OnePlace'
  BY <1>3, <1>4 DEF BatchInv, OnePlace
<1>10. WaitersAwaited'
  BY <1>1, <1>3, <1>4 DEF BatchInv, WaitersAwaited, Awaited
<1> QED
  BY <1>5, <1>6, <1>7, <1>8, <1>9, <1>10 DEF BatchInv

\* A joining thread gets one place, the last of a group of its key.
LEMMA JoinGroupInv ==
    ASSUME BatchInv, BatchTypeOK', NEW t \in Threads, NEW k \in Keys, JoinGroup(t, k)
    PROVE  BatchInv'
<1> USE DEF JoinGroup, Enter
<1>0. BatchTypeOK
  BY DEF BatchInv
<1> DEFINE g == groups[k]
<1>1. /\ g \in Threads /\ pc[g] = "lead" /\ key[g] = k /\ g # t
  BY <1>0 DEF BatchInv, BatchTypeOK, OpenGroupsLead
<1>2. /\ pc[t] = "out" /\ pc'[t] = "follow" /\ key'[t] = k /\ outcome'[t] = "unset"
      /\ \A s \in Threads \ {t} :
           pc'[s] = pc[s] /\ key'[s] = key[s] /\ outcome'[s] = outcome[s]
      /\ members'[g] = Append(members[g], t)
      /\ \A s \in Threads \ {g} : members'[s] = members[s]
      /\ UNCHANGED <<groups, batch, results, next>>
  BY <1>0, <1>1 DEF BatchTypeOK
<1>3. next[g] = 1 /\ members[g] \in Seq(Threads)
  BY <1>0, <1>1 DEF BatchInv, NothingHandedOut, BatchTypeOK
<1>p. PICK h \in Threads : h = g
  BY <1>1
<1>n. PICK n \in Nat : n = Len(members[g]) + 1
  BY <1>3
<1> HIDE DEF JoinGroup, Enter, g
<1>4. /\ Leaders' = Leaders /\ t \notin Leaders /\ h \in Leaders
      /\ \A l \in Leaders \ {h} : Items(l)' = Items(l) /\ Unserved(l)' = Unserved(l)
      /\ Items(h)' = Append(Items(h), t)
      /\ Unserved(h) = 1..(n - 1) /\ Unserved(h)' = 1..n /\ Len(Items(h)) = n - 1
      /\ Items(h) \in Seq(Threads)
  BY <1>1, <1>2, <1>3, <1>p, <1>n DEF Leaders, Leading, Items, Unserved
<1>5. /\ Unserved(h)' = Unserved(h) \cup {n} /\ n \notin Unserved(h)
      /\ Items(h)'[n] = t
      /\ \A i \in Unserved(h) : Items(h)'[i] = Items(h)[i]
      /\ Items(h)'[1] = IF n = 1 THEN t ELSE Items(h)[1]
      /\ Len(Items(h)') = n
  BY <1>4, <1>n
<1>6. \A l \in Leaders : \A i \in Unserved(l) : Items(l)[i] # t /\ Items(l)[i] \in Threads
  BY <1>0, <1>2, NotAwaited, ItemsAreThreads DEF Leaders
<1>7. OpenGroupsLead'
  <2>1. \A q \in Keys : groups[q] # NoGroup => groups[q] \in Threads \ {t}
    BY <1>0, <1>2 DEF BatchInv, BatchTypeOK, OpenGroupsLead
  <2> QED
    BY <1>2, <2>1 DEF BatchInv, OpenGroupsLead
<1>8. NothingHandedOut' /\ OwnOutcome'
  BY <1>2 DEF BatchInv, NothingHandedOut, OwnOutcome
<1>9. LeaderFirst'
  BY <1>1, <1>2, <1>3, <1>p, <1>n, <1>4, <1>5 DEF BatchInv, LeaderFirst, Leaders
<1>10. SameKey'
  BY <1>1, <1>2, <1>p, <1>4, <1>5, <1>6 DEF BatchInv, SameKey, Leaders
<1>11. OnePlace'
  BY <1>4, <1>5, <1>6 DEF BatchInv, OnePlace
<1>12. WaitersAwaited'
  <2>1. ASSUME NEW s PROVE Awaited(s) => Awaited(s)'
    BY <1>4, <1>5 DEF Awaited
  <2>2. Awaited(t)'
    BY <1>4, <1>5 DEF Awaited
  <2>3. ASSUME NEW s, s # t PROVE Awaited(s)' => Awaited(s)
    BY <1>4, <1>5, <2>3 DEF Awaited
  <2> QED
    BY <1>2, <2>1, <2>2, <2>3 DEF BatchInv, WaitersAwaited
<1> QED
  BY <1>7, <1>8, <1>9, <1>10, <1>11, <1>12 DEF BatchInv

\* An item is handed its outcome: it has no other place, so nobody awaits
\* its thread any more.
LEMMA DeliverInv ==
    ASSUME BatchInv, BatchTypeOK', NEW t \in Threads, Deliver(t)
    PROVE  BatchInv'
<1>0. BatchTypeOK
  BY DEF BatchInv
<1>1. PICK n \in 1..Len(batch[t]) : n = next[t]
  BY Delivered
<1>2. PICK d \in Threads : d = batch[t][next[t]]
  BY Delivered
<1>3. /\ outcome'[d] \in {d, "error"} /\ outcome'[d] # "unset"
      /\ \A s \in Threads \ {d} : outcome'[s] = outcome[s]
  <2>1. PICK given \in {d, "error"} : outcome' = [outcome EXCEPT ![d] = given]
    BY <1>2, Delivered
  <2>2. given # "unset"
    BY <2>1, OutcomesAssumption
  <2> QED
    BY <1>0, <2>1, <2>2 DEF BatchTypeOK
<1>4. /\ UNCHANGED <<groups, members, batch, results, key, pc>>
      /\ pc[t] = "deliver"
      /\ next'[t] = n + 1 /\ \A s \in Threads \ {t} : next'[s] = next[s]
  BY <1>0, <1>1 DEF Deliver, BatchTypeOK
<1>5. /\ Leaders' = Leaders /\ t \in Leaders
      /\ \A l \in Leaders : Items(l)' = Items(l)
      /\ Items(t) = batch[t] /\ Items(t)[n] = d
  BY <1>1, <1>2, <1>4 DEF Leaders, Leading, Items
<1>6. /\ \A l \in Leaders \ {t} : Unserved(l)' = Unserved(l)
      /\ Unserved(t) = n..Len(batch[t])
      /\ Unserved(t)' = (n + 1)..Len(batch[t])
  BY <1>1, <1>4, <1>5 DEF Unserved, Leaders
<1>7. Unserved(t)' = Unserved(t) \ {n} /\ n \in Unserved(t)
  BY <1>1, <1>6
<1>8. OpenGroupsLead' /\ NothingHandedOut'
  BY <1>4 DEF BatchInv, OpenGroupsLead, NothingHandedOut
<1>9. OwnOutcome'
  BY <1>3 DEF BatchInv, OwnOutcome
<1>10. LeaderFirst'
  <2> SUFFICES ASSUME NEW l \in Leaders, next'[l] > 1 PROVE outcome'[l] # "unset"
    BY <1>4, <1>5 DEF BatchInv, LeaderFirst
  <2>1. CASE l = t /\ n = 1
    BY <1>3, <1>5, <2>1 DEF BatchInv, LeaderFirst
  <2>2. CASE l = t /\ n # 1
    BY <1>1, <1>3, <2>2 DEF BatchInv, LeaderFirst, Leaders
  <2>3. CASE l # t
    BY <1>3, <1>4, <2>3 DEF BatchInv, LeaderFirst, Leaders
  <2> QED BY <2>1, <2>2, <2>3
<1>11. SameKey' /\ OnePlace'
  <2>1. \A l \in Leaders : Unserved(l)' \subseteq Unserved(l)
    BY <1>6, <1>7
  <2> QED
    BY <1>4, <1>5, <2>1 DEF BatchInv, SameKey, OnePlace
<1>12. WaitersAwaited'
  <2>1. ASSUME NEW s \in Threads, Awaited(s)' PROVE Awaited(s) /\ s # d
    <3>1. PICK l \in Leaders : \E i \in Unserved(l)' : Items(l)[i] = s
      BY <1>5, <2>1 DEF Awaited
    <3>2. PICK i \in Unserved(l)' : Items(l)[i] = s
      BY <3>1
    <3>3. i \in Unserved(l) /\ (l = t => i # n)
      BY <1>6, <1>7
    <3> QED
      BY <1>5, <1>7, <3>2, <3>3 DEF BatchInv, OnePlace, Awaited
  <2>2. ASSUME NEW s \in Threads, Awaited(s), s # d PROVE Awaited(s)'
    <3>1. PICK l \in Leaders : \E i \in Unserved(l) : Items(l)[i] = s
      BY <2>2 DEF Awaited
    <3>2. PICK i \in Unserved(l) : Items(l)[i] = s
      BY <3>1
    <3>3. i \in Unserved(l)'
      BY <1>5, <1>6, <1>7, <2>2, <3>2
    <3> QED
      BY <1>5, <3>2, <3>3 DEF Awaited
  <2> QED
    BY <1>3, <1>4, <2>1, <2>2 DEF BatchInv, WaitersAwaited
<1> QED
  BY <1>8, <1>9, <1>10, <1>11, <1>12 DEF BatchInv

\* A leader returns when it has handed out everything.
LEMMA LeaderReturnsInv ==
    ASSUME BatchInv, BatchTypeOK', NEW t \in Threads, LeaderReturns(t)
    PROVE  BatchInv'
<1>0. BatchTypeOK
  BY DEF BatchInv
<1>1. /\ pc[t] = "deliver" /\ pc'[t] = "out" /\ next[t] > Len(batch[t]) /\ next'[t] = 1
      /\ UNCHANGED <<groups, outcome, key>>
      /\ \A s \in Threads \ {t} :
           /\ pc'[s] = pc[s] /\ next'[s] = next[s] /\ members'[s] = members[s]
           /\ batch'[s] = batch[s] /\ results'[s] = results[s]
  BY <1>0 DEF LeaderReturns, BatchTypeOK
<1>2. /\ t \in Leaders /\ Leaders' = Leaders \ {t}
      /\ \A l \in Leaders \ {t} : Items(l)' = Items(l) /\ Unserved(l)' = Unserved(l)
      /\ Unserved(t) = {}
  BY <1>0, <1>1 DEF BatchTypeOK, Leaders, Leading, Items, Unserved
<1>3. outcome[t] # "unset"
  <2>1. Len(batch[t]) >= 1 /\ next[t] \in Nat /\ Len(batch[t]) \in Nat
    BY <1>0, <1>1, <1>2 DEF BatchInv, LeaderFirst, Items, BatchTypeOK
  <2> QED
    BY <1>1, <1>2, <2>1 DEF BatchInv, LeaderFirst
<1>4. OpenGroupsLead'
  BY <1>0, <1>1 DEF BatchInv, OpenGroupsLead, BatchTypeOK
<1>5. NothingHandedOut' /\ OwnOutcome'
  BY <1>1 DEF BatchInv, NothingHandedOut, OwnOutcome
<1>6. LeaderFirst'
  BY <1>1, <1>2 DEF BatchInv, LeaderFirst, Leaders
<1>7. SameKey' /\ OnePlace'
  BY <1>1, <1>2 DEF BatchInv, SameKey, OnePlace
<1>8. WaitersAwaited'
  BY <1>1, <1>2, <1>3 DEF BatchInv, WaitersAwaited, Awaited
<1> QED
  BY <1>4, <1>5, <1>6, <1>7, <1>8 DEF BatchInv

\* Every step keeps the invariant.
LEMMA BatchNextInv == BatchInv /\ [BatchNext]_batchVars => BatchInv'
<1> SUFFICES ASSUME BatchInv, [BatchNext]_batchVars PROVE BatchInv'
  OBVIOUS
<1>1. BatchTypeOK'
  BY BatchTypeNext
<1>2. CASE \E t \in Threads : Execute(t)
  BY <1>1, <1>2, OutsideGroupsInv, OpenGroupInv, JoinGroupInv DEF Execute
<1>3. CASE \E t \in Threads : Proceed(t)
  BY <1>1, <1>3, OutsideGroupsInv, LeadingInv, DeliverInv, LeaderReturnsInv DEF Proceed
<1>4. CASE UNCHANGED batchVars
  <2> USE <1>4 DEF batchVars
  <2>1. Leaders' = Leaders /\ \A l : Items(l)' = Items(l) /\ Unserved(l)' = Unserved(l)
    BY DEF Leaders, Items, Unserved
  <2> QED
    BY <1>1, <2>1 DEF BatchInv, OpenGroupsLead, NothingHandedOut, LeaderFirst, SameKey,
                      OnePlace, WaitersAwaited, Awaited, OwnOutcome
<1> QED
  BY <1>2, <1>3, <1>4 DEF BatchNext

\* The inductive invariant holds in every reachable state.
THEOREM BatchInvariant == BatchSpec => []BatchInv
BY BatchInitInv, BatchNextInv, PTL DEF BatchSpec

-----------------------------------------------------------------------------
(* The theorems.                                                           *)

\* Every variable keeps its type.
THEOREM BatchTypeCorrect == BatchSpec => []BatchTypeOK
<1>1. BatchInv => BatchTypeOK
  BY DEF BatchInv
<1> QED BY <1>1, BatchInvariant, PTL

\* Every thread that waits has one place with one leader of its key, which
\* will still serve it: no item is lost, served twice or by another model.
THEOREM EveryWaiterHasOneLeader == BatchSpec => []ServedByOneLeader
<1>1. ASSUME BatchInv PROVE ServedByOneLeader
  <2>1. \A l \in Leaders, t \in Threads : Places(l, t) = {i \in Unserved(l) : Items(l)[i] = t}
    <3> SUFFICES ASSUME NEW l \in Leaders, NEW t \in Threads
                 PROVE  Places(l, t) = {i \in Unserved(l) : Items(l)[i] = t}
      OBVIOUS
    <3>1. pc[l] = "lead" => next[l] = 1
      BY <1>1 DEF BatchInv, NothingHandedOut, Leaders
    <3> QED
      BY <3>1 DEF Places, Unserved, Items
  <2> SUFFICES ASSUME NEW t \in Threads, pc[t] \notin {"out", "alone"}, outcome[t] = "unset"
               PROVE  \E l \in Leaders :
                        /\ key[l] = key[t]
                        /\ \E i \in Places(l, t) : Places(l, t) = {i}
                        /\ \A m \in Leaders \ {l} : Places(m, t) = {}
    BY DEF ServedByOneLeader
  <2>2. PICK l \in Leaders : \E i \in Unserved(l) : Items(l)[i] = t
    BY <1>1 DEF BatchInv, WaitersAwaited, Awaited
  <2>3. PICK i \in Unserved(l) : Items(l)[i] = t
    BY <2>2
  <2>4. key[l] = key[t]
    BY <1>1, <2>3 DEF BatchInv, SameKey
  <2>5. Places(l, t) = {i} /\ \A m \in Leaders \ {l} : Places(m, t) = {}
    BY <1>1, <2>1, <2>3 DEF BatchInv, OnePlace
  <2> QED BY <2>4, <2>5
<1> QED BY <1>1, BatchInvariant, PTL

\* No call is given the result of another thread's payload.
THEOREM CallsGetTheirOwn == BatchSpec => []OwnOutcome
<1>1. BatchInv => OwnOutcome
  BY DEF BatchInv
<1> QED BY <1>1, BatchInvariant, PTL

\* execute never returns an item that nobody has served.
THEOREM NothingUnsetReturned == BatchSpec => NeverReturnsUnset
<1> DEFINE A == \A t \in Threads : pc[t] # "out" /\ pc'[t] = "out" => outcome'[t] # "unset"
<1>1. ASSUME BatchInv, BatchNext PROVE A
  <2>0. BatchTypeOK
    BY <1>1 DEF BatchInv
  <2> SUFFICES ASSUME NEW t \in Threads, pc[t] # "out", pc'[t] = "out"
               PROVE  outcome'[t] # "unset"
    OBVIOUS
  <2>1. ASSUME NEW s \in Threads, Execute(s) PROVE FALSE
    BY <2>0, <2>1 DEF Execute, ExecuteAlone, OpenGroup, JoinGroup, Enter, BatchTypeOK
  <2>2. ASSUME NEW s \in Threads, Deadline(s) \/ CloseGroup(s) \/ RunBatch(s) \/ Deliver(s)
        PROVE  FALSE
    BY <2>0, <2>2 DEF Deadline, CloseGroup, RunBatch, Deliver, BatchTypeOK
  <2>3. ASSUME NEW s \in Threads, AloneEnds(s) PROVE outcome'[t] # "unset"
    BY <2>0, <2>3, OutcomesAssumption DEF AloneEnds, BatchTypeOK
  <2>4. ASSUME NEW s \in Threads, FollowerReturns(s) PROVE outcome'[t] # "unset"
    BY <2>0, <2>4 DEF FollowerReturns, BatchTypeOK
  <2>5. ASSUME NEW s \in Threads, LeaderReturns(s) PROVE outcome'[t] # "unset"
    <3>1. s = t /\ pc[t] = "deliver" /\ next[t] > Len(batch[t]) /\ outcome' = outcome
      BY <2>0, <2>5 DEF LeaderReturns, BatchTypeOK
    <3>2. t \in Leaders /\ Len(batch[t]) >= 1 /\ next[t] \in Nat /\ Len(batch[t]) \in Nat
      BY <1>1, <2>0, <3>1 DEF BatchInv, LeaderFirst, Leaders, Leading, Items, BatchTypeOK
    <3> QED
      BY <1>1, <3>1, <3>2 DEF BatchInv, LeaderFirst
  <2> QED
    BY <1>1, <2>1, <2>2, <2>3, <2>4, <2>5 DEF BatchNext, Proceed
<1>2. BatchInv /\ [BatchNext]_batchVars => [A]_batchVars
  BY <1>1
<1> QED BY <1>2, BatchInvariant, PTL DEF BatchSpec, NeverReturnsUnset
=============================================================================
