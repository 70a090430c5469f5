------------------------ MODULE PreprocessCacheProofs ------------------------
(***************************************************************************)
(* Theorems about PreprocessCache, for any set of renders and any number   *)
(* of faults.                                                              *)
(***************************************************************************)
EXTENDS PreprocessCache, TLAPS

\* Files come into being in the order of save, whoever writes them, and
\* never go: that is what load relies on when it takes an absent foreground
\* for an old snapshot.
PrefixSaved ==
    \A i, j \in 1..7 :
        i < j /\ files[SaveOrder[j]] # "none" => files[SaveOrder[i]] # "none"

\* A save has brought into being what it has written.
SavedSoFar ==
    \A t \in Renders : \A i \in 1..7 :
        \/ Saving(t) /\ i < step[t]
        \/ pc[t] = "fill" /\ i = step[t]
        => files[SaveOrder[i]] # "none"

\* A load and a save begin with their first file.
AtFirstFile ==
    \A t \in Renders :
        /\ pc[t] \in {"look", "compute"} => step[t] = 1
        /\ pc[t] = "look" => got[t] = {}

\* A load has restored the files before its next one, and they are there; a
\* hit has restored them all.
RestoredSoFar ==
    \A t \in Renders :
        /\ pc[t] = "read" => \A i \in 1..7 : i < step[t] => LoadOrder[i] \in got[t]
        /\ pc[t] = "read" => \A f \in got[t] : files[f] # "none"
        /\ pc[t] = "hit" => got[t] = Files

\* Without faults what a save has begun it ends: a file cut short is about
\* to be filled, and what lacks in a snapshot is ahead of some save.
SavesGoOn ==
    faults = 0 =>
        /\ \A i \in 1..7 : files[SaveOrder[i]] = "partial" =>
             \E t \in Renders : pc[t] = "fill" /\ step[t] = i
        /\ \A i \in 1..7 : files[SaveOrder[i]] = "none" /\ files["metadata"] # "none" =>
             \E t \in Renders : Saving(t) /\ step[t] <= i

\* The inductive invariant.
CacheInv ==
    /\ CacheTypeOK
    /\ PrefixSaved
    /\ SavedSoFar
    /\ AtFirstFile
    /\ RestoredSoFar
    /\ SavesGoOn

-----------------------------------------------------------------------------
\* Both orders name every file once.
LEMMA Orders ==
    /\ Len(SaveOrder) = 7 /\ Len(LoadOrder) = 7
    /\ \A i \in 1..7 : SaveOrder[i] \in Files /\ LoadOrder[i] \in Files
    /\ \A f \in Files : /\ \E i \in 1..7 : SaveOrder[i] = f
                        /\ \E i \in 1..7 : LoadOrder[i] = f
    /\ \A i, j \in 1..7 : SaveOrder[i] = SaveOrder[j] => i = j
    /\ SaveOrder[1] = "metadata" /\ SaveOrder[5] = "foreground" /\ SaveOrder[7] = "normals"
    /\ LoadOrder[1] = "metadata" /\ LoadOrder[6] = "normals" /\ LoadOrder[7] = "foreground"
<1>1. /\ Len(SaveOrder) = 7 /\ Len(LoadOrder) = 7
      /\ SaveOrder[1] = "metadata" /\ SaveOrder[2] = "mask" /\ SaveOrder[3] = "cutout"
      /\ SaveOrder[4] = "crop" /\ SaveOrder[5] = "foreground" /\ SaveOrder[6] = "depth"
      /\ SaveOrder[7] = "normals"
      /\ LoadOrder[1] = "metadata" /\ LoadOrder[2] = "mask" /\ LoadOrder[3] = "cutout"
      /\ LoadOrder[4] = "crop" /\ LoadOrder[5] = "depth" /\ LoadOrder[6] = "normals"
      /\ LoadOrder[7] = "foreground"
  BY DEF SaveOrder, LoadOrder
<1>2. \A i \in 1..7 : i = 1 \/ i = 2 \/ i = 3 \/ i = 4 \/ i = 5 \/ i = 6 \/ i = 7
  OBVIOUS
<1>3. 1 \in 1..7 /\ 2 \in 1..7 /\ 3 \in 1..7 /\ 4 \in 1..7 /\ 5 \in 1..7 /\ 6 \in 1..7 /\ 7 \in 1..7
  OBVIOUS
<1> HIDE DEF SaveOrder, LoadOrder
<1>4. \A i \in 1..7 : SaveOrder[i] \in Files /\ LoadOrder[i] \in Files
  BY <1>1, <1>2 DEF Files
<1>5. \A f \in Files : \E i \in 1..7 : SaveOrder[i] = f
  BY <1>1, <1>3 DEF Files
<1>6. \A f \in Files : \E i \in 1..7 : LoadOrder[i] = f
  BY <1>1, <1>3 DEF Files
<1>7. \A i, j \in 1..7 : SaveOrder[i] = SaveOrder[j] => i = j
  BY <1>1, <1>2
<1> QED
  BY <1>1, <1>4, <1>5, <1>6, <1>7

\* The invariant holds for an empty directory.
LEMMA CacheInitInv == CacheInit => CacheInv
<1> SUFFICES ASSUME CacheInit PROVE CacheInv
  OBVIOUS
<1> USE DEF CacheInit
<1>1. CacheTypeOK
  BY Orders, MaxFaultsAssumption DEF CacheTypeOK
<1>2. \A i \in 1..7 : files[SaveOrder[i]] = "none"
  BY Orders
<1> QED
  BY <1>1, <1>2 DEF CacheInv, PrefixSaved, SavedSoFar, AtFirstFile, RestoredSoFar, SavesGoOn,
                    Saving, Files

\* Every step keeps the types.
LEMMA CacheTypeNext == CacheTypeOK /\ [CacheNext]_cacheVars => CacheTypeOK'
<1> SUFFICES ASSUME CacheTypeOK, [CacheNext]_cacheVars PROVE CacheTypeOK'
  OBVIOUS
<1> USE Orders DEF CacheTypeOK, GoTo
<1>1. ASSUME NEW t \in Renders, Begin(t) \/ Look(t) \/ Compute(t) \/ Leave(t) PROVE CacheTypeOK'
  BY <1>1 DEF Begin, Look, Compute, Leave
<1>2. ASSUME NEW t \in Renders, Read(t) PROVE CacheTypeOK'
  <2>1. step[t] \in 1..7 /\ LoadOrder[step[t]] \in Files
    OBVIOUS
  <2>2. step' \in [Renders -> 1..7] /\ got' \in [Renders -> SUBSET Files]
    BY <1>2, <2>1 DEF Read
  <2> QED
    BY <1>2, <2>2 DEF Read
<1>3. ASSUME NEW t \in Renders, Open(t) PROVE CacheTypeOK'
  BY <1>3 DEF Open
<1>4. ASSUME NEW t \in Renders, Fill(t) PROVE CacheTypeOK'
  <2>1. step' \in [Renders -> 1..7]
    BY <1>4 DEF Fill
  <2> QED
    BY <1>4, <2>1 DEF Fill
<1>5. ASSUME NEW t \in Renders, WriteFails(t) PROVE CacheTypeOK'
  BY <1>5, MaxFaultsAssumption DEF WriteFails
<1>6. CASE Restart
  BY <1>6, MaxFaultsAssumption DEF Restart
<1>7. CASE UNCHANGED cacheVars
  BY <1>7 DEF cacheVars
<1> QED
  BY <1>1, <1>2, <1>3, <1>4, <1>5, <1>6, <1>7 DEF CacheNext, RenderStep

-----------------------------------------------------------------------------
(* The steps of load.                                                      *)

\* A step of t that writes nothing and does not begin a save half-way.
LEMMA NotWritingInv ==
    ASSUME CacheInv, CacheTypeOK', NEW t \in Renders, UNCHANGED <<files, faults>>,
           \A s \in Renders \ {t} : pc'[s] = pc[s] /\ step'[s] = step[s] /\ got'[s] = got[s],
           ~Saving(t), pc'[t] # "fill", pc'[t] = "open" => step'[t] = 1,
           pc'[t] \in {"look", "compute"} => step'[t] = 1,
           pc'[t] = "look" => got'[t] = {},
           pc'[t] = "read" => /\ \A i \in 1..7 : i < step'[t] => LoadOrder[i] \in got'[t]
                              /\ \A f \in got'[t] : files[f] # "none",
           pc'[t] = "hit" => got'[t] = Files
    PROVE  CacheInv'
<1>1. PrefixSaved'
  BY DEF CacheInv, PrefixSaved
<1>2. SavedSoFar'
  BY DEF CacheInv, SavedSoFar, Saving
<1>3. AtFirstFile' /\ RestoredSoFar'
  BY DEF CacheInv, AtFirstFile, RestoredSoFar
<1>4. SavesGoOn'
  BY DEF CacheInv, SavesGoOn, Saving
<1> QED
  BY <1>1, <1>2, <1>3, <1>4 DEF CacheInv

\* A render begins, looks at a file, computes a snapshot or leaves.
LEMMA LoadInv ==
    ASSUME CacheInv, CacheTypeOK', NEW t \in Renders,
           Begin(t) \/ Look(t) \/ Compute(t) \/ Leave(t)
    PROVE  CacheInv'
<1>0. CacheTypeOK /\ AtFirstFile
  BY DEF CacheInv
<1> USE DEF CacheTypeOK, GoTo, Saving
<1>1. CASE Begin(t)   BY <1>0, <1>1, NotWritingInv DEF Begin
<1>2. CASE Look(t)
  <2>1. step[t] = 1 /\ \A i \in 1..7 : ~(i < step[t])
    BY <1>0, <1>2 DEF Look, AtFirstFile
  <2>2. got[t] = {}
    BY <1>0, <1>2 DEF Look, AtFirstFile
  <2> QED
    BY <1>0, <1>2, <2>1, <2>2, NotWritingInv DEF Look
<1>3. CASE Compute(t) BY <1>0, <1>3, NotWritingInv DEF Compute, AtFirstFile
<1>4. CASE Leave(t)   BY <1>0, <1>4, NotWritingInv DEF Leave
<1> QED
  BY <1>1, <1>2, <1>3, <1>4

\* The last file to be read is the foreground.  The normals are there, since
\* they were read, so the foreground is: it is not taken for optional.
LEMMA ReadInv ==
    ASSUME CacheInv, CacheTypeOK', NEW t \in Renders, Read(t)
    PROVE  CacheInv'
<1>0. CacheTypeOK /\ RestoredSoFar /\ PrefixSaved
  BY DEF CacheInv
<1>1. PICK n \in 1..7 : n = step[t]
  BY <1>0, Orders DEF CacheTypeOK
<1>2. PICK f \in Files : f = LoadOrder[n]
  BY Orders
<1> DEFINE readable == files[f] = "whole" \/ Skipped(f)
<1>3. /\ pc[t] = "read" /\ UNCHANGED <<files, faults>>
      /\ pc'[t] = IF ~readable THEN "load_raised" ELSE IF n = 7 THEN "hit" ELSE "read"
      /\ got'[t] = IF files[f] = "whole" THEN got[t] \cup {f} ELSE got[t]
      /\ step'[t] = IF readable /\ n # 7 THEN n + 1 ELSE n
      /\ \A s \in Renders \ {t} : pc'[s] = pc[s] /\ step'[s] = step[s] /\ got'[s] = got[s]
  BY <1>0, <1>1, <1>2, Orders DEF Read, GoTo, CacheTypeOK
<1>4. /\ \A i \in 1..7 : i < n => LoadOrder[i] \in got[t]
      /\ \A g \in got[t] : files[g] # "none"
      /\ got[t] \subseteq Files
  BY <1>0, <1>1, <1>3 DEF RestoredSoFar, CacheTypeOK
<1>5. readable /\ n # 7 => files[f] = "whole"
  <2>1. \A i \in 1..7 : LoadOrder[i] = "foreground" => i = 7
    BY DEF LoadOrder
  <2> QED
    BY <1>1, <1>2, <2>1 DEF Skipped
<1>6. readable /\ n = 7 => files[f] = "whole"
  <2>1. CASE n = 7
    <3>1. files["normals"] # "none"
      BY <1>4, <2>1, Orders
    <3>2. files["foreground"] # "none"
      BY <1>0, <3>1, Orders DEF PrefixSaved
    <3> QED
      BY <3>2 DEF Skipped
  <2> QED BY <2>1
<1> HIDE DEF readable
<1>7. pc'[t] = "read" => /\ \A i \in 1..7 : i < step'[t] => LoadOrder[i] \in got'[t]
                         /\ \A g \in got'[t] : files[g] # "none"
  BY <1>1, <1>2, <1>3, <1>4, <1>5
<1>8. pc'[t] = "hit" => got'[t] = Files
  <2> SUFFICES ASSUME readable, n = 7 PROVE got[t] \cup {f} = Files
    BY <1>3, <1>6
  <2>1. \A i \in 1..7 : LoadOrder[i] \in got[t] \cup {f}
    BY <1>2, <1>4
  <2> QED
    BY <1>2, <1>4, <2>1, Orders
<1> QED
  BY <1>3, <1>7, <1>8, NotWritingInv DEF Saving

-----------------------------------------------------------------------------
(* The steps of save.                                                      *)

\* A write leaves no file absent that was there, and no reader minds.
LEMMA WriteInv ==
    ASSUME CacheInv, CacheTypeOK', NEW t \in Renders, Saving(t), UNCHANGED <<got, faults>>,
           NEW n \in 1..7, n = step[t], NEW content \in {"partial", "whole"},
           files' = [files EXCEPT ![SaveOrder[n]] = content],
           \A s \in Renders \ {t} : pc'[s] = pc[s] /\ step'[s] = step[s],
           pc'[t] \in {"fill", "open", "out"},
           pc'[t] = "fill" => step'[t] = n,
           pc'[t] = "open" => step'[t] = n + 1,
           SavesGoOn'
    PROVE  CacheInv'
<1>0. CacheTypeOK
  BY DEF CacheInv
<1>1. \A i \in 1..7 : files'[SaveOrder[i]] = IF i = n THEN content ELSE files[SaveOrder[i]]
  BY <1>0, Orders DEF CacheTypeOK
<1>2. \A f \in Files : files[f] # "none" => files'[f] # "none"
  BY <1>0, Orders DEF CacheTypeOK
<1>3. \A i \in 1..7 : i < n => files[SaveOrder[i]] # "none"
  BY DEF CacheInv, SavedSoFar
<1>4. PrefixSaved'
  BY <1>1, <1>3 DEF CacheInv, PrefixSaved
<1>5. SavedSoFar'
  <2> SUFFICES ASSUME NEW s \in Renders, NEW i \in 1..7,
                      \/ Saving(s)' /\ i < step'[s]
                      \/ pc'[s] = "fill" /\ i = step'[s]
               PROVE  files'[SaveOrder[i]] # "none"
    BY DEF SavedSoFar
  <2>1. CASE s = t
    <3>1. i <= n
      BY <2>1 DEF Saving
    <3> QED
      BY <1>1, <1>3, <3>1
  <2>2. CASE s # t
    <3>1. files[SaveOrder[i]] # "none"
      BY <2>2 DEF CacheInv, SavedSoFar, Saving
    <3> QED
      BY <1>1, <3>1
  <2> QED BY <2>1, <2>2
<1>6. AtFirstFile' /\ RestoredSoFar'
  <2>1. \A s \in Renders : got[s] \subseteq Files
    BY <1>0 DEF CacheTypeOK
  <2> QED
    BY <1>2, <2>1 DEF CacheInv, AtFirstFile, RestoredSoFar, Saving
<1> QED
  BY <1>4, <1>5, <1>6 DEF CacheInv

\* Opening a file for a save brings the next one into being.
LEMMA OpenInv ==
    ASSUME CacheInv, CacheTypeOK', NEW t \in Renders, Open(t)
    PROVE  CacheInv'
<1>0. CacheTypeOK
  BY DEF CacheInv
<1>1. PICK n \in 1..7 : n = step[t]
  BY <1>0, Orders DEF CacheTypeOK
<1>2. /\ pc[t] = "open" /\ pc'[t] = "fill" /\ UNCHANGED <<step, got, faults>>
      /\ files' = [files EXCEPT ![SaveOrder[n]] = "partial"]
      /\ \A s \in Renders \ {t} : pc'[s] = pc[s]
  BY <1>0, <1>1 DEF Open, GoTo, CacheTypeOK
<1>3. \A i \in 1..7 : files'[SaveOrder[i]] = IF i = n THEN "partial" ELSE files[SaveOrder[i]]
  BY <1>0, <1>2, Orders DEF CacheTypeOK
<1>4. SavesGoOn'
  <2> SUFFICES ASSUME faults = 0, NEW i \in 1..7
               PROVE  /\ files'[SaveOrder[i]] = "partial" =>
                           \E s \in Renders : pc'[s] = "fill" /\ step'[s] = i
                      /\ files'[SaveOrder[i]] = "none" /\ files'["metadata"] # "none" =>
                           \E s \in Renders : Saving(s)' /\ step'[s] <= i
    BY <1>2 DEF SavesGoOn
  <2>1. ASSUME files'[SaveOrder[i]] = "partial"
        PROVE  \E s \in Renders : pc'[s] = "fill" /\ step'[s] = i
    <3>1. CASE i = n
      BY <1>1, <1>2, <3>1
    <3>2. CASE i # n
      <4>1. PICK s \in Renders : pc[s] = "fill" /\ step[s] = i
        BY <1>3, <2>1, <3>2 DEF CacheInv, SavesGoOn
      <4> QED
        BY <1>2, <4>1
    <3> QED BY <3>1, <3>2
  <2>2. ASSUME files'[SaveOrder[i]] = "none", files'["metadata"] # "none"
        PROVE  \E s \in Renders : Saving(s)' /\ step'[s] <= i
    <3>1. CASE files["metadata"] = "none"
      <4>1. n = 1
        BY <1>1, <1>2, <3>1, Orders DEF CacheInv, SavedSoFar, Saving
      <4>2. Saving(t)' /\ step'[t] = 1
        BY <1>1, <1>2, <4>1 DEF Saving
      <4>3. step'[t] <= i
        BY <4>2
      <4> QED
        BY <4>2, <4>3
    <3>2. CASE files["metadata"] # "none"
      <4>1. PICK s \in Renders : Saving(s) /\ step[s] <= i
        BY <1>3, <2>2, <3>2 DEF CacheInv, SavesGoOn
      <4> QED
        BY <1>2, <4>1 DEF Saving
    <3> QED BY <3>1, <3>2
  <2> QED BY <2>1, <2>2
<1> QED
  BY <1>1, <1>2, <1>4, WriteInv DEF Saving

\* Filling it makes it whole and moves on to the next one.
LEMMA FillInv ==
    ASSUME CacheInv, CacheTypeOK', NEW t \in Renders, Fill(t)
    PROVE  CacheInv'
<1>0. CacheTypeOK
  BY DEF CacheInv
<1>1. PICK n \in 1..7 : n = step[t]
  BY <1>0, Orders DEF CacheTypeOK
<1>2. /\ pc[t] = "fill" /\ UNCHANGED <<got, faults>>
      /\ pc'[t] = IF n = 7 THEN "out" ELSE "open"
      /\ step'[t] = IF n = 7 THEN n ELSE n + 1
      /\ files' = [files EXCEPT ![SaveOrder[n]] = "whole"]
      /\ \A s \in Renders \ {t} : pc'[s] = pc[s] /\ step'[s] = step[s]
  BY <1>0, <1>1, Orders DEF Fill, GoTo, CacheTypeOK
<1>3. \A i \in 1..7 : files'[SaveOrder[i]] = IF i = n THEN "whole" ELSE files[SaveOrder[i]]
  BY <1>0, <1>2, Orders DEF CacheTypeOK
<1>4. SavesGoOn'
  <2> SUFFICES ASSUME faults = 0, NEW i \in 1..7
               PROVE  /\ files'[SaveOrder[i]] = "partial" =>
                           \E s \in Renders : pc'[s] = "fill" /\ step'[s] = i
                      /\ files'[SaveOrder[i]] = "none" /\ files'["metadata"] # "none" =>
                           \E s \in Renders : Saving(s)' /\ step'[s] <= i
    BY <1>2 DEF SavesGoOn
  <2>1. ASSUME files'[SaveOrder[i]] = "partial"
        PROVE  \E s \in Renders : pc'[s] = "fill" /\ step'[s] = i
    <3>1. i # n /\ files[SaveOrder[i]] = "partial"
      BY <1>3, <2>1
    <3>2. PICK s \in Renders : pc[s] = "fill" /\ step[s] = i
      BY <3>1 DEF CacheInv, SavesGoOn
    <3> QED
      BY <1>1, <1>2, <3>1, <3>2
  <2>2. ASSUME files'[SaveOrder[i]] = "none", files'["metadata"] # "none"
        PROVE  \E s \in Renders : Saving(s)' /\ step'[s] <= i
    <3>1. i # n /\ files[SaveOrder[i]] = "none"
      BY <1>3, <2>2
    <3>2. files["metadata"] # "none"
      <4>1. files[SaveOrder[n]] # "none" /\ (n # 1 => files[SaveOrder[1]] # "none")
        BY <1>1, <1>2 DEF CacheInv, SavedSoFar, Saving
      <4> QED
        BY <4>1, Orders
    <3>3. PICK s \in Renders : Saving(s) /\ step[s] <= i
      BY <3>1, <3>2 DEF CacheInv, SavesGoOn
    <3>4. CASE s = t
      BY <1>1, <1>2, <3>1, <3>3, <3>4 DEF Saving
    <3>5. CASE s # t
      BY <1>2, <3>3, <3>5 DEF Saving
    <3> QED BY <3>4, <3>5
  <2> QED BY <2>1, <2>2
<1> QED
  BY <1>1, <1>2, <1>4, WriteInv DEF Saving

-----------------------------------------------------------------------------
\* A fault leaves the files as they are and ends those it hits.
LEMMA FaultInv ==
    ASSUME CacheInv, CacheTypeOK', Restart \/ \E t \in Renders : WriteFails(t)
    PROVE  CacheInv'
<1>0. CacheTypeOK
  BY DEF CacheInv
<1>1. faults' # 0
  BY <1>0, MaxFaultsAssumption DEF Restart, WriteFails, CacheTypeOK
<1>2. files' = files
  BY DEF Restart, WriteFails
<1>3. \A t \in Renders :
        \/ pc'[t] = "out"
        \/ pc'[t] = pc[t] /\ step'[t] = step[t] /\ got'[t] = got[t]
  BY <1>0 DEF Restart, WriteFails, GoTo, CacheTypeOK
<1>4. PrefixSaved' /\ SavesGoOn'
  BY <1>1, <1>2 DEF CacheInv, PrefixSaved, SavesGoOn
<1>5. SavedSoFar'
  BY <1>2, <1>3 DEF CacheInv, SavedSoFar, Saving
<1>6. AtFirstFile' /\ RestoredSoFar'
  BY <1>2, <1>3 DEF CacheInv, AtFirstFile, RestoredSoFar
<1> QED
  BY <1>4, <1>5, <1>6 DEF CacheInv

\* Every step keeps the invariant.
LEMMA CacheNextInv == CacheInv /\ [CacheNext]_cacheVars => CacheInv'
<1> SUFFICES ASSUME CacheInv, [CacheNext]_cacheVars PROVE CacheInv'
  OBVIOUS
<1>1. CacheTypeOK'
  BY CacheTypeNext DEF CacheInv
<1>2. ASSUME NEW t \in Renders, RenderStep(t) PROVE CacheInv'
  BY <1>1, <1>2, LoadInv, ReadInv, OpenInv, FillInv DEF RenderStep
<1>3. CASE Restart \/ \E t \in Renders : WriteFails(t)
  BY <1>1, <1>3, FaultInv
<1>4. CASE UNCHANGED cacheVars
  BY <1>1, <1>4 DEF cacheVars, CacheInv, PrefixSaved, SavedSoFar, AtFirstFile, RestoredSoFar,
                    SavesGoOn, Saving
<1> QED
  BY <1>2, <1>3, <1>4 DEF CacheNext

\* The inductive invariant holds in every reachable state.
THEOREM CacheInvariant == CacheSpec => []CacheInv
BY CacheInitInv, CacheNextInv, PTL DEF CacheSpec

-----------------------------------------------------------------------------
(* The theorems.                                                           *)

\* Every variable keeps its type.
THEOREM CacheTypeCorrect == CacheSpec => []CacheTypeOK
<1>1. CacheInv => CacheTypeOK
  BY DEF CacheInv
<1> QED BY <1>1, CacheInvariant, PTL

\* A hit has restored every file of the snapshot, also while others write it
\* and after saves that were cut off.
THEOREM HitsAreComplete == CacheSpec => []HitIsComplete
<1>1. CacheInv => HitIsComplete
  BY DEF CacheInv, RestoredSoFar, HitIsComplete
<1> QED BY <1>1, CacheInvariant, PTL

\* Without faults a key that nobody saves is absent or whole.
THEOREM QuiescentKeysAreWhole == CacheSpec => []QuiescentKeyIsWhole
<1>1. ASSUME CacheInv, faults = 0, \A t \in Renders : ~Saving(t)
      PROVE  AllWhole \/ \A f \in Files : files[f] = "none"
  <2>1. \A i \in 1..7 : files[SaveOrder[i]] # "partial"
    BY <1>1 DEF CacheInv, SavesGoOn, Saving
  <2>2. \A f \in Files : files[f] \in {"none", "whole"}
    BY <1>1, <2>1, Orders DEF CacheInv, CacheTypeOK
  <2>3. CASE files["metadata"] = "none"
    <3>1. \A i \in 1..7 : files[SaveOrder[i]] = "none"
      BY <1>1, <2>3, Orders DEF CacheInv, PrefixSaved
    <3> QED
      BY <3>1, Orders
  <2>4. CASE files["metadata"] # "none"
    <3>1. \A i \in 1..7 : files[SaveOrder[i]] # "none"
      BY <1>1, <2>4 DEF CacheInv, SavesGoOn
    <3> QED
      BY <2>2, <3>1, Orders DEF AllWhole
  <2> QED BY <2>3, <2>4
<1>2. CacheInv => QuiescentKeyIsWhole
  BY <1>1 DEF QuiescentKeyIsWhole
<1> QED BY <1>2, CacheInvariant, PTL
=============================================================================
