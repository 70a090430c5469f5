--------------------------- MODULE PreprocessCache ---------------------------
(***************************************************************************)
(* FilesystemPreprocessCacheRepository, and the part of the render         *)
(* pipeline that uses it, for one cache key: renders that load the         *)
(* snapshot of the key, or compute and save it.  There is no lock, no      *)
(* temporary file and no rename: a snapshot is one directory that load     *)
(* reads and save writes file by file.                                     *)
(*                                                                         *)
(* The key is a hash of the image, the runtime signature and the sizes, so *)
(* renders of one image that differ in shadow, background or output share  *)
(* it.  They save the same snapshot: what a file holds is told apart only  *)
(* by being absent, cut short or whole.                                    *)
(***************************************************************************)
EXTENDS Integers, Sequences, FiniteSets

CONSTANTS
    Renders,    \* the threads that render: job workers and the event loop
    MaxFaults   \* bound: failed writes and restarts

ASSUME MaxFaultsAssumption == MaxFaults \in Nat

VARIABLES
    files,   \* files[f]: "none", "partial" or "whole"
    pc,      \* pc[t]: where render t is
    step,    \* step[t]: index of the file t reads or writes next
    got,     \* got[t]: the files t's load has restored
    faults   \* failed writes and restarts so far

cacheVars == <<files, pc, step, got, faults>>

Files == {"metadata", "mask", "cutout", "crop", "foreground", "depth", "normals"}

\* The order in which load evaluates its arguments.
LoadOrder == <<"metadata", "mask", "cutout", "crop", "depth", "normals", "foreground">>

\* Mutant of SaveOrder: the optional file is saved last.
SaveForegroundLast ==
    <<"metadata", "mask", "cutout", "crop", "depth", "normals", "foreground">>

\* Mutant of SaveOrder: one asset is forgotten.
SaveWithoutCrop == <<"metadata", "mask", "cutout", "foreground", "depth", "normals">>

\* The order in which save writes; the pipeline always has a refinement.
SaveOrder == <<"metadata", "mask", "cutout", "crop", "foreground", "depth", "normals">>

CacheInit ==
    /\ files = [f \in Files |-> "none"]
    /\ pc = [t \in Renders |-> "out"]
    /\ step = [t \in Renders |-> 1]
    /\ got = [t \in Renders |-> {}]
    /\ faults = 0

GoTo(t, position) == pc' = [pc EXCEPT ![t] = position]

-----------------------------------------------------------------------------
(* load(key).                                                              *)

Begin(t) ==
    /\ pc[t] = "out"
    /\ GoTo(t, "look")
    /\ step' = [step EXCEPT ![t] = 1]
    /\ got' = [got EXCEPT ![t] = {}]
    /\ UNCHANGED <<files, faults>>

\* The one test that tells a hit from a miss.
Look(t) ==
    /\ pc[t] = "look"
    /\ GoTo(t, IF files["metadata"] = "none" THEN "compute" ELSE "read")
    /\ UNCHANGED <<files, step, got, faults>>

\* A file that is absent or cut short does not decode, which raises; only
\* the foreground may be absent.
Skipped(f) == f = "foreground" /\ files[f] = "none"

Read(t) ==
    /\ pc[t] = "read"
    /\ LET f == LoadOrder[step[t]]
           readable == files[f] = "whole" \/ Skipped(f)
           last == step[t] = Len(LoadOrder)
       IN  /\ GoTo(t, IF ~readable THEN "load_raised" ELSE IF last THEN "hit" ELSE "read")
           /\ got' = [got EXCEPT ![t] = IF files[f] = "whole" THEN @ \cup {f} ELSE @]
           /\ step' = [step EXCEPT ![t] = IF readable /\ ~last THEN @ + 1 ELSE @]
    /\ UNCHANGED <<files, faults>>

-----------------------------------------------------------------------------
(* A miss: the stages run and save(key, snapshot) writes their results.    *)

\* The stages end, or one of them fails the render.
Compute(t) ==
    /\ pc[t] = "compute"
    /\ \E position \in {"open", "out"} : GoTo(t, position)
    /\ UNCHANGED <<files, step, got, faults>>

\* write_bytes and write_text empty the file first ...
Open(t) ==
    /\ pc[t] = "open"
    /\ files' = [files EXCEPT ![SaveOrder[step[t]]] = "partial"]
    /\ GoTo(t, "fill")
    /\ UNCHANGED <<step, got, faults>>

\* ... and then fill it.
Fill(t) ==
    /\ pc[t] = "fill"
    /\ files' = [files EXCEPT ![SaveOrder[step[t]]] = "whole"]
    /\ LET last == step[t] = Len(SaveOrder)
       IN  /\ GoTo(t, IF last THEN "out" ELSE "open")
           /\ step' = [step EXCEPT ![t] = IF last THEN @ ELSE @ + 1]
    /\ UNCHANGED <<got, faults>>

\* The disk refuses a write: save raises where it is, and so does the render.
WriteFails(t) ==
    /\ faults < MaxFaults
    /\ pc[t] \in {"open", "fill"}
    /\ faults' = faults + 1
    /\ GoTo(t, "out")
    /\ UNCHANGED <<files, step, got>>

\* The render goes on with its snapshot, or fails with load's exception.
Leave(t) ==
    /\ pc[t] \in {"hit", "load_raised"}
    /\ GoTo(t, "out")
    /\ UNCHANGED <<files, step, got, faults>>

\* The service is killed and started again: only the files stay.
Restart ==
    /\ faults < MaxFaults
    /\ faults' = faults + 1
    /\ pc' = [t \in Renders |-> "out"]
    /\ step' = [t \in Renders |-> 1]
    /\ got' = [t \in Renders |-> {}]
    /\ UNCHANGED files

-----------------------------------------------------------------------------
RenderStep(t) == Begin(t) \/ Look(t) \/ Read(t) \/ Compute(t) \/ Open(t) \/ Fill(t) \/ Leave(t)

CacheNext ==
    \/ \E t \in Renders : RenderStep(t) \/ WriteFails(t)
    \/ Restart

CacheSpec == CacheInit /\ [][CacheNext]_cacheVars

-----------------------------------------------------------------------------
(* Properties.                                                             *)

\* The domains of the variables.
CacheTypeOK ==
    /\ files \in [Files -> {"none", "partial", "whole"}]
    /\ pc \in [Renders -> {"out", "look", "read", "hit", "load_raised",
                           "compute", "open", "fill"}]
    /\ step \in [Renders -> 1..Len(LoadOrder)]
    /\ got \in [Renders -> SUBSET Files]
    /\ faults \in 0..MaxFaults

Saving(t) == pc[t] \in {"open", "fill"}
AllWhole == \A f \in Files : files[f] = "whole"

\* A hit never lacks the refined foreground although load takes its absence
\* for an old snapshot: save writes it before the normals, load looks for it
\* after them.  True of overlapping saves and of a save cut off anywhere.
HitIsComplete == \A t \in Renders : pc[t] = "hit" => got[t] = Files

\* Unless a write failed or the service stopped during one, a key nobody is
\* saving is absent or whole, however its saves overlapped.
QuiescentKeyIsWhole ==
    faults = 0 /\ (\A t \in Renders : ~Saving(t))
        => AllWhole \/ \A f \in Files : files[f] = "none"

-----------------------------------------------------------------------------
(* What the repository's contract says, where the code does otherwise:     *)
(* load returns a snapshot or None (core/contracts.py:101).                *)

\* With no fault at all, load restores a snapshot or reports a miss.
LoadNeverRaises == \A t \in Renders : pc[t] # "load_raised"
=============================================================================
