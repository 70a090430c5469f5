------------------------------ MODULE OnceCell ------------------------------
(***************************************************************************)
(* What a lazily created object promises to the threads that share it: it  *)
(* is created at most once, every use that does not fail gets that one, and*)
(* a use that fails leaves it to the next to create it.                    *)
(***************************************************************************)
EXTENDS Naturals

CONSTANTS Threads, None, Failed

VARIABLES
    cell,  \* the object, a number, or None
    got    \* [Threads -> what the thread's last use was given, None or Failed]

onceVars == <<cell, got>>

OnceInit ==
    /\ cell = None
    /\ got = [t \in Threads |-> None]

Create ==
    /\ cell = None
    /\ cell' \in Nat
    /\ UNCHANGED got

Use(t) ==
    /\ cell # None
    /\ got' = [got EXCEPT ![t] = cell]
    /\ UNCHANGED cell

\* A use can fail only while there is nothing to use.
UseFails(t) ==
    /\ cell = None
    /\ got' = [got EXCEPT ![t] = Failed]
    /\ UNCHANGED cell

Forget(t) ==
    /\ got' = [got EXCEPT ![t] = None]
    /\ UNCHANGED cell

OnceNext == Create \/ \E t \in Threads : Use(t) \/ UseFails(t) \/ Forget(t)

OnceSpec == OnceInit /\ [][OnceNext]_onceVars
=============================================================================
