----------------------------- MODULE AbstractLock -----------------------------
(***************************************************************************)
(* What lock and unlock of sflang/src/concurrency.rs promise (comment of   *)
(* MutexT): at most one owner; it frees the lock or hands it to another.   *)
(***************************************************************************)
EXTENDS Callers

VARIABLE owner

Init == owner = None

Acquire(p) == owner = None /\ owner' = p
Release(p) == owner = p /\ owner' = None

\* Only a task can be handed the lock.
HandOver(p, t) == owner = p /\ owner' = t

Next == \/ \E p \in Procs : Acquire(p) \/ Release(p)
        \/ \E p \in Procs, t \in Tasks : HandOver(p, t)

Spec == Init /\ [][Next]_owner
=============================================================================
