------------------------------ MODULE Callers ------------------------------
(***************************************************************************)
(* Who calls the primitives of sflang/src/concurrency.rs: tasks of the     *)
(* scheduler, which park, and OS threads (the main script, threadRun, the  *)
(* threads of poolRun), which wait on a condition variable.                *)
(***************************************************************************)
CONSTANTS Tasks, Threads, None

ASSUME CallersAssumption ==
  /\ Tasks \cap Threads = {}
  /\ None \notin Tasks \cup Threads

Procs == Tasks \cup Threads
=============================================================================
