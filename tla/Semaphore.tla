------------------------------ MODULE Semaphore ------------------------------
(***************************************************************************)
(* SemaphoreT of sflang/src/concurrency.rs: semAcquire and semRelease      *)
(* called by tasks and by threads at once.                                 *)
(*                                                                         *)
(* Each critical section of `mu` is one action.  A waiting task is parked  *)
(* (retry type: once woken it calls semAcquire again); a waiting thread is *)
(* in the condition variable's loop.  semRelease wakes one of each, after  *)
(* it has let go of `mu`, so a woken caller may find the permit taken.     *)
(* From the scheduler it needs what TaskLifecycle promises.                *)
(*                                                                         *)
(* Clients release only what they hold; the code cannot check that.        *)
(*                                                                         *)
(* Operators named Bug... are plausible mistakes that the runs are tried   *)
(* against; no specification uses them.                                    *)
(***************************************************************************)
EXTENDS Callers, Integers, Sequences, FiniteSets

CONSTANT Permits  \* argument of newSemaphore

VARIABLES
  count,    \* permits left
  waiters,  \* tasks waiting for a permit, first come first
  pc,       \* where each caller is
  waking    \* the task a releasing caller has taken from waiters, or None

vars == <<count, waiters, pc, waking>>

Init ==
  /\ count = Permits
  /\ waiters = <<>>
  /\ pc = [p \in Procs |-> "idle"]
  /\ waking = [p \in Procs |-> None]

\* A caller entering semAcquire, for the first time or again.
Trying(p) == pc[p] \in {"idle", "woken", "notified"}

BugPermitLeft == count >= 0
PermitLeft    == count > 0

Acquire(p) ==
  /\ Trying(p) /\ PermitLeft
  /\ count' = count - 1
  /\ pc' = [pc EXCEPT ![p] = "holding"]
  /\ UNCHANGED <<waiters, waking>>

\* No permit: a task parks and is registered while `mu` is held, ...
ParkTask(p) ==
  /\ p \in Tasks /\ Trying(p) /\ ~PermitLeft
  /\ waiters' = Append(waiters, p)
  /\ pc' = [pc EXCEPT ![p] = "parked"]
  /\ UNCHANGED <<count, waking>>

\* ... a thread waits on cv, which lets go of `mu`.
WaitThread(p) ==
  /\ p \in Threads /\ Trying(p) /\ ~PermitLeft
  /\ pc' = [pc EXCEPT ![p] = "cv"]
  /\ UNCHANGED <<count, waiters, waking>>

\* The first waiting task, if there is one, is taken off the queue.
BugFirstWaiter == None
FirstWaiter    == IF waiters = <<>> THEN None ELSE Head(waiters)

Release(p) ==
  /\ pc[p] = "holding"
  /\ count' = count + 1
  /\ waking' = [waking EXCEPT ![p] = FirstWaiter]
  /\ waiters' = IF waiters = <<>> THEN waiters ELSE Tail(waiters)
  /\ pc' = [pc EXCEPT ![p] = "wake"]

\* wake_task, outside the critical section.
WakeTask(p) ==
  /\ pc[p] = "wake"
  /\ pc' = [q \in Procs |-> IF q = p THEN "notify"
                            ELSE IF q = waking[p] THEN "woken" ELSE pc[q]]
  /\ waking' = [waking EXCEPT ![p] = None]
  /\ UNCHANGED <<count, waiters>>

\* cv.notify_one reaches one waiting thread, if there is one.
Notified(q)    == pc[q] = "cv"

NotifyOne(p) ==
  /\ pc[p] = "notify"
  /\ \/ /\ \A q \in Threads : ~Notified(q)
        /\ pc' = [pc EXCEPT ![p] = "idle"]
     \/ \E q \in Threads :
          /\ Notified(q)
          /\ pc' = [pc EXCEPT ![p] = "idle", ![q] = "notified"]
  /\ UNCHANGED <<count, waiters, waking>>

Step(p) ==
  \/ Acquire(p) \/ ParkTask(p) \/ WaitThread(p)
  \/ Release(p) \/ WakeTask(p) \/ NotifyOne(p)

Next == \E p \in Procs : Step(p)

Spec == Init /\ [][Next]_vars

\* Holders release, woken tasks and notified threads run, releases complete;
\* nobody has to call semAcquire.
Progress(p) == pc[p] # "idle" /\ Step(p)
FairSpec == Spec /\ \A p \in Procs : WF_vars(Progress(p))

-----------------------------------------------------------------------------
Pcs == {"idle", "parked", "woken", "cv", "notified", "holding", "wake", "notify"}

\* Every variable keeps to its type.
TypeOK ==
  /\ count \in Nat
  /\ waiters \in Seq(Tasks)
  /\ pc \in [Procs -> Pcs]
  /\ waking \in [Procs -> Tasks \cup {None}]

Holders == {p \in Procs : pc[p] = "holding"}

\* Callers that are on their way to try again, because of a release.
Coming == {t \in Tasks : pc[t] = "woken"}
          \cup {p \in Procs : pc[p] = "wake" /\ waking[p] # None}
ComingThreads == {t \in Threads : pc[t] = "notified"}
                 \cup {p \in Procs : pc[p] \in {"wake", "notify"}}

\* A permit is either left or held: barging, retries and the two wake-up paths
\* neither lose nor create one, so never more than Permits callers hold.
PermitsConserved ==
  count + Cardinality(Holders) = Permits /\ Cardinality(Holders) <= Permits

\* No lost wake-up for tasks: while tasks are queued, every permit left is matched
\* by a task already taken off the queue that will try for it.
NoTaskLeftBehind == waiters # <<>> => count <= Cardinality(Coming)

\* No lost wake-up for threads: a thread stays on cv beside a free permit only
\* while a woken caller or a notification is on its way.
NoThreadLeftBehind ==
  (\E t \in Threads : pc[t] = "cv") => count <= Cardinality(Coming) + Cardinality(ComingThreads)

\* A parked task is queued exactly once, or just taken off the queue by the one
\* caller that will wake it.
WaitersAreParked ==
  \A t \in Tasks :
    Cardinality({i \in DOMAIN waiters : waiters[i] = t}) + Cardinality({p \in Procs : waking[p] = t})
      = IF pc[t] = "parked" THEN 1 ELSE 0

\* While anybody waits, a permit that is free does not stay free.
FreePermitIsTaken ==
  (count > 0 /\ \E p \in Procs : pc[p] \in {"parked", "cv"})
    ~> (count = 0 \/ \A p \in Procs : pc[p] \notin {"parked", "cv"})
=============================================================================
