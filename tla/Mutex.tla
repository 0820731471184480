-------------------------------- MODULE Mutex --------------------------------
(***************************************************************************)
(* MutexT of sflang/src/concurrency.rs: lock, tryLock, unlock and close    *)
(* called by tasks and by threads at once.                                 *)
(*                                                                         *)
(* Each critical section of `inner` is one action.  unlock hands the lock  *)
(* to the first waiting task: `held` stays true and the task owns the lock *)
(* before it runs again.  Only when no task waits is the lock free, and a  *)
(* waiting thread is notified.                                             *)
(*                                                                         *)
(* Clients unlock only what they hold; the code does not check it.         *)
(*                                                                         *)
(* Operators named Bug... are plausible mistakes that the runs are tried   *)
(* against; no specification uses them.                                    *)
(***************************************************************************)
EXTENDS Callers, Naturals, Sequences, FiniteSets

VARIABLES
  held,     \* MuState.held
  waiters,  \* MuState.waiters
  pc,       \* where each caller is
  waking    \* the task a caller of unlock is handing the lock to, or None

vars == <<held, waiters, pc, waking>>

Init ==
  /\ held = FALSE
  /\ waiters = <<>>
  /\ pc = [p \in Procs |-> "idle"]
  /\ waking = [p \in Procs |-> None]

\* lock() or tryLock() on a free lock; a notified thread looks again.
Lock(p) ==
  /\ pc[p] \in {"idle", "notified"} /\ ~held
  /\ held' = TRUE
  /\ pc' = [pc EXCEPT ![p] = "holding"]
  /\ UNCHANGED <<waiters, waking>>

\* lock() on a held lock: a task parks and queues, a thread waits on cv.
ParkTask(p) ==
  /\ p \in Tasks /\ pc[p] = "idle" /\ held
  /\ waiters' = Append(waiters, p)
  /\ pc' = [pc EXCEPT ![p] = "parked"]
  /\ UNCHANGED <<held, waking>>

WaitThread(p) ==
  /\ p \in Threads /\ pc[p] \in {"idle", "notified"} /\ held
  /\ pc' = [pc EXCEPT ![p] = "cv"]
  /\ UNCHANGED <<held, waiters, waking>>

\* unlock() with a task waiting: the lock changes hands without becoming free.
BugHandOver(p) ==
  /\ pc[p] = "holding" /\ waiters # <<>>
  /\ waking' = [waking EXCEPT ![p] = Head(waiters)]
  /\ waiters' = Tail(waiters)
  /\ pc' = [pc EXCEPT ![p] = "wake"]
  /\ held' = FALSE

HandOver(p) ==
  /\ pc[p] = "holding" /\ waiters # <<>>
  /\ waking' = [waking EXCEPT ![p] = Head(waiters)]
  /\ waiters' = Tail(waiters)
  /\ pc' = [pc EXCEPT ![p] = "wake"]
  /\ UNCHANGED held

\* wake_task_with, after `inner` is released: the new owner goes on.
WakeOwner(p) ==
  /\ pc[p] = "wake"
  /\ pc' = [pc EXCEPT ![p] = "idle", ![waking[p]] = "holding"]
  /\ waking' = [waking EXCEPT ![p] = None]
  /\ UNCHANGED <<held, waiters>>

\* unlock() with no task waiting; close() (MutexT::release) differs only in that
\* it notifies before it lets go of `inner`.
Free(p) ==
  /\ pc[p] = "holding" /\ waiters = <<>>
  /\ held' = FALSE
  /\ pc' = [pc EXCEPT ![p] = "notify"]
  /\ UNCHANGED <<waiters, waking>>

BugNotifyOne(p) ==
  /\ pc[p] = "notify"
  /\ pc' = [pc EXCEPT ![p] = "idle"]
  /\ UNCHANGED <<held, waiters, waking>>

NotifyOne(p) ==
  /\ pc[p] = "notify"
  /\ \/ /\ \A q \in Threads : pc[q] # "cv"
        /\ pc' = [pc EXCEPT ![p] = "idle"]
     \/ \E q \in Threads :
          /\ pc[q] = "cv"
          /\ pc' = [pc EXCEPT ![p] = "idle", ![q] = "notified"]
  /\ UNCHANGED <<held, waiters, waking>>

Step(p) ==
  \/ Lock(p) \/ ParkTask(p) \/ WaitThread(p)
  \/ HandOver(p) \/ WakeOwner(p) \/ Free(p) \/ NotifyOne(p)

Next == \E p \in Procs : Step(p)

Spec == Init /\ [][Next]_vars

\* Owners unlock, hand-overs and notifications complete, notified threads run.
Progress(p) == pc[p] # "idle" /\ Step(p)
FairSpec == Spec /\ \A p \in Procs : WF_vars(Progress(p))

-----------------------------------------------------------------------------
Pcs == {"idle", "parked", "cv", "notified", "holding", "wake", "notify"}

\* Every variable keeps to its type.
TypeOK ==
  /\ held \in BOOLEAN
  /\ waiters \in Seq(Tasks)
  /\ pc \in [Procs -> Pcs]
  /\ waking \in [Procs -> Tasks \cup {None}]

\* Who may enter the critical section: the holder, or the task the lock has been
\* handed to but which has not been woken yet.
Owns(p) == pc[p] = "holding" \/ \E q \in Procs : waking[q] = p

\* Mutual exclusion across hand-overs, barging and the two kinds of callers; and
\* the flag is set exactly while somebody owns the lock.
MutualExclusion ==
  /\ \A p, q \in Procs : Owns(p) /\ Owns(q) => p = q
  /\ held <=> \E p \in Procs : Owns(p)

\* A free lock has no task waiting for it, and a thread on cv only while a
\* notification is under way or has just been delivered.
NobodyWaitsForFreeLock ==
  ~held => /\ waiters = <<>>
           /\ (\E p \in Threads : pc[p] = "cv") =>
                 \E q \in Procs : pc[q] \in {"notify", "notified"}

\* A waiting task gets the lock: no caller can overtake the queue for ever.
TasksAreServed == \A t \in Tasks : pc[t] = "parked" ~> pc[t] = "holding"

\* While threads wait, somebody keeps getting the lock (a thread may be overtaken
\* by tasks without end, so no more than this holds for it).
ThreadsMakeProgress ==
  (\E p \in Threads : pc[p] = "cv") ~> (held \/ \A p \in Threads : pc[p] # "cv")

\* The mutex implements the abstract lock.
TheOwner == IF \E p \in Procs : Owns(p) THEN CHOOSE p \in Procs : Owns(p) ELSE None
Abstract == INSTANCE AbstractLock WITH owner <- TheOwner
ImplementsLock == Abstract!Spec
=============================================================================
