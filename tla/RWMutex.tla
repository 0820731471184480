------------------------------- MODULE RWMutex -------------------------------
(***************************************************************************)
(* RWMutexT of sflang/src/concurrency.rs: rlock, runlock, wlock, wunlock   *)
(* and close, called by tasks and by threads at once.                      *)
(*                                                                         *)
(* Each critical section of `inner` is one action.  Whoever releases       *)
(* admits waiting tasks before it lets go of `inner` (the new holders are  *)
(* counted on their behalf), and then notifies all waiting threads.        *)
(*                                                                         *)
(* Clients unlock only what they hold; the code does not check it.         *)
(*                                                                         *)
(* Operators named Bug... are plausible mistakes that the runs are tried   *)
(* against; no specification uses them.                                    *)
(***************************************************************************)
EXTENDS Callers, Integers, Sequences, FiniteSets

VARIABLES
  readers,         \* RWState.readers
  writer,          \* RWState.writer
  writer_waiting,  \* RWState.writer_waiting
  waiters,         \* RWInner.waiters: tasks with the lock they wait for
  pc               \* where each caller is

vars == <<readers, writer, writer_waiting, waiters, pc>>
Waiter == [task : Tasks, mode : {"read", "write"}]

Init ==
  /\ readers = 0
  /\ writer = FALSE
  /\ writer_waiting = 0
  /\ waiters = <<>>
  /\ pc = [p \in Procs |-> "idle"]

-----------------------------------------------------------------------------
\* What admit does to a state: how many tasks it pops off the queue.  Readers go
\* as long as readers are at the front; a writer goes alone and on a free lock.
LeadingReaders(q) ==
  CHOOSE n \in 0 .. Len(q) :
    /\ \A i \in 1 .. n : q[i].mode = "read"
    /\ n < Len(q) => q[n + 1].mode = "write"

BugAdmitted(q, r, w) ==
  IF w \/ q = <<>> THEN 0
  ELSE IF Head(q).mode = "write" THEN 1
  ELSE LeadingReaders(q)

Admitted(q, r, w) ==
  IF w \/ q = <<>> THEN 0
  ELSE IF Head(q).mode = "write" THEN (IF r = 0 THEN 1 ELSE 0)
  ELSE LeadingReaders(q)

\* The admitted readers are registered for them, while `inner` is held.
BugRegistered(r, admitted) == r
Registered(r, admitted)    == r + Cardinality(admitted)

\* p leaves the lock with r readers and no writer, and admits whom it can.
Release(p, r) ==
  LET n   == Admitted(waiters, r, FALSE)
      won == SubSeq(waiters, 1, n)
      in(mode) == {won[i].task : i \in {j \in 1 .. n : won[j].mode = mode}}
  IN  /\ readers' = Registered(r, in("read"))
      /\ writer' = (in("write") # {})
      /\ writer_waiting' = writer_waiting - Cardinality(in("write"))
      /\ waiters' = SubSeq(waiters, n + 1, Len(waiters))
      /\ pc' = [q \in Procs |->
                  CASE q = p -> "notify"
                    [] q \in in("read") -> "reading"
                    [] q \in in("write") -> "writing"
                    [] OTHER -> pc[q]]

-----------------------------------------------------------------------------
ReaderMayEnter    == ~writer /\ writer_waiting = 0
WriterMayEnter    == ~writer /\ readers = 0

\* rlock() when it need not wait; a notified thread looks again.
ReadLock(p) ==
  /\ pc[p] \in {"idle", "notified r"} /\ ReaderMayEnter
  /\ readers' = readers + 1
  /\ pc' = [pc EXCEPT ![p] = "reading"]
  /\ UNCHANGED <<writer, writer_waiting, waiters>>

\* rlock() that waits.
ParkReader(p) ==
  /\ p \in Tasks /\ pc[p] = "idle" /\ ~ReaderMayEnter
  /\ waiters' = Append(waiters, [task |-> p, mode |-> "read"])
  /\ pc' = [pc EXCEPT ![p] = "parked"]
  /\ UNCHANGED <<readers, writer, writer_waiting>>

WaitReader(p) ==
  /\ p \in Threads /\ pc[p] \in {"idle", "notified r"} /\ ~ReaderMayEnter
  /\ pc' = [pc EXCEPT ![p] = "cv r"]
  /\ UNCHANGED <<readers, writer, writer_waiting, waiters>>

\* wlock() when it need not wait.
WriteLock(p) ==
  /\ pc[p] = "idle" /\ WriterMayEnter
  /\ writer' = TRUE
  /\ pc' = [pc EXCEPT ![p] = "writing"]
  /\ UNCHANGED <<readers, writer_waiting, waiters>>

\* The loop of a thread's wlock(), which has counted itself among the waiting.
WriteLockAfterWait(p) ==
  /\ pc[p] = "notified w" /\ WriterMayEnter
  /\ writer' = TRUE
  /\ writer_waiting' = writer_waiting - 1
  /\ pc' = [pc EXCEPT ![p] = "writing"]
  /\ UNCHANGED <<readers, waiters>>

\* wlock() that waits.
ParkWriter(p) ==
  /\ p \in Tasks /\ pc[p] = "idle" /\ ~WriterMayEnter
  /\ writer_waiting' = writer_waiting + 1
  /\ waiters' = Append(waiters, [task |-> p, mode |-> "write"])
  /\ pc' = [pc EXCEPT ![p] = "parked"]
  /\ UNCHANGED <<readers, writer>>

WaitWriter(p) ==
  /\ p \in Threads /\ ~WriterMayEnter
  /\ \/ /\ pc[p] = "idle"
        /\ writer_waiting' = writer_waiting + 1
     \/ /\ pc[p] = "notified w"
        /\ UNCHANGED writer_waiting
  /\ pc' = [pc EXCEPT ![p] = "cv w"]
  /\ UNCHANGED <<readers, writer, waiters>>

\* A task that calls wlock() in a callback or a defer is refused by
\* park_current_task_inject, after it has counted itself.
RefusedWriter(p) ==
  /\ p \in Tasks /\ pc[p] = "idle" /\ ~WriterMayEnter
  /\ writer_waiting' = writer_waiting + 1
  /\ UNCHANGED <<readers, writer, waiters, pc>>

\* runlock(), wunlock(), and close() by a holder.
ReadUnlock(p) == pc[p] = "reading" /\ Release(p, readers - 1)
WriteUnlock(p) == pc[p] = "writing" /\ Release(p, readers)

\* notify_all, after `inner` is released.
NotifyAll(p) ==
  /\ pc[p] = "notify"
  /\ pc' = [q \in Procs |->
              CASE q = p -> "idle"
                [] pc[q] = "cv r" -> "notified r"
                [] pc[q] = "cv w" -> "notified w"
                [] OTHER -> pc[q]]
  /\ UNCHANGED <<readers, writer, writer_waiting, waiters>>

Step(p) ==
  \/ ReadLock(p) \/ ParkReader(p) \/ WaitReader(p)
  \/ WriteLock(p) \/ WriteLockAfterWait(p) \/ ParkWriter(p) \/ WaitWriter(p)
  \/ ReadUnlock(p) \/ WriteUnlock(p) \/ NotifyAll(p)

Next == \E p \in Procs : Step(p)

Spec == Init /\ [][Next]_vars

\* Holders unlock, notifications complete, notified threads run.
Progress(p) == pc[p] # "idle" /\ Step(p)
FairSpec == Spec /\ \A p \in Procs : WF_vars(Progress(p))

\* Tasks may also call wlock() in callbacks.
SpecWithCallbacks == Init /\ [][Next \/ \E p \in Tasks : RefusedWriter(p)]_vars

-----------------------------------------------------------------------------
Pcs == {"idle", "parked", "cv r", "cv w", "notified r", "notified w",
        "reading", "writing", "notify"}

Reading == {p \in Procs : pc[p] = "reading"}
Writing == {p \in Procs : pc[p] = "writing"}
QueuedWriters == {i \in DOMAIN waiters : waiters[i].mode = "write"}
WaitingThreads(mode) ==
  {p \in Threads : pc[p] \in (IF mode = "read" THEN {"cv r", "notified r"}
                                               ELSE {"cv w", "notified w"})}

\* Every variable keeps to its type; the counts, u32 in the code, stay natural.
TypeOK ==
  /\ readers \in Nat
  /\ writer \in BOOLEAN
  /\ writer_waiting \in Nat
  /\ waiters \in Seq(Waiter)
  /\ pc \in [Procs -> Pcs]

\* Readers or one writer, and the state counts exactly the holders, those that
\* were admitted while they slept included.
ReadersOrWriter ==
  /\ readers = Cardinality(Reading)
  /\ writer <=> Writing # {}
  /\ Cardinality(Writing) <= 1
  /\ Writing # {} => Reading = {}

\* writer_waiting is the number of queued writers (concurrency.rs:678-679).
WritersAreCounted ==
  writer_waiting = Cardinality(QueuedWriters) + Cardinality(WaitingThreads("write"))

\* Nobody is left behind: a task waits in the queue only if somebody holds the
\* lock, or a writer thread that will hold and release it has been notified; and
\* no thread waits on cv for a lock it may take unless a notification is coming.
NobodyIsStranded ==
  /\ readers = 0 /\ ~writer /\ waiters # <<>> =>
       WaitingThreads("write") # {} /\ \A i \in DOMAIN waiters : waiters[i].mode = "read"
  /\ \/ \E p \in Procs : pc[p] = "notify"
     \/ /\ WriterMayEnter => \A p \in Threads : pc[p] # "cv w"
        /\ ReaderMayEnter => \A p \in Threads : pc[p] # "cv r"

\* A task that waits gets its lock, whatever the others do.
TasksAreServed == \A t \in Tasks : pc[t] = "parked" ~> pc[t] \in {"reading", "writing"}
=============================================================================
