------------------------------- MODULE Channel -------------------------------
(***************************************************************************)
(* Channel of sflang/src/concurrency.rs: chanSend, chanRecv and            *)
(* chanTryRecv on one unbounded channel, by tasks and threads at once.     *)
(*                                                                         *)
(* Each critical section of `inner` is one action.  A send gives its value *)
(* to the first parked receiver, by injection, or queues it.  Values are   *)
(* numbered in the order in which their sends take the lock.               *)
(*                                                                         *)
(* Bound: at most MaxSends values are sent.                                *)
(*                                                                         *)
(* Operators named Bug... are plausible mistakes that the runs are tried   *)
(* against; no specification uses them.                                    *)
(***************************************************************************)
EXTENDS Callers, Naturals, Sequences, FiniteSets

CONSTANTS Senders, MaxSends

VARIABLES
  sent,     \* number of values sent
  queue,    \* ChanState.queue
  waiters,  \* ChanState.recv_waiters
  pc,       \* where each receiver is
  got,      \* the values each receiver's calls have returned, in order
  out       \* what each sender still has to do: [pc, to, val]

vars == <<sent, queue, waiters, pc, got, out>>

Receivers == Procs
Values == 1 .. MaxSends
Quiet == [pc |-> "idle", to |-> None, val |-> 0]

Init ==
  /\ sent = 0
  /\ queue = <<>>
  /\ waiters = <<>>
  /\ pc = [r \in Receivers |-> "idle"]
  /\ got = [r \in Receivers |-> <<>>]
  /\ out = [s \in Senders |-> Quiet]

CanSend(s) == out[s].pc = "idle" /\ sent < MaxSends

\* chanSend with a receiver parked: it gets the value, the queue is bypassed.
SendToWaiter(s) ==
  /\ CanSend(s) /\ waiters # <<>>
  /\ sent' = sent + 1
  /\ waiters' = Tail(waiters)
  /\ out' = [out EXCEPT ![s] = [pc |-> "wake", to |-> Head(waiters), val |-> sent + 1]]
  /\ UNCHANGED <<queue, pc, got>>

\* wake_task_with, after `inner` is released: the receive returns the value.
Inject(s) ==
  /\ out[s].pc = "wake"
  /\ got' = [got EXCEPT ![out[s].to] = Append(@, out[s].val)]
  /\ pc' = [pc EXCEPT ![out[s].to] = "idle"]
  /\ out' = [out EXCEPT ![s] = Quiet]
  /\ UNCHANGED <<sent, queue, waiters>>

\* chanSend with no receiver parked.
BugSendToQueue(s) ==
  /\ CanSend(s)
  /\ sent' = sent + 1
  /\ queue' = Append(queue, sent + 1)
  /\ out' = [out EXCEPT ![s].pc = "notify"]
  /\ UNCHANGED <<waiters, pc, got>>

SendToQueue(s) ==
  /\ CanSend(s) /\ waiters = <<>>
  /\ sent' = sent + 1
  /\ queue' = Append(queue, sent + 1)
  /\ out' = [out EXCEPT ![s].pc = "notify"]
  /\ UNCHANGED <<waiters, pc, got>>

\* cv.notify_one, after `inner` is released.
Notify(s) ==
  /\ out[s].pc = "notify"
  /\ \/ (\A r \in Threads : pc[r] # "cv") /\ UNCHANGED pc
     \/ \E r \in Threads : pc[r] = "cv" /\ pc' = [pc EXCEPT ![r] = "notified"]
  /\ out' = [out EXCEPT ![s] = Quiet]
  /\ UNCHANGED <<sent, queue, waiters, got>>

\* chanRecv (or chanTryRecv) finds a value; it does so even while other receivers
\* have been notified and not yet run.
BugTaken       == queue[Len(queue)]
Taken          == Head(queue)

BugRemaining == queue
Remaining    == Tail(queue)

TakeValue(r) ==
  /\ pc[r] \in {"idle", "notified"} /\ queue # <<>>
  /\ got' = [got EXCEPT ![r] = Append(@, Taken)]
  /\ queue' = Remaining
  /\ pc' = [pc EXCEPT ![r] = "idle"]
  /\ UNCHANGED <<sent, waiters, out>>

\* chanRecv by a task on an empty queue: parked and registered under the lock.
ParkTask(r) ==
  /\ r \in Tasks /\ pc[r] = "idle" /\ queue = <<>>
  /\ waiters' = Append(waiters, r)
  /\ pc' = [pc EXCEPT ![r] = "parked"]
  /\ UNCHANGED <<sent, queue, got, out>>

\* chanRecv by a thread on an empty queue.
WaitThread(r) ==
  /\ r \in Threads /\ pc[r] \in {"idle", "notified"} /\ queue = <<>>
  /\ pc' = [pc EXCEPT ![r] = "cv"]
  /\ UNCHANGED <<sent, queue, waiters, got, out>>

Send(s) == SendToWaiter(s) \/ SendToQueue(s)
Finish(s) == Inject(s) \/ Notify(s)
Receive(r) == TakeValue(r) \/ ParkTask(r) \/ WaitThread(r)

Next == (\E s \in Senders : Send(s) \/ Finish(s)) \/ (\E r \in Receivers : Receive(r))

Spec == Init /\ [][Next]_vars

\* A send that has begun completes, a notified thread runs; nobody has to send
\* or receive.
FairSpec ==
  /\ Spec
  /\ \A s \in Senders : WF_vars(Finish(s))
  /\ \A r \in Threads : WF_vars(Receive(r) /\ pc[r] = "notified")

-----------------------------------------------------------------------------
Entries(seq) == {seq[i] : i \in DOMAIN seq}

\* Every variable keeps to its type.
TypeOK ==
  /\ sent \in 0 .. MaxSends
  /\ queue \in Seq(Values)
  /\ waiters \in Seq(Tasks)
  /\ pc \in [Receivers -> {"idle", "parked", "cv", "notified"}]
  /\ got \in [Receivers -> Seq(Values)]
  /\ out \in [Senders -> [pc : {"idle", "wake", "notify"}, to : Tasks \cup {None}, val : 0 .. MaxSends]]

\* Each value sent is in exactly one place: the queue, on its way to one parked
\* task, or received once.
Occurrences(v) ==
  Cardinality({i \in DOMAIN queue : queue[i] = v})
  + Cardinality({s \in Senders : out[s].pc = "wake" /\ out[s].val = v})
  + Cardinality({at \in Receivers \X Values : at[2] \in DOMAIN got[at[1]] /\ got[at[1]][at[2]] = v})
ExactlyOnce == \A v \in Values : Occurrences(v) = IF v <= sent THEN 1 ELSE 0

\* A receiver gets the values in the order they were sent, though some come by
\* injection and others through the queue.
ReceivedInOrder ==
  \A r \in Receivers : \A i, j \in DOMAIN got[r] : i < j => got[r][i] < got[r][j]

\* Nothing queued is older than what a receiver has got or is about to get: the
\* hand-over to a parked task does not overtake the queue.
QueueIsNewest ==
  \A v \in Entries(queue) :
    /\ \A r \in Receivers : \A w \in Entries(got[r]) : w < v
    /\ \A s \in Senders : out[s].pc = "wake" => out[s].val < v

\* No value waits in the queue while a task is parked for one; and a thread waits
\* beside a queued value only while a notification is on its way to one.
NoMissedValue ==
  queue # <<>> =>
    /\ waiters = <<>>
    /\ (\E r \in Threads : pc[r] = "cv") =>
         \/ \E s \in Senders : out[s].pc = "notify"
         \/ \E r \in Threads : pc[r] = "notified"

\* Parked receivers are served in the order of their calls: the i-th in the queue
\* has returned when i more values have been sent.
ReceiverIsServed ==
  \A r \in Tasks : \A i \in 1 .. Cardinality(Tasks) :
    (i \in DOMAIN waiters /\ waiters[i] = r /\ sent + i <= MaxSends) ~> pc[r] = "idle"
=============================================================================
