------------------------------ MODULE WaitGroup ------------------------------
(***************************************************************************)
(* WaitGroupT of sflang/src/concurrency.rs: wgAdd, wgDone and wgWait.      *)
(*                                                                         *)
(* wgAdd and wgDone are one action each: all of it, the waking included,   *)
(* happens with `mu` held.  They never wait, so who calls them does not    *)
(* matter; the callers of wgWait are the processes.  A woken task looks at *)
(* the counter again (retry type) like a notified thread.                  *)
(*                                                                         *)
(* Bounds: MaxCount stands for the largest i64; at most MaxAdds calls of   *)
(* wgAdd raise the counter.                                                *)
(***************************************************************************)
EXTENDS Callers, Integers, Sequences, SequencesExt

CONSTANTS MaxCount, MaxAdds

VARIABLES
  counter,  \* WaitGroupT.counter
  waiters,  \* WaitGroupT.waiters
  pc,       \* where each caller of wgWait is
  adds      \* calls of wgAdd with a positive argument so far

vars == <<counter, waiters, pc, adds>>

Init ==
  /\ counter = 0
  /\ waiters = <<>>
  /\ pc = [p \in Procs |-> "idle"]
  /\ adds = 0

\* An addition that overflows or would make the counter negative is an error.
Allowed(n)    == counter + n \in 0 .. MaxCount

\* notify_zero wakes every task and every thread.
Woken(p) ==
  IF p \in Range(waiters) THEN "woken"
  ELSE IF pc[p] = "cv" THEN "notified" ELSE pc[p]

NotifyIfZero(n) ==
  IF counter + n = 0
  THEN pc' = [p \in Procs |-> Woken(p)] /\ waiters' = <<>>
  ELSE UNCHANGED <<pc, waiters>>

\* wgAdd(n); an error changes nothing.
wgAdd(n) ==
  /\ Allowed(n)
  /\ n > 0 => adds < MaxAdds
  /\ counter' = counter + n
  /\ adds' = IF n > 0 THEN adds + 1 ELSE adds
  /\ NotifyIfZero(n)

\* wgDone(); it takes back its subtraction and errs if the counter was not positive.
wgDone ==
  /\ counter > 0
  /\ counter' = counter - 1
  /\ NotifyIfZero(-1)
  /\ UNCHANGED adds

\* wgWait(): a call, the retry of a woken task, the loop of a notified thread.
MayReturn(p) == counter = 0

Return(p) ==
  /\ pc[p] \in {"idle", "woken", "notified"} /\ MayReturn(p)
  /\ pc' = [pc EXCEPT ![p] = "idle"]
  /\ UNCHANGED <<counter, waiters, adds>>

ParkTask(p) ==
  /\ p \in Tasks /\ pc[p] \in {"idle", "woken"} /\ ~MayReturn(p)
  /\ waiters' = Append(waiters, p)
  /\ pc' = [pc EXCEPT ![p] = "parked"]
  /\ UNCHANGED <<counter, adds>>

WaitThread(p) ==
  /\ p \in Threads /\ pc[p] \in {"idle", "notified"} /\ ~MayReturn(p)
  /\ pc' = [pc EXCEPT ![p] = "cv"]
  /\ UNCHANGED <<counter, waiters, adds>>

Next ==
  \/ \E n \in -MaxCount .. MaxCount : wgAdd(n)
  \/ wgDone
  \/ \E p \in Procs : Return(p) \/ ParkTask(p) \/ WaitThread(p)

Spec == Init /\ [][Next]_vars

\* What was added is done; a task that was woken and a thread that was notified run.
FairSpec == Spec /\ WF_vars(wgDone) /\ \A p \in Procs : WF_vars(Return(p))

-----------------------------------------------------------------------------
\* Every variable keeps to its type; the counter neither wraps nor goes below zero.
TypeOK ==
  /\ counter \in 0 .. MaxCount
  /\ waiters \in Seq(Tasks)
  /\ pc \in [Procs -> {"idle", "parked", "cv", "woken", "notified"}]
  /\ adds \in 0 .. MaxAdds

\* Nobody waits for a counter that is already zero, and the queue holds each
\* parked task exactly once (the wake-up comes from the step to zero alone: a
\* caller that misses it would sleep for ever).
NobodyIsStranded ==
  /\ \A p \in Procs : pc[p] \in {"parked", "cv"} => counter > 0
  /\ IsInjective(waiters)
  /\ Range(waiters) = {p \in Tasks : pc[p] = "parked"}

\* Once nothing more is added and everything is done, all waiting callers return.
WaitersReturn == \A p \in Procs : pc[p] # "idle" ~> pc[p] = "idle"
=============================================================================
