---------------------------- MODULE BlockingPool ----------------------------
(***************************************************************************)
(* The blocking pool of sflang/src/scheduler.rs and the offloading of      *)
(* blocking builtins to it by VM::start_call (vm.rs): a task parks, hands  *)
(* its call to the pool, and is woken with the result by the pool thread.  *)
(*                                                                         *)
(* The critical sections of `jobs`, the notify_one after a push, and the   *)
(* running of a job are actions.  A job may panic: the thread survives, the*)
(* job is dropped.  Parking and waking are one flag here, `answer`; module *)
(* Scheduler has their interleavings with the slice of the task.           *)
(*                                                                         *)
(* Bound: a task makes at most MaxCalls calls, numbered, so that an answer *)
(* can be told from an answer to an earlier call.                          *)
(*                                                                         *)
(* Operators named Bug... are plausible mistakes that the runs are tried   *)
(* against; no specification uses them.                                    *)
(***************************************************************************)
EXTENDS Naturals, Sequences, FiniteSets, SequencesExt

CONSTANTS Tasks, PoolThreads, MaxCalls, None

VARIABLES
  jobs,    \* BlockingPool.jobs
  tpc,     \* task: running its program, notifying, or waiting for the result
  calls,   \* number of the task's current or last call
  answer,  \* the result it was woken with: the number of the call it is for
  pool,    \* pool thread: [pc, job]
  dropped  \* jobs whose builtin has panicked

vars == <<jobs, tpc, calls, answer, pool, dropped>>

Job == [task : Tasks, call : 1 .. MaxCalls]
Free(pc) == [pc |-> pc, job |-> None]

Init ==
  /\ jobs = <<>>
  /\ tpc = [t \in Tasks |-> "runs"]
  /\ calls = [t \in Tasks |-> 0]
  /\ answer = [t \in Tasks |-> None]
  /\ pool = [w \in PoolThreads |-> Free("loop")]
  /\ dropped = {}

-----------------------------------------------------------------------------
\* The task parks and pushes its call; then it notifies one pool thread.
Offload(t) ==
  /\ tpc[t] = "runs" /\ calls[t] < MaxCalls
  /\ calls' = [calls EXCEPT ![t] = @ + 1]
  /\ jobs' = Append(jobs, [task |-> t, call |-> calls[t] + 1])
  /\ tpc' = [tpc EXCEPT ![t] = "notifies"]
  /\ UNCHANGED <<answer, pool, dropped>>

Notify(t) ==
  /\ tpc[t] = "notifies"
  /\ tpc' = [tpc EXCEPT ![t] = "waits"]
  /\ \/ \E w \in PoolThreads :
          /\ pool[w].pc = "cv"
          /\ pool' = [pool EXCEPT ![w] = Free("loop")]
     \/ /\ \A w \in PoolThreads : pool[w].pc # "cv"
        /\ UNCHANGED pool
  /\ UNCHANGED <<jobs, calls, answer, dropped>>

\* The task has been woken, and its result is injected.
Resume(t) ==
  /\ tpc[t] = "waits" /\ answer[t] # None
  /\ tpc' = [tpc EXCEPT ![t] = "runs"]
  /\ answer' = [answer EXCEPT ![t] = None]
  /\ UNCHANGED <<jobs, calls, pool, dropped>>

\* blocking_worker_loop: take a job, or wait for one.
BugRest(q) == q
Rest(q)    == Tail(q)

TakeJob(w) ==
  /\ pool[w].pc = "loop" /\ jobs # <<>>
  /\ pool' = [pool EXCEPT ![w] = [pc |-> "job", job |-> Head(jobs)]]
  /\ jobs' = Rest(jobs)
  /\ UNCHANGED <<tpc, calls, answer, dropped>>

WaitForJob(w) ==
  /\ pool[w].pc = "loop" /\ jobs = <<>>
  /\ pool' = [pool EXCEPT ![w] = Free("cv")]
  /\ UNCHANGED <<jobs, tpc, calls, answer, dropped>>

\* The builtin returns and the task is woken with the result.
Complete(w) ==
  /\ pool[w].pc = "job"
  /\ answer' = [answer EXCEPT ![pool[w].job.task] = pool[w].job.call]
  /\ pool' = [pool EXCEPT ![w] = Free("loop")]
  /\ UNCHANGED <<jobs, tpc, calls, dropped>>

\* The builtin panics: catch_unwind keeps the thread in its loop.
JobPanics(w) ==
  /\ pool[w].pc = "job"
  /\ dropped' = dropped \cup {pool[w].job}
  /\ pool' = [pool EXCEPT ![w] = Free("loop")]
  /\ UNCHANGED <<jobs, tpc, calls, answer>>

TaskStep(t) == Offload(t) \/ Notify(t) \/ Resume(t)
PoolStep(w) == TakeJob(w) \/ WaitForJob(w) \/ Complete(w) \/ JobPanics(w)

Next == (\E t \in Tasks : TaskStep(t)) \/ (\E w \in PoolThreads : PoolStep(w))

Spec == Init /\ [][Next]_vars

\* Tasks that can go on do; pool threads run and their builtins come to an end.
FairSpec ==
  /\ Spec
  /\ \A t \in Tasks : WF_vars(Notify(t) \/ Resume(t))
  /\ \A w \in PoolThreads : WF_vars(PoolStep(w))

-----------------------------------------------------------------------------
Current(t) == [task |-> t, call |-> calls[t]]

\* Every variable keeps to its type.
TypeOK ==
  /\ jobs \in Seq(Job)
  /\ tpc \in [Tasks -> {"runs", "notifies", "waits"}]
  /\ calls \in [Tasks -> 0 .. MaxCalls]
  /\ answer \in [Tasks -> (1 .. MaxCalls) \cup {None}]
  /\ \A w \in PoolThreads :
       \/ pool[w].pc \in {"loop", "cv"} /\ pool[w].job = None
       \/ pool[w].pc = "job" /\ pool[w].job \in Job
  /\ dropped \subseteq Job

\* The call of a waiting task is in exactly one place: in the queue, with one pool
\* thread, answered or dropped; and no job of a task that does not wait exists.
\* Hence it runs once, and an answer always belongs to the current call.
ExactlyOnePlace ==
  \A t \in Tasks :
    LET queued  == {i \in DOMAIN jobs : jobs[i].task = t}
        running == {w \in PoolThreads : pool[w].pc = "job" /\ pool[w].job.task = t}
        places  == Cardinality(queued) + Cardinality(running)
                   + (IF answer[t] = None THEN 0 ELSE 1)
                   + (IF Current(t) \in dropped THEN 1 ELSE 0)
    IN  /\ places = (IF tpc[t] = "runs" THEN 0 ELSE 1)
        /\ \A i \in queued : jobs[i] = Current(t)
        /\ \A w \in running : pool[w].job = Current(t)
        /\ answer[t] \in {None, calls[t]}

\* While a job is queued, the idle pool threads are not all asleep: either one is
\* about to look, or a notification is still to come for every job left.
QueueIsServed ==
  jobs # <<>> /\ (\E w \in PoolThreads : pool[w].pc = "cv") =>
    Len(jobs) <= Cardinality({t \in Tasks : tpc[t] = "notifies"})
                 + Cardinality({w \in PoolThreads : pool[w].pc # "cv"})

\* However many calls are offloaded at once and whichever panic, each is taken and
\* its task gets the result, unless that very call has panicked.
OffloadsReturn ==
  \A t \in Tasks : tpc[t] = "waits" ~> tpc[t] = "runs" \/ Current(t) \in dropped
=============================================================================
