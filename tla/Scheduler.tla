------------------------------ MODULE Scheduler ------------------------------
(***************************************************************************)
(* The M:N task scheduler of sflang/src/scheduler.rs: worker threads take  *)
(* tasks from one ready queue, run each for one slice, and put it back,    *)
(* finish it or leave it parked with whoever will wake it.                 *)
(*                                                                         *)
(* Every atomic step of the code is an action: a critical section of the   *)
(* global `inner` lock, one atomic operation on a task's state, one        *)
(* critical section of a task's `vm` or of a pending slot.  What a program *)
(* does inside a slice is any sequence of spawn, wake and park, ended by a *)
(* yield, a park, a return or a panic.  The wait queues of the primitives  *)
(* (channel, mutex, blocking pool ...) are the set `waiting`; each has its *)
(* own module.                                                             *)
(*                                                                         *)
(* Bounds: a task parks at most MaxParks times.                            *)
(*                                                                         *)
(* Operators named Bug... are mutants: what the definition after them      *)
(* would be if the code had a plausible mistake.  Nothing uses them.       *)
(***************************************************************************)
EXTENDS Naturals, Sequences, FiniteSets, TLC

CONSTANTS
  Tasks,          \* the tasks that may be spawned
  Workers,        \* scheduler worker threads (SF_TASK_WORKERS)
  Threads,        \* other OS threads: main thread, blocking pool, ...
  MaxParks,       \* bound on the number of parks of a task
  None

ASSUME SchedulerAssumption ==
  /\ MaxParks \in Nat
  /\ Workers \cap Threads = {}
  /\ None \notin Tasks \cup Workers

VARIABLES
  state,     \* Task.state, or "none" before the task is spawned
  parks,     \* number of parks so far; the latest one is the open one
  kind,      \* how the latest park is answered
  top,       \* the park whose value replaced the stack-top placeholder, or 0
  thrown,    \* the park whose error is pending_throw in the task's VM, or 0
  inj, err,  \* Task.pending_injection, Task.pending_error: park answered, or 0
  vmLock,    \* the worker holding Task.vm, or None
  ready,     \* SchedInner.ready
  timers,    \* SchedInner.timers, earliest deadline first
  due,       \* how many timers at the front of the heap have expired
  inner,     \* the worker in the middle of a critical section of Scheduler.inner
  waiting,   \* <<task, park, kind>> registered with a waker
  wpc,       \* where each worker is
  cur,       \* the task each worker has taken
  got,       \* what the worker took from the pending slots
  tmo,       \* the timer bounding the worker's wait; "over" once it expired
  wk         \* the wake-up, spawn or re-queue each thread is carrying out

taskVars  == <<state, parks, kind, top, thrown, inj, err, vmLock>>
queueVars == <<ready, timers, due, inner>>
workVars  == <<wpc, cur, got, tmo>>
vars == <<taskVars, queueVars, waiting, workVars, wk>>

States == {"none", "READY", "RUNNING", "BLOCKED", "FINISHED"}
Kinds  == {"plain", "job", "timer"}
Actors == Workers \cup Threads
Parks  == 0 .. MaxParks
WakeUp(pc, t, n, how) == [pc |-> pc, task |-> t, park |-> n, how |-> how]
Idle    == WakeUp("idle", None, 0, "plain")
Nothing == [inj |-> 0, err |-> 0]

Init ==
  /\ state = [t \in Tasks |-> "none"]
  /\ parks = [t \in Tasks |-> 0]
  /\ kind = [t \in Tasks |-> "plain"]
  /\ top = [t \in Tasks |-> 0] /\ thrown = [t \in Tasks |-> 0]
  /\ inj = [t \in Tasks |-> 0] /\ err = [t \in Tasks |-> 0]
  /\ vmLock = [t \in Tasks |-> None]
  /\ ready = <<>> /\ timers = <<>> /\ due = 0 /\ inner = None
  /\ waiting = {}
  /\ wpc = [w \in Workers |-> "fetch"]
  /\ cur = [w \in Workers |-> None]
  /\ got = [w \in Workers |-> Nothing]
  /\ tmo = [w \in Workers |-> None]
  /\ wk = [a \in Actors |-> Idle]

-----------------------------------------------------------------------------
(* Steps shared by every thread: wake_task, wake_task_with,                *)
(* wake_task_with_result, spawn_task and the re-queueing of a slice's end. *)

\* A thread that is running program or library code, not the worker loop.
CanAct(a) ==
  /\ wk[a].pc = "idle"
  /\ a \in Workers => wpc[a] \in {"slice", "callback"}

\* Begin pushing task t on the ready queue.
StartPush(a, t) == wk' = [wk EXCEPT ![a] = WakeUp("push", t, 0, "plain")]

\* A primitive removes a waiter under its own lock and will wake it: without a
\* value (lock, wgDone, semRelease), or with the result of a receive or of an
\* offloaded builtin, which may be an error.
StartWake(a) ==
  /\ CanAct(a)
  /\ \E x \in waiting, how \in {"plain", "ok", "err"} :
       /\ how = "plain" <=> x[3] = "plain"
       /\ waiting' = waiting \ {x}
       /\ wk' = [wk EXCEPT ![a] =
                   WakeUp(IF how = "plain" THEN "cas" ELSE "write", x[1], x[2], how)]
  /\ UNCHANGED <<taskVars, queueVars, workVars>>

\* The result goes to its slot before the state is touched.
WakeWrite(a) ==
  /\ wk[a].pc = "write"
  /\ IF wk[a].how = "ok"
       THEN inj' = [inj EXCEPT ![wk[a].task] = wk[a].park] /\ UNCHANGED err
       ELSE err' = [err EXCEPT ![wk[a].task] = wk[a].park] /\ UNCHANGED inj
  /\ wk' = [wk EXCEPT ![a] = WakeUp("cas", @.task, @.park, @.how)]
  /\ UNCHANGED <<state, parks, kind, top, thrown, vmLock, queueVars, waiting, workVars>>

\* compare_exchange(BLOCKED, READY): only the winner enqueues.
WakeCas(a) ==
  /\ wk[a].pc = "cas"
  /\ IF state[wk[a].task] = "BLOCKED"
       THEN /\ state' = [state EXCEPT ![wk[a].task] = "READY"]
            /\ StartPush(a, wk[a].task)
       ELSE wk' = [wk EXCEPT ![a] = Idle] /\ UNCHANGED state
  /\ UNCHANGED <<parks, kind, top, thrown, inj, err, vmLock, queueVars, waiting, workVars>>

\* The ready queue is first in, first out.
BugEnqueueAtHead(q, t) == <<t>> \o q
Enqueue(q, t) == Append(q, t)

Push(a) ==
  /\ wk[a].pc = "push" /\ inner = None
  /\ ready' = Enqueue(ready, wk[a].task)
  /\ wk' = [wk EXCEPT ![a] = WakeUp("notify", None, 0, "plain")]
  /\ UNCHANGED <<taskVars, timers, due, inner, waiting, workVars>>

\* cv.notify_one: some waiting worker, if there is one, starts over.
Notify(a) ==
  /\ wk[a].pc = "notify"
  /\ wk' = [wk EXCEPT ![a] = Idle]
  /\ \/ /\ \A w \in Workers : wpc[w] # "wait"
        /\ UNCHANGED workVars
     \/ \E w \in Workers :
          /\ wpc[w] = "wait"
          /\ wpc' = [wpc EXCEPT ![w] = "fetch"]
          /\ tmo' = [tmo EXCEPT ![w] = None]
          /\ UNCHANGED <<cur, got>>
  /\ UNCHANGED <<taskVars, queueVars, waiting>>

\* spawn_task: the task is built READY, then pushed.
Spawn(a) ==
  /\ CanAct(a)
  /\ \E t \in Tasks :
       /\ state[t] = "none"
       /\ state' = [state EXCEPT ![t] = "READY"]
       /\ StartPush(a, t)
  /\ UNCHANGED <<parks, kind, top, thrown, inj, err, vmLock, queueVars, waiting, workVars>>

-----------------------------------------------------------------------------
(* Time.  Only the order of deadlines matters: the heap is a sequence, and *)
(* its first `due` entries have expired.                                   *)

Tick ==
  /\ due < Len(timers)
  /\ due' = due + 1
  /\ tmo' = [w \in Workers |-> IF tmo[w] = timers[due + 1] THEN "over" ELSE tmo[w]]
  /\ UNCHANGED <<taskVars, ready, timers, inner, waiting, wpc, cur, got, wk>>

\* cv.wait_timeout returns because the deadline it was given has passed.
Timeout(w) ==
  /\ wpc[w] = "wait" /\ tmo[w] = "over"
  /\ wpc' = [wpc EXCEPT ![w] = "fetch"]
  /\ tmo' = [tmo EXCEPT ![w] = None]
  /\ UNCHANGED <<taskVars, queueVars, waiting, cur, got, wk>>

-----------------------------------------------------------------------------
(* worker_loop                                                             *)

\* A worker at the top of its loop that has, or can take, the scheduler lock.
Fetching(w) == wpc[w] = "fetch" /\ wk[w].pc = "idle" /\ inner \in {None, w}

BugPopExpired == timers' = Tail(timers) /\ UNCHANGED due
PopExpired    == timers' = Tail(timers) /\ due' = due - 1

\* fire_due_timers: the tasks of expired timers go from BLOCKED to READY and to
\* the queue's tail, one after the other, without letting the lock go; no other
\* worker is notified.
BugFireTimer(w) ==
  /\ Fetching(w) /\ due > 0
  /\ state' = [state EXCEPT ![Head(timers)] = "READY"]
  /\ PopExpired
  /\ inner' = w
  /\ UNCHANGED <<parks, kind, top, thrown, inj, err, vmLock, ready, waiting, workVars, wk>>

FireTimer(w) ==
  /\ Fetching(w) /\ due > 0
  /\ IF state[Head(timers)] = "BLOCKED"
       THEN /\ state' = [state EXCEPT ![Head(timers)] = "READY"]
            /\ ready' = Enqueue(ready, Head(timers))
       ELSE UNCHANGED <<state, ready>>
  /\ PopExpired
  /\ inner' = w
  /\ UNCHANGED <<parks, kind, top, thrown, inj, err, vmLock, waiting, workVars, wk>>

Pop(w) ==
  /\ Fetching(w) /\ due = 0 /\ ready # <<>>
  /\ ready' = Tail(ready)
  /\ cur' = [cur EXCEPT ![w] = Head(ready)]
  /\ wpc' = [wpc EXCEPT ![w] = "checkout"]
  /\ inner' = None
  /\ UNCHANGED <<taskVars, timers, due, waiting, got, tmo, wk>>

\* How long a worker with nothing to do will wait.
BugNearestDeadline == None
NearestDeadline    == IF timers = <<>> THEN None ELSE Head(timers)

Wait(w) ==
  /\ Fetching(w) /\ due = 0 /\ ready = <<>>
  /\ wpc' = [wpc EXCEPT ![w] = "wait"]
  /\ tmo' = [tmo EXCEPT ![w] = NearestDeadline]
  /\ inner' = None
  /\ UNCHANGED <<taskVars, ready, timers, due, waiting, cur, got, wk>>

\* Go back to the top of the loop, letting go of the task.
Release(w) == /\ wpc' = [wpc EXCEPT ![w] = "fetch"]
              /\ cur' = [cur EXCEPT ![w] = None]

\* compare_exchange(READY, RUNNING): an entry that lost the race is skipped.
BugCheckoutAlways(t)        == TRUE
BugCheckoutUnlessRunning(t) == state[t] # "RUNNING"
MayCheckout(t)              == state[t] = "READY"

Checkout(w) ==
  /\ wpc[w] = "checkout"
  /\ IF MayCheckout(cur[w])
       THEN /\ state' = [state EXCEPT ![cur[w]] = "RUNNING"]
            /\ wpc' = [wpc EXCEPT ![w] = "take"]
            /\ UNCHANGED cur
       ELSE Release(w) /\ UNCHANGED state
  /\ UNCHANGED <<parks, kind, top, thrown, inj, err, vmLock, queueVars, waiting, got, tmo, wk>>

-----------------------------------------------------------------------------
(* run_task_slice_once                                                     *)

\* Option::take() empties the slot.
BugEmptied(slot, t) == slot
Emptied(slot, t)    == [slot EXCEPT ![t] = 0]

BugHasAnswer(t) == inj[t] # 0
HasAnswer(t)    == inj[t] # 0 \/ err[t] # 0

\* Take what arrived while the task was parked.
Take(w) ==
  LET t == cur[w] IN
  /\ wpc[w] = "take"
  /\ got' = [got EXCEPT ![w] = [inj |-> inj[t], err |-> err[t]]]
  /\ inj' = Emptied(inj, t) /\ err' = Emptied(err, t)
  /\ wpc' = [wpc EXCEPT ![w] = IF HasAnswer(t) THEN "apply" ELSE "enter"]
  /\ UNCHANGED <<state, parks, kind, top, thrown, vmLock, queueVars, waiting, cur, tmo, wk>>

\* Under the VM lock: a pending throw, or the value over the placeholder.
Apply(w) ==
  LET t == cur[w] IN
  /\ wpc[w] = "apply" /\ vmLock[t] = None
  /\ thrown' = IF got[w].err # 0 THEN [thrown EXCEPT ![t] = got[w].err] ELSE thrown
  /\ top' = IF got[w].inj # 0 THEN [top EXCEPT ![t] = got[w].inj] ELSE top
  /\ got' = [got EXCEPT ![w] = Nothing]
  /\ wpc' = [wpc EXCEPT ![w] = "enter"]
  /\ UNCHANGED <<state, parks, kind, inj, err, vmLock, queueVars, waiting, cur, tmo, wk>>

\* The slice runs under the VM lock.
Enter(w) ==
  /\ wpc[w] = "enter" /\ vmLock[cur[w]] = None
  /\ vmLock' = [vmLock EXCEPT ![cur[w]] = w]
  /\ wpc' = [wpc EXCEPT ![w] = "slice"]
  /\ UNCHANGED <<state, parks, kind, top, thrown, inj, err, queueVars, waiting, cur, got, tmo, wk>>

\* park_current_task_retry / park_current_task_inject: BLOCKED first ...
Park(w, k) ==
  LET t == cur[w] IN
  /\ wpc[w] = "slice" /\ wk[w].pc = "idle"
  /\ parks[t] < MaxParks
  /\ state' = [state EXCEPT ![t] = "BLOCKED"]
  /\ parks' = [parks EXCEPT ![t] = @ + 1]
  /\ kind' = [kind EXCEPT ![t] = k]
  /\ top' = [top EXCEPT ![t] = 0] /\ thrown' = [thrown EXCEPT ![t] = 0]
  /\ wpc' = [wpc EXCEPT ![w] = "register"]
  /\ UNCHANGED <<inj, err, vmLock, queueVars, waiting, cur, got, tmo, wk>>

InsertAt(s, i, x) == SubSeq(s, 1, i) \o <<x>> \o SubSeq(s, i + 1, Len(s))

\* ... then the task is registered with its waker, ...
Enlist(w) ==
  /\ wpc[w] = "register" /\ kind[cur[w]] # "timer"
  /\ waiting' = waiting \cup {<<cur[w], parks[cur[w]], kind[cur[w]]>>}
  /\ UNCHANGED <<taskVars, queueVars, cur, got, tmo, wk>>

\* ... and the slice is left.
Register(w) == Enlist(w) /\ wpc' = [wpc EXCEPT ![w] = "leave"]

\* A retry-type wait in a callback: call_function_value forbids parking, but only
\* park_current_task_inject looks.  The Yield that ends the callback is taken for
\* its return, and the builtin that called it goes on, with further callbacks ...
RegisterInCallback(w) ==
  /\ wpc[w] = "register" /\ kind[cur[w]] = "plain"
  /\ Enlist(w) /\ wpc' = [wpc EXCEPT ![w] = "callback"]

\* ... until it returns, where start_call finds the pause and leaves the slice.
ReturnFromBuiltin(w) ==
  /\ wpc[w] = "callback" /\ wk[w].pc = "idle"
  /\ wpc' = [wpc EXCEPT ![w] = "leave"]
  /\ UNCHANGED <<taskVars, queueVars, waiting, cur, got, tmo, wk>>

\* schedule_timer: the deadline is after everything that has expired.
RegisterTimer(w) ==
  LET t == cur[w] IN
  /\ wpc[w] = "register" /\ inner = None
  /\ kind[t] = "timer"
  /\ \E i \in due .. Len(timers) : timers' = InsertAt(timers, i, t)
  /\ wk' = [wk EXCEPT ![w] = WakeUp("notify", None, 0, "plain")]
  /\ wpc' = [wpc EXCEPT ![w] = "leave"]
  /\ UNCHANGED <<taskVars, ready, due, inner, waiting, cur, got, tmo>>

\* The slice returns and its lock is dropped, with one of the four outcomes.
Leave(w, outcome) ==
  /\ wk[w].pc = "idle"
  /\ wpc[w] = IF outcome = "parked" THEN "leave" ELSE "slice"
  /\ vmLock' = [vmLock EXCEPT ![cur[w]] = None]
  /\ wpc' = [wpc EXCEPT ![w] = outcome]
  /\ UNCHANGED <<state, parks, kind, top, thrown, inj, err, queueVars, waiting, cur, got, tmo, wk>>

\* Completed, or a panic caught in worker_loop: the task is over.
EndFinished(w) ==
  /\ wpc[w] \in {"completed", "panicked"}
  /\ state' = [state EXCEPT ![cur[w]] = "FINISHED"]
  /\ Release(w)
  /\ UNCHANGED <<parks, kind, top, thrown, inj, err, vmLock, queueVars, waiting, got, tmo, wk>>

\* Yielded: compare_exchange(RUNNING, READY), then back to the queue's tail.
EndYielded(w) ==
  /\ wpc[w] = "yielded"
  /\ IF state[cur[w]] = "RUNNING"
       THEN /\ state' = [state EXCEPT ![cur[w]] = "READY"]
            /\ StartPush(w, cur[w])
       ELSE UNCHANGED <<state, wk>>
  /\ Release(w)
  /\ UNCHANGED <<parks, kind, top, thrown, inj, err, vmLock, queueVars, waiting, got, tmo>>

BugEndParked(w) ==
  /\ wpc[w] = "parked"
  /\ state' = [state EXCEPT ![cur[w]] = "BLOCKED"]
  /\ Release(w)
  /\ UNCHANGED <<parks, kind, top, thrown, inj, err, vmLock, queueVars, waiting, got, tmo, wk>>

\* Parked: if a wake-up won the race the task is enqueued (once more).
EndParked(w) ==
  /\ wpc[w] = "parked"
  /\ IF state[cur[w]] = "READY" THEN StartPush(w, cur[w]) ELSE UNCHANGED wk
  /\ Release(w)
  /\ UNCHANGED <<taskVars, queueVars, waiting, got, tmo>>

-----------------------------------------------------------------------------
Outcomes == {"parked", "yielded", "completed", "panicked"}

Carry(a) == WakeWrite(a) \/ WakeCas(a) \/ Push(a) \/ Notify(a)
Act(a)   == StartWake(a) \/ Spawn(a)

WorkerStep(w) ==
  \/ Timeout(w) \/ FireTimer(w) \/ Pop(w) \/ Wait(w) \/ Checkout(w)
  \/ Take(w) \/ Apply(w) \/ Enter(w)
  \/ \E k \in Kinds : Park(w, k)
  \/ Register(w) \/ RegisterTimer(w)
  \/ \E o \in Outcomes : Leave(w, o)
  \/ EndFinished(w) \/ EndYielded(w) \/ EndParked(w)

Next ==
  \/ \E a \in Actors : Carry(a) \/ Act(a)
  \/ \E w \in Workers : WorkerStep(w)
  \/ Tick

Spec == Init /\ [][Next]_vars

(* Fairness: the OS runs every worker and lets a thread finish the wake-up *)
(* it has begun; slices end because TASK_SLICE_FUEL bounds them; time      *)
(* passes.  Nothing obliges a program to wake, spawn, park or finish.      *)
SliceEnds(w) == \E o \in Outcomes : Leave(w, o)
WorkerProgress(w) ==
  \/ Timeout(w) \/ FireTimer(w) \/ Pop(w) \/ Wait(w) \/ Checkout(w)
  \/ Take(w) \/ Apply(w) \/ Enter(w)
  \/ Register(w) \/ RegisterTimer(w) \/ SliceEnds(w)
  \/ EndFinished(w) \/ EndYielded(w) \/ EndParked(w)

Fairness ==
  /\ \A a \in Actors : WF_vars(Carry(a))
  /\ \A w \in Workers : WF_vars(WorkerProgress(w))
  /\ WF_vars(Tick)

FairSpec == Spec /\ Fairness

\* The same system running programs that also wait inside callbacks (onceDo,
\* sort, map ... with a callback that calls wgWait, semAcquire or onceDo).
NextWithCallbacks ==
  Next \/ \E w \in Workers : RegisterInCallback(w) \/ ReturnFromBuiltin(w)
SpecWithCallbacks == Init /\ [][NextWithCallbacks]_vars

-----------------------------------------------------------------------------
(* Properties                                                              *)

WorkerPcs == {"fetch", "wait", "checkout", "take", "apply", "enter", "slice",
              "register", "callback", "leave"} \cup Outcomes
WakePcs == {"idle", "write", "cas", "push", "notify"}
Wakes   == [pc : WakePcs, task : Tasks \cup {None}, park : Parks, how : {"plain", "ok", "err"}]
Answers == [inj : Parks, err : Parks]
Waits   == Tasks \X Parks \X Kinds

\* Every variable keeps to its type.
TypeOK ==
  /\ state \in [Tasks -> States]
  /\ parks \in [Tasks -> Parks]
  /\ kind \in [Tasks -> Kinds]
  /\ top \in [Tasks -> Parks] /\ thrown \in [Tasks -> Parks]
  /\ inj \in [Tasks -> Parks] /\ err \in [Tasks -> Parks]
  /\ vmLock \in [Tasks -> Workers \cup {None}]
  /\ ready \in Seq(Tasks)
  /\ timers \in Seq(Tasks)
  /\ due \in 0 .. Len(timers)
  /\ inner \in Workers \cup {None}
  /\ waiting \subseteq Waits
  /\ wpc \in [Workers -> WorkerPcs]
  /\ cur \in [Workers -> Tasks \cup {None}]
  /\ got \in [Workers -> Answers]
  /\ tmo \in [Workers -> Tasks \cup {None, "over"}]
  /\ wk \in [Actors -> Wakes]

\* The worker that has checked task t out and has not yet given it up.
Owns(w, t) ==
  /\ cur[w] = t
  /\ wpc[w] \in {"take", "apply", "enter", "slice", "yielded", "completed", "panicked"}

\* A task is RUNNING exactly when one worker owns it, and never two: the CAS at
\* checkout makes up for entries that are in the ready queue twice
\* (worker_loop, "防止双重执行").
OneOwner ==
  /\ \A w \in Workers, t \in Tasks : Owns(w, t) => state[t] = "RUNNING"
  /\ \A t \in Tasks : state[t] = "RUNNING" => \E w \in Workers : Owns(w, t)
  /\ \A v, w \in Workers, t \in Tasks : Owns(v, t) /\ Owns(w, t) => v = w

\* No lost wake-up, first half: a READY task is in the queue, or a thread is
\* about to put it there, or a worker has just popped it.
ReadyIsReachable ==
  \A t \in Tasks : state[t] = "READY" =>
    \/ \E i \in DOMAIN ready : ready[i] = t
    \/ \E a \in Actors : wk[a].pc = "push" /\ wk[a].task = t
    \/ \E w \in Workers : wpc[w] = "checkout" /\ cur[w] = t

\* No lost wake-up, second half: somebody will answer the open park of a BLOCKED
\* task.  It is registered, has a timer, is being woken, or its worker is about
\* to register it (state is stored BEFORE the registration).
BlockedIsAwaited ==
  \A t \in Tasks : state[t] = "BLOCKED" =>
    \/ <<t, parks[t], kind[t]>> \in waiting
    \/ \E i \in DOMAIN timers : timers[i] = t
    \/ \E a \in Actors : /\ wk[a].pc \in {"write", "cas"}
                         /\ wk[a].task = t /\ wk[a].park = parks[t]
    \/ \E w \in Workers : wpc[w] = "register" /\ cur[w] = t

\* A task goes on with the answer to the park it made last: the value or the
\* error of an offloaded builtin or a receive, never that of another park, both,
\* or the bare placeholder; and a plain wake-up brings no value.
AnswerDelivered ==
  \A w \in Workers : wpc[w] = "slice" =>
    LET t == cur[w] IN
    {top[t], thrown[t]} = IF kind[t] = "job" /\ parks[t] > 0 THEN {0, parks[t]} ELSE {0}

\* A pending slot holds at most the answer to the open park; nothing arrives
\* for a task that has moved on.
NoStaleAnswer ==
  \A t \in Tasks : (inj[t] # 0 \/ err[t] # 0) =>
    /\ state[t] \in {"BLOCKED", "READY", "RUNNING"}
    /\ {inj[t], err[t]} = {0, parks[t]}

\* scheduler.rs:658-661: inside a callback a wait (wgWait, semAcquire, onceDo ...)
\* is refused, so no program code runs on once its task has parked.
NoSliceOfParkedTask ==
  \A w \in Workers : wpc[w] \in {"slice", "callback"} => state[cur[w]] = "RUNNING"

\* FINISHED is final, whatever wake-ups and queue entries are still around.
FinishedIsFinal ==
  [][\A t \in Tasks : state[t] = "FINISHED" => state'[t] = "FINISHED"]_vars

\* A task that can run gets a worker: FIFO queue, CAS and notification lose nobody.
RunnableRuns == \A t \in Tasks : state[t] = "READY" ~> state[t] = "RUNNING"

\* A sleeping task is woken, even if it is all there is and no worker is notified.
SleepersWake ==
  \A t \in Tasks : (state[t] = "BLOCKED" /\ kind[t] = "timer") ~> state[t] = "RUNNING"

\* The scheduler implements the abstract tasks.
TheAnswer(t) ==
  LET arriving == {inj[t], err[t]} \cup
                  UNION {{got[w].inj, got[w].err} : w \in {v \in Workers : cur[v] = t}}
  IN IF state[t] = "BLOCKED" THEN 0
     ELSE CHOOSE n \in Parks : /\ n \in arriving \cup {top[t], thrown[t]}
                               /\ \A m \in arriving \cup {top[t], thrown[t]} : m <= n
LifeName ==
  [none |-> "unborn", READY |-> "runnable", RUNNING |-> "running",
   BLOCKED |-> "waiting", FINISHED |-> "done"]
Abstract == INSTANCE TaskLifecycle WITH
  life <- [t \in Tasks |-> LifeName[state[t]]],
  parks <- parks,
  wants <- [t \in Tasks |-> kind[t] = "job"],
  answer <- [t \in Tasks |-> TheAnswer(t)]
ImplementsLifecycle == Abstract!Spec

-----------------------------------------------------------------------------
\* For TLC: tasks are alike, and so are workers.
Sym == Permutations(Tasks) \cup Permutations(Workers)
=============================================================================
