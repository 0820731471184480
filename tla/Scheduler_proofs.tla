--------------------------- MODULE Scheduler_proofs ---------------------------
(***************************************************************************)
(* Theorems about Scheduler for any numbers of tasks, workers, threads and *)
(* parks: type correctness, exclusive ownership of a RUNNING task,         *)
(* finality of FINISHED, no lost wake-up (a READY task is reachable, a     *)
(* BLOCKED one awaited), the delivery of answers, and the refinement of    *)
(* TaskLifecycle.                                                          *)
(*                                                                         *)
(* The invariant is IInv, in five parts, each inductive relative to those  *)
(* before it.  Typing: TypeOK, and what Push and a slice store are tasks.  *)
(* OneOwner: whoever changes a task's state either owns it, or compares it *)
(* with READY or BLOCKED first, and then nobody owns it.  OneWaker: a task *)
(* has at most one waker, only while it is BLOCKED, for its open park; it  *)
(* is this that makes every compare-exchange of a wake-up succeed.  Reach: *)
(* the two halves of "no lost wake-up".  AnswersOK: the answer due to a    *)
(* task is in its slots, in the hands of the worker that took it, or in    *)
(* its VM, and in one of them only.                                        *)
(***************************************************************************)
EXTENDS Scheduler, TLAPS

\* The task a worker or a wake-up refers to is a task wherever it is used.
RefsOK ==
  /\ \A w \in Workers : wpc[w] \notin {"fetch", "wait"} => cur[w] \in Tasks
  /\ \A a \in Actors : wk[a].pc \notin {"idle", "notify"} => wk[a].task \in Tasks

Typing == TypeOK /\ RefsOK

-----------------------------------------------------------------------------
(* Lemmas about the queues *)

\* A deadline inserted into the heap keeps it a sequence of tasks, one longer.
LEMMA InsertAtType ==
  ASSUME NEW s \in Seq(Tasks), NEW x \in Tasks, NEW i \in 0 .. Len(s)
  PROVE  /\ InsertAt(s, i, x) \in Seq(Tasks)
         /\ Len(InsertAt(s, i, x)) = Len(s) + 1
<1> DEFINE a == SubSeq(s, 1, i)
           b == SubSeq(s, i + 1, Len(s))
<1>1. a \in Seq(Tasks) /\ Len(a) = i
  OBVIOUS
<1>2. b \in Seq(Tasks) /\ Len(b) = Len(s) - i
  OBVIOUS
<1>3. <<x>> \in Seq(Tasks) /\ Len(<<x>>) = 1
  OBVIOUS
<1> HIDE DEF a, b
<1>4. a \o <<x>> \in Seq(Tasks) /\ Len(a \o <<x>>) = i + 1
  BY <1>1, <1>3
<1>5. (a \o <<x>>) \o b \in Seq(Tasks) /\ Len((a \o <<x>>) \o b) = Len(s) + 1
  BY <1>2, <1>4
<1> QED BY <1>5 DEF InsertAt, a, b

-----------------------------------------------------------------------------
(* Typing *)

\* The initial state is well typed.
LEMMA InitTyping == Init => Typing
BY SchedulerAssumption
   DEF Init, Typing, TypeOK, RefsOK, States, Kinds, Parks, Actors, Idle, Nothing,
       WorkerPcs, WakePcs, Outcomes, WakeUp, Wakes, Answers, Waits

\* What a wake-up in progress consists of, and what its steps may be.
LEMMA WakeRecords ==
  /\ \A r \in Wakes : /\ r.task \in Tasks \cup {None} /\ r.park \in Parks
                      /\ r.how \in {"plain", "ok", "err"}
  /\ 0 \in Parks
BY SchedulerAssumption DEF Wakes, Parks

\* Replacing a thread's wake-up by one for a task, or for none when that is over.
LEMMA WakeTyping ==
  ASSUME Typing, NEW a \in Actors, NEW p \in WakePcs, NEW t \in Tasks \cup {None},
         NEW n \in Parks, NEW h \in {"plain", "ok", "err"},
         p \in {"idle", "notify"} \/ t \in Tasks,
         wk' = [wk EXCEPT ![a] = WakeUp(p, t, n, h)]
  PROVE  /\ wk' \in [Actors -> Wakes]
         /\ \A b \in Actors : wk'[b].pc \notin {"idle", "notify"} => wk'[b].task \in Tasks
<1> DEFINE r == WakeUp(p, t, n, h)
<1>1. r \in Wakes /\ r.pc = p /\ r.task = t
  BY DEF WakeUp, Wakes
<1> HIDE DEF r
<1> QED BY <1>1 DEF Typing, TypeOK, RefsOK, r

\* The steps of a wake-up, a spawn or a re-queueing keep the types.
LEMMA CarryTyping ==
  ASSUME Typing, NEW a \in Actors, Carry(a) \/ Act(a)
  PROVE  Typing'
<1> DEFINE WkOK == /\ wk' \in [Actors -> Wakes]
                   /\ \A b \in Actors : wk'[b].pc \notin {"idle", "notify"}
                                        => wk'[b].task \in Tasks
<1>a. /\ wk[a].task \in Tasks \cup {None} /\ wk[a].park \in Parks
      /\ wk[a].how \in {"plain", "ok", "err"}
      /\ wk[a].pc \notin {"idle", "notify"} => wk[a].task \in Tasks
  BY WakeRecords DEF Typing, TypeOK, RefsOK
<1>1. CASE StartWake(a)
  <2> PICK x \in waiting, how \in {"plain", "ok", "err"} :
        /\ waiting' = waiting \ {x}
        /\ wk' = [wk EXCEPT ![a] =
                   WakeUp(IF how = "plain" THEN "cas" ELSE "write", x[1], x[2], how)]
    BY <1>1 DEF StartWake
  <2>1. x[1] \in Tasks /\ x[2] \in Parks
    BY DEF Waits, Typing, TypeOK
  <2>2. WkOK
    BY <2>1, WakeTyping DEF WakePcs
  <2> QED BY <1>1, <2>2 DEF StartWake, Typing, TypeOK, RefsOK, taskVars, queueVars, workVars
<1>2. CASE WakeWrite(a)
  <2>1. WkOK
    BY <1>2, <1>a, WakeTyping DEF WakeWrite, WakePcs
  <2> QED BY <1>2, <1>a, <2>1 DEF WakeWrite, Typing, TypeOK, RefsOK, queueVars, workVars
<1>3. CASE WakeCas(a)
  <2>1. WkOK
    BY <1>3, <1>a, WakeRecords, WakeTyping DEF WakeCas, StartPush, Idle, WakePcs
  <2> QED BY <1>3, <2>1 DEF WakeCas, States, Typing, TypeOK, RefsOK, queueVars, workVars
<1>4. CASE Push(a)
  <2>1. WkOK
    BY <1>4, WakeRecords, WakeTyping DEF Push, WakePcs
  <2>2. ready' \in Seq(Tasks)
    BY <1>4, <1>a DEF Push, Enqueue, Typing, TypeOK
  <2> QED BY <1>4, <2>1, <2>2 DEF Push, Typing, TypeOK, RefsOK, taskVars, workVars
<1>5. CASE Notify(a)
  <2>1. WkOK
    BY <1>5, WakeRecords, WakeTyping DEF Notify, Idle, WakePcs
  <2> QED BY <1>5, <2>1
          DEF Notify, WorkerPcs, Typing, TypeOK, RefsOK, taskVars, queueVars, workVars
<1>6. CASE Spawn(a)
  <2> PICK t \in Tasks : state' = [state EXCEPT ![t] = "READY"] /\ StartPush(a, t)
    BY <1>6 DEF Spawn
  <2>1. WkOK
    BY WakeRecords, WakeTyping DEF StartPush, WakePcs
  <2>2. state' \in [Tasks -> States]
    BY DEF States, Typing, TypeOK
  <2> QED BY <1>6, <2>1, <2>2 DEF Spawn, Typing, TypeOK, RefsOK, queueVars, workVars
<1> QED BY <1>1, <1>2, <1>3, <1>4, <1>5, <1>6 DEF Carry, Act

\* The steps of a worker keep the types.
LEMMA WorkerTyping ==
  ASSUME Typing, NEW w \in Workers, WorkerStep(w)
  PROVE  Typing'
<1> USE DEF Typing, TypeOK, RefsOK, States, Actors, WorkerPcs, Outcomes,
        taskVars, queueVars, workVars, Release
<1> DEFINE WkOK == /\ wk' \in [Actors -> Wakes]
                   /\ \A b \in Actors : wk'[b].pc \notin {"idle", "notify"}
                                        => wk'[b].task \in Tasks
<1>1. CASE Timeout(w)
  BY <1>1 DEF Timeout
<1>2. CASE FireTimer(w)
  <2>1. /\ Head(timers) \in Tasks
        /\ timers' \in Seq(Tasks) /\ due' \in 0 .. Len(timers')
    BY <1>2 DEF FireTimer, PopExpired
  <2>2. Append(ready, Head(timers)) \in Seq(Tasks)
    BY <2>1
  <2>3. ready' \in Seq(Tasks)
    BY <1>2, <2>2 DEF FireTimer, Enqueue
  <2> QED BY <1>2, <2>1, <2>3 DEF FireTimer, Fetching
<1>3. CASE Pop(w)
  <2>1. Head(ready) \in Tasks /\ ready' \in Seq(Tasks)
    BY <1>3 DEF Pop
  <2> QED BY <1>3, <2>1 DEF Pop, Fetching
<1>4. CASE Wait(w)
  BY <1>4 DEF Wait, Fetching, NearestDeadline
<1>5. CASE Checkout(w)
  BY <1>5 DEF Checkout, MayCheckout
<1>6. CASE Take(w)
  <2>1. [inj |-> inj[cur[w]], err |-> err[cur[w]]] \in Answers
    BY <1>6 DEF Take, Answers
  <2>2. inj' \in [Tasks -> Parks] /\ err' \in [Tasks -> Parks]
    BY <1>6, WakeRecords DEF Take, Emptied
  <2> QED BY <1>6, <2>1, <2>2 DEF Take, HasAnswer
<1>7. CASE Apply(w)
  <2>1. Nothing \in Answers /\ got[w].inj \in Parks /\ got[w].err \in Parks
    BY WakeRecords DEF Nothing, Answers
  <2> QED BY <1>7, <2>1 DEF Apply
<1>8. CASE Enter(w)
  BY <1>8 DEF Enter
<1>9. ASSUME NEW k \in Kinds, Park(w, k) PROVE Typing'
  <2>1. cur[w] \in Tasks
    BY <1>9 DEF Park
  <2>2. parks' \in [Tasks -> Parks]
    BY <1>9, <2>1, SchedulerAssumption DEF Park, Parks
  <2>3. /\ kind' \in [Tasks -> Kinds]
        /\ top' \in [Tasks -> Parks] /\ thrown' \in [Tasks -> Parks]
    BY <1>9, WakeRecords DEF Park
  <2> QED BY <1>9, <2>2, <2>3 DEF Park
<1>10. CASE Register(w)
  <2>1. cur[w] \in Tasks /\ waiting' = waiting \cup {<<cur[w], parks[cur[w]], kind[cur[w]]>>}
    BY <1>10 DEF Register, Enlist
  <2>2. waiting' \subseteq Waits
    BY <2>1 DEF Waits
  <2> QED BY <1>10, <2>2 DEF Register, Enlist
<1>11. CASE RegisterTimer(w)
  <2>1. PICK i \in due .. Len(timers) : timers' = InsertAt(timers, i, cur[w])
    BY <1>11 DEF RegisterTimer
  <2>2. cur[w] \in Tasks /\ i \in 0 .. Len(timers)
    BY <1>11 DEF RegisterTimer
  <2>3. timers' \in Seq(Tasks) /\ due' \in 0 .. Len(timers')
    BY <1>11, <2>1, <2>2, InsertAtType DEF RegisterTimer
  <2>4. WkOK
    BY <1>11, WakeRecords, WakeTyping DEF RegisterTimer, WakePcs
  <2> QED BY <1>11, <2>3, <2>4 DEF RegisterTimer
<1>12. ASSUME NEW o \in Outcomes, Leave(w, o) PROVE Typing'
  BY <1>12 DEF Leave
<1>13. CASE EndFinished(w)
  BY <1>13 DEF EndFinished
<1>14. CASE EndYielded(w)
  <2>1. CASE StartPush(w, cur[w])
    <3>1. WkOK
      BY <1>14, <2>1, WakeRecords, WakeTyping DEF EndYielded, StartPush, WakePcs
    <3> QED BY <1>14, <3>1 DEF EndYielded
  <2>2. CASE UNCHANGED wk
    BY <1>14, <2>2 DEF EndYielded
  <2> QED BY <1>14, <2>1, <2>2 DEF EndYielded
<1>15. CASE EndParked(w)
  <2>1. CASE StartPush(w, cur[w])
    <3>1. WkOK
      BY <1>15, <2>1, WakeRecords, WakeTyping DEF EndParked, StartPush, WakePcs
    <3> QED BY <1>15, <3>1 DEF EndParked
  <2>2. CASE UNCHANGED wk
    BY <1>15, <2>2 DEF EndParked
  <2> QED BY <1>15, <2>1, <2>2 DEF EndParked
<1> QED
  BY <1>1, <1>2, <1>3, <1>4, <1>5, <1>6, <1>7, <1>8, <1>9, <1>10, <1>11, <1>12, <1>13,
     <1>14, <1>15 DEF WorkerStep

\* Typing is inductive.
LEMMA NextTyping == Typing /\ [Next]_vars => Typing'
<1> SUFFICES ASSUME Typing, [Next]_vars PROVE Typing'
  OBVIOUS
<1>1. ASSUME NEW a \in Actors, Carry(a) \/ Act(a) PROVE Typing'
  BY <1>1, CarryTyping
<1>2. ASSUME NEW w \in Workers, WorkerStep(w) PROVE Typing'
  BY <1>2, WorkerTyping
<1>3. CASE Tick
  BY <1>3 DEF Tick, Typing, TypeOK, RefsOK, taskVars
<1>4. CASE UNCHANGED vars
  BY <1>4 DEF vars, taskVars, queueVars, workVars, Typing, TypeOK, RefsOK
<1> QED BY <1>1, <1>2, <1>3, <1>4 DEF Next

\* Type correctness of the scheduler.
THEOREM TypeCorrect == Spec => []TypeOK
<1>1. Spec => []Typing
  BY InitTyping, NextTyping, PTL DEF Spec
<1> QED BY <1>1, PTL DEF Typing

-----------------------------------------------------------------------------
(* Ownership *)

\* Nobody owns a task before the first is spawned.
LEMMA InitOwner == Init => OneOwner
BY DEF Init, OneOwner, Owns

\* A step that takes no task from READY to RUNNING or from RUNNING, and moves no
\* worker into or out of ownership, keeps OneOwner.
LEMMA SameOwners ==
  ASSUME OneOwner,
         \A t \in Tasks : state'[t] = "RUNNING" <=> state[t] = "RUNNING",
         \A w \in Workers, t \in Tasks : Owns(w, t)' <=> Owns(w, t)
  PROVE  OneOwner'
<1>1. \A w \in Workers, t \in Tasks : Owns(w, t)' => state'[t] = "RUNNING"
  BY DEF OneOwner
<1>2. \A t \in Tasks : state'[t] = "RUNNING" => \E w \in Workers : Owns(w, t)'
  BY DEF OneOwner
<1>3. \A v, w \in Workers, t \in Tasks : Owns(v, t)' /\ Owns(w, t)' => v = w
  BY DEF OneOwner
<1> QED BY <1>1, <1>2, <1>3 DEF OneOwner

\* When the owner w of task t gives it up and its state leaves RUNNING, nobody
\* else is affected.
LEMMA OwnerLeaves ==
  ASSUME OneOwner, NEW w \in Workers, NEW t \in Tasks, Owns(w, t),
         \A u \in Tasks : Owns(w, u) => u = t,
         state'[t] # "RUNNING", \A u \in Tasks \ {t} : state'[u] = state[u],
         \A v \in Workers \ {w}, u \in Tasks : Owns(v, u)' <=> Owns(v, u),
         \A u \in Tasks : ~Owns(w, u)'
  PROVE  OneOwner'
<1>1. \A v \in Workers, u \in Tasks : Owns(v, u)' => state'[u] = "RUNNING"
  BY DEF OneOwner
<1>2. \A u \in Tasks : state'[u] = "RUNNING" => \E v \in Workers : Owns(v, u)'
  BY DEF OneOwner
<1>3. \A v, x \in Workers, u \in Tasks : Owns(v, u)' /\ Owns(x, u)' => v = x
  BY DEF OneOwner
<1> QED BY <1>1, <1>2, <1>3 DEF OneOwner

\* Wake-ups and spawns leave the RUNNING tasks and their owners alone.
LEMMA CarryOwner ==
  ASSUME Typing, OneOwner, NEW a \in Actors, Carry(a) \/ Act(a)
  PROVE  OneOwner'
<1> SUFFICES /\ \A t \in Tasks : state'[t] = "RUNNING" <=> state[t] = "RUNNING"
             /\ \A w \in Workers, t \in Tasks : Owns(w, t)' <=> Owns(w, t)
  BY SameOwners
<1> USE DEF Owns, Typing, TypeOK, taskVars, workVars
<1>1. CASE StartWake(a)
  BY <1>1 DEF StartWake
<1>2. CASE WakeWrite(a)
  BY <1>2 DEF WakeWrite
<1>3. CASE WakeCas(a)
  BY <1>3 DEF WakeCas
<1>4. CASE Push(a)
  BY <1>4 DEF Push
<1>5. CASE Notify(a)
  BY <1>5 DEF Notify
<1>6. CASE Spawn(a)
  BY <1>6 DEF Spawn
<1> QED BY <1>1, <1>2, <1>3, <1>4, <1>5, <1>6 DEF Carry, Act

\* A worker takes ownership only of a READY task, and only the owner changes the
\* state of a RUNNING one.
LEMMA WorkerOwner ==
  ASSUME Typing, OneOwner, NEW w \in Workers, WorkerStep(w)
  PROVE  OneOwner'
<1> DEFINE Same == /\ \A t \in Tasks : state'[t] = "RUNNING" <=> state[t] = "RUNNING"
                   /\ \A v \in Workers, t \in Tasks : Owns(v, t)' <=> Owns(v, t)
<1> USE DEF Typing, TypeOK, RefsOK, taskVars, workVars
<1>1. CASE Timeout(w)
  <2> Same BY <1>1 DEF Timeout, Owns
  <2> QED BY SameOwners
<1>2. CASE FireTimer(w)
  <2> Same BY <1>2 DEF FireTimer, Owns
  <2> QED BY SameOwners
<1>3. CASE Pop(w)
  <2> Same BY <1>3 DEF Pop, Fetching, Owns
  <2> QED BY SameOwners
<1>4. CASE Wait(w)
  <2> Same BY <1>4 DEF Wait, Fetching, Owns
  <2> QED BY SameOwners
<1>5. CASE Checkout(w)
  <2>1. CASE MayCheckout(cur[w])
    <3> DEFINE t == cur[w]
    <3>1. /\ t \in Tasks /\ state[t] = "READY" /\ ~ \E v \in Workers : Owns(v, t)
          /\ state' = [state EXCEPT ![t] = "RUNNING"]
          /\ wpc' = [wpc EXCEPT ![w] = "take"] /\ cur' = cur
          /\ wpc[w] = "checkout"
      BY <1>5, <2>1 DEF Checkout, MayCheckout, OneOwner
    <3>2. /\ \A v \in Workers, u \in Tasks : Owns(v, u)' <=> (Owns(v, u) \/ (v = w /\ u = t))
          /\ \A u \in Tasks : state'[u] = "RUNNING" <=> (state[u] = "RUNNING" \/ u = t)
          /\ \A u \in Tasks : ~Owns(w, u)
      BY <3>1 DEF Owns
    <3> HIDE DEF t
    <3>3. \A u \in Tasks : state'[u] = "RUNNING" => \E v \in Workers : Owns(v, u)'
      BY <3>2 DEF OneOwner
    <3>4. \A v \in Workers, u \in Tasks : Owns(v, u)' => state'[u] = "RUNNING"
      BY <3>2 DEF OneOwner
    <3>5. \A v, x \in Workers, u \in Tasks : Owns(v, u)' /\ Owns(x, u)' => v = x
      BY <3>1, <3>2 DEF OneOwner
    <3> QED BY <3>3, <3>4, <3>5 DEF OneOwner
  <2>2. CASE ~MayCheckout(cur[w])
    <3> Same BY <1>5, <2>2 DEF Checkout, Release, Owns
    <3> QED BY SameOwners
  <2> QED BY <2>1, <2>2
<1>6. CASE Take(w)
  <2> Same BY <1>6 DEF Take, Owns
  <2> QED BY SameOwners
<1>7. CASE Apply(w)
  <2> Same BY <1>7 DEF Apply, Owns
  <2> QED BY SameOwners
<1>8. CASE Enter(w)
  <2> Same BY <1>8 DEF Enter, Owns
  <2> QED BY SameOwners
<1>9. ASSUME NEW k \in Kinds, Park(w, k) PROVE OneOwner'
  <2>1. cur[w] \in Tasks /\ Owns(w, cur[w])
    BY <1>9 DEF Park, Owns
  <2> QED BY <1>9, <2>1, OwnerLeaves DEF Park, Owns
<1>10. CASE Register(w)
  <2> Same BY <1>10 DEF Register, Enlist, Owns
  <2> QED BY SameOwners
<1>11. CASE RegisterTimer(w)
  <2> Same BY <1>11 DEF RegisterTimer, Owns
  <2> QED BY SameOwners
<1>12. ASSUME NEW o \in Outcomes, Leave(w, o) PROVE OneOwner'
  <2> Same BY <1>12 DEF Leave, Outcomes, Owns
  <2> QED BY SameOwners
<1>13. CASE EndFinished(w)
  <2>1. cur[w] \in Tasks /\ Owns(w, cur[w])
    BY <1>13 DEF EndFinished, Owns
  <2> QED BY <1>13, <2>1, OwnerLeaves DEF EndFinished, Release, Owns
<1>14. CASE EndYielded(w)
  <2>1. cur[w] \in Tasks /\ Owns(w, cur[w]) /\ state[cur[w]] = "RUNNING"
    BY <1>14 DEF EndYielded, Owns, OneOwner
  <2> QED BY <1>14, <2>1, OwnerLeaves DEF EndYielded, Release, Owns
<1>15. CASE EndParked(w)
  <2> Same BY <1>15 DEF EndParked, Release, Owns
  <2> QED BY SameOwners
<1> QED
  BY <1>1, <1>2, <1>3, <1>4, <1>5, <1>6, <1>7, <1>8, <1>9, <1>10, <1>11, <1>12, <1>13,
     <1>14, <1>15 DEF WorkerStep

\* OneOwner is inductive relative to Typing.
LEMMA NextOwner == Typing /\ OneOwner /\ [Next]_vars => OneOwner'
<1> SUFFICES ASSUME Typing, OneOwner, [Next]_vars PROVE OneOwner'
  OBVIOUS
<1>1. ASSUME NEW a \in Actors, Carry(a) \/ Act(a) PROVE OneOwner'
  BY <1>1, CarryOwner
<1>2. ASSUME NEW w \in Workers, WorkerStep(w) PROVE OneOwner'
  BY <1>2, WorkerOwner
<1>3. CASE Tick
  BY <1>3, SameOwners DEF Tick, taskVars, Owns
<1>4. CASE UNCHANGED vars
  BY <1>4, SameOwners DEF vars, taskVars, workVars, Owns
<1> QED BY <1>1, <1>2, <1>3, <1>4 DEF Next

\* A RUNNING task has exactly one owner, however often it is in the ready queue.
THEOREM Exclusion == Spec => []OneOwner
<1>1. Spec => [](Typing /\ OneOwner)
  BY InitTyping, NextTyping, InitOwner, NextOwner, PTL DEF Spec
<1> QED BY <1>1, PTL

\* No step takes a task out of FINISHED: every write compares the state first or
\* is made by the owner of a RUNNING task.
THEOREM Finality == Spec => FinishedIsFinal
<1> DEFINE Kept == \A t \in Tasks : state[t] = "FINISHED" => state'[t] = "FINISHED"
<1>1. ASSUME Typing, OneOwner, [Next]_vars PROVE [Kept]_vars
  <2> USE <1>1 DEF Typing, TypeOK, RefsOK, taskVars, queueVars, workVars
  <2>1. ASSUME NEW a \in Actors, Carry(a) \/ Act(a) PROVE Kept
    BY <2>1 DEF Carry, Act, StartWake, WakeWrite, WakeCas, Push, Notify, Spawn
  <2>2. ASSUME NEW w \in Workers, WorkerStep(w) PROVE Kept
    <3>1. ASSUME NEW k \in Kinds, Park(w, k) PROVE Kept
      BY <3>1 DEF Park, OneOwner, Owns
    <3>2. CASE Checkout(w)
      BY <3>2 DEF Checkout, MayCheckout
    <3>3. CASE FireTimer(w)
      BY <3>3 DEF FireTimer
    <3>4. CASE EndFinished(w) \/ EndYielded(w)
      BY <3>4 DEF EndFinished, EndYielded
    <3>5. CASE UNCHANGED state
      BY <3>5
    <3> QED BY <2>2, <3>1, <3>2, <3>3, <3>4, <3>5
            DEF WorkerStep, Timeout, Pop, Wait, Take, Apply, Enter, Register, Enlist,
                RegisterTimer, Leave, EndParked
  <2>3. CASE Tick
    BY <2>3 DEF Tick
  <2> QED BY <1>1, <2>1, <2>2, <2>3 DEF Next, vars
<1>2. Spec => [](Typing /\ OneOwner)
  BY InitTyping, NextTyping, InitOwner, NextOwner, PTL DEF Spec
<1> QED BY <1>1, <1>2, PTL DEF Spec, FinishedIsFinal
-----------------------------------------------------------------------------
(* Who will wake a task: at most one of a primitive's registration, a timer,   *)
(* a wake-up in progress and a worker about to register it, for its open park. *)

Waking(a, t) == wk[a].pc \in {"write", "cas"} /\ wk[a].task = t
Registering(w, t) == wpc[w] = "register" /\ cur[w] = t

\* A worker that is registering or has left a slice is not in a wake-up.
BusyOK == \A w \in Workers : wpc[w] \in {"register"} \cup Outcomes => wk[w].pc = "idle"

WaitingOK ==
  \A x \in waiting : /\ state[x[1]] = "BLOCKED"
                     /\ x[2] = parks[x[1]] /\ x[3] = kind[x[1]] /\ x[3] # "timer"
TimersOK ==
  /\ \A i \in DOMAIN timers : state[timers[i]] = "BLOCKED" /\ kind[timers[i]] = "timer"
  /\ \A i, j \in DOMAIN timers : timers[i] = timers[j] => i = j
WakingOK ==
  /\ \A a \in Actors, t \in Tasks : Waking(a, t) =>
       /\ state[t] = "BLOCKED" /\ wk[a].park = parks[t] /\ kind[t] # "timer"
       /\ wk[a].pc = "write" => kind[t] = "job" /\ wk[a].how \in {"ok", "err"}
  /\ \A a, b \in Actors, t \in Tasks : Waking(a, t) /\ Waking(b, t) => a = b
  /\ \A a \in Actors, x \in waiting : ~ Waking(a, x[1])
RegisteringOK ==
  /\ \A w \in Workers, t \in Tasks : Registering(w, t) =>
       /\ state[t] = "BLOCKED"
       /\ \A x \in waiting : x[1] # t
       /\ \A i \in DOMAIN timers : timers[i] # t
       /\ \A a \in Actors : ~ Waking(a, t)
  /\ \A v, w \in Workers, t \in Tasks : Registering(v, t) /\ Registering(w, t) => v = w
OneWaker == BusyOK /\ WaitingOK /\ TimersOK /\ WakingOK /\ RegisteringOK


\* Nobody waits or wakes at the start.
LEMMA InitWaker == Init => OneWaker
BY DEF Init, OneWaker, BusyOK, WaitingOK, TimersOK, WakingOK, RegisteringOK, Waking,
       Registering, Idle, WakeUp, Outcomes

\* What a wait consists of.
LEMMA WaitFields ==
  \A x \in Waits : /\ x[1] \in Tasks /\ x[2] \in Parks /\ x[3] \in Kinds
                   /\ x = <<x[1], x[2], x[3]>>
<1> SUFFICES ASSUME NEW x \in Waits
             PROVE  x[1] \in Tasks /\ x[2] \in Parks /\ x[3] \in Kinds /\ x = <<x[1], x[2], x[3]>>
  OBVIOUS
<1>1. PICK t \in Tasks, n \in Parks, k \in Kinds : x = <<t, n, k>>
  BY DEF Waits
<1> QED BY <1>1

\* A step after which no more is waking, waiting or registering than before, and
\* that leaves the BLOCKED tasks as they are, keeps OneWaker.
LEMMA SameWakers ==
  ASSUME OneWaker, BusyOK', Typing,
         \A t \in Tasks : state[t] = "BLOCKED" => state'[t] = "BLOCKED",
         parks' = parks, kind' = kind, waiting' \subseteq waiting, timers' = timers,
         \A a \in Actors, t \in Tasks : Waking(a, t)' => Waking(a, t) /\ wk'[a] = wk[a],
         \A w \in Workers, t \in Tasks : Registering(w, t)' => Registering(w, t)
  PROVE  OneWaker'
<1> USE DEF OneWaker, Typing, TypeOK
<1>0. \A x \in waiting : x[1] \in Tasks
  BY DEF Waits
<1>1. WaitingOK'
  BY <1>0 DEF WaitingOK
<1>2. TimersOK'
  BY DEF TimersOK
<1>3. WakingOK'
  <2>1. \A a \in Actors, t \in Tasks : Waking(a, t)' =>
          /\ state'[t] = "BLOCKED" /\ wk'[a].park = parks'[t] /\ kind'[t] # "timer"
          /\ wk'[a].pc = "write" => kind'[t] = "job" /\ wk'[a].how \in {"ok", "err"}
    BY DEF WakingOK
  <2>2. \A a, b \in Actors, t \in Tasks : Waking(a, t)' /\ Waking(b, t)' => a = b
    BY DEF WakingOK
  <2>3. \A a \in Actors, x \in waiting' : ~ Waking(a, x[1])'
    BY <1>0 DEF WakingOK
  <2> QED BY <2>1, <2>2, <2>3 DEF WakingOK
<1>4. RegisteringOK'
  BY DEF RegisteringOK
<1> QED BY <1>1, <1>2, <1>3, <1>4

\* The steps of a wake-up or a spawn.
LEMMA CarryWaker ==
  ASSUME Typing, OneWaker, NEW a \in Actors, Carry(a) \/ Act(a)
  PROVE  OneWaker'
<1> USE DEF Typing, TypeOK, RefsOK, taskVars, queueVars, workVars
<1>0. \A x \in waiting : /\ x[1] \in Tasks /\ x[2] \in Parks /\ x[3] \in Kinds
                        /\ x = <<x[1], x[2], x[3]>>
  BY WaitFields
<1>1. CASE StartWake(a)
  <2> PICK x \in waiting, how \in {"plain", "ok", "err"} :
        /\ how = "plain" <=> x[3] = "plain"
        /\ waiting' = waiting \ {x}
        /\ wk' = [wk EXCEPT ![a] =
                   WakeUp(IF how = "plain" THEN "cas" ELSE "write", x[1], x[2], how)]
    BY <1>1 DEF StartWake
  <2>1. /\ state' = state /\ parks' = parks /\ kind' = kind /\ timers' = timers
        /\ wpc' = wpc /\ cur' = cur /\ wk[a].pc = "idle"
        /\ a \in Workers => wpc[a] \in {"slice", "callback"}
    BY <1>1 DEF StartWake, CanAct
  <2>2. /\ wk'[a].pc = IF how = "plain" THEN "cas" ELSE "write"
        /\ wk'[a].task = x[1] /\ wk'[a].park = x[2] /\ wk'[a].how = how
        /\ \A b \in Actors \ {a} : wk'[b] = wk[b]
    BY DEF WakeUp
  <2>3. /\ state[x[1]] = "BLOCKED" /\ x[2] = parks[x[1]] /\ x[3] = kind[x[1]]
        /\ x[3] # "timer" /\ x[1] \in Tasks /\ x[3] \in Kinds
        /\ \A y \in waiting' : y[1] # x[1]
    <3>1. ASSUME NEW y \in waiting, y[1] = x[1] PROVE y = x
      <4>1. y[2] = x[2] /\ y[3] = x[3]
        BY <3>1 DEF OneWaker, WaitingOK
      <4> QED BY <1>0, <3>1, <4>1
    <3> QED BY <1>0, <3>1 DEF OneWaker, WaitingOK
  <2>4. BusyOK'
    BY <2>1, <2>2 DEF OneWaker, BusyOK, Outcomes, Actors
  <2>5. WaitingOK' /\ TimersOK'
    BY <2>1 DEF OneWaker, WaitingOK, TimersOK
  <2>6. \A b \in Actors, t \in Tasks : Waking(b, t)' <=> (Waking(b, t) \/ (b = a /\ t = x[1]))
    BY <2>1, <2>2 DEF Waking
  <2>7. WakingOK'
    <3>1. \A b \in Actors, t \in Tasks : Waking(b, t) => b # a /\ t # x[1]
      BY <2>1 DEF OneWaker, WakingOK, Waking
    <3>2. \A b \in Actors, t \in Tasks : Waking(b, t)' =>
            /\ state[t] = "BLOCKED" /\ wk'[b].park = parks[t] /\ kind[t] # "timer"
            /\ wk'[b].pc = "write" => kind[t] = "job" /\ wk'[b].how \in {"ok", "err"}
      BY <2>2, <2>3, <2>6, <3>1 DEF OneWaker, WakingOK, Kinds
    <3>3. \A b, c \in Actors, t \in Tasks : Waking(b, t)' /\ Waking(c, t)' => b = c
      BY <2>6, <3>1 DEF OneWaker, WakingOK
    <3>4. \A b \in Actors, y \in waiting' : ~ Waking(b, y[1])'
      BY <1>0, <2>3, <2>6 DEF OneWaker, WakingOK
    <3> QED BY <2>1, <3>2, <3>3, <3>4 DEF WakingOK
  <2>8. RegisteringOK'
    BY <2>1, <2>3, <2>6 DEF OneWaker, RegisteringOK, Registering
  <2> QED BY <2>4, <2>5, <2>7, <2>8 DEF OneWaker
<1>2. CASE WakeWrite(a)
  <2>1. /\ state' = state /\ parks' = parks /\ kind' = kind /\ timers' = timers
        /\ waiting' = waiting /\ wpc' = wpc /\ cur' = cur /\ wk[a].pc = "write"
    BY <1>2 DEF WakeWrite
  <2>2. /\ wk'[a].pc = "cas" /\ wk'[a].task = wk[a].task /\ wk'[a].park = wk[a].park
        /\ \A b \in Actors \ {a} : wk'[b] = wk[b]
    BY <1>2 DEF WakeWrite, WakeUp
  <2>3. \A b \in Actors, t \in Tasks : Waking(b, t)' <=> Waking(b, t)
    BY <2>1, <2>2 DEF Waking
  <2>4. BusyOK'
    BY <2>1, <2>2 DEF OneWaker, BusyOK, Actors
  <2>5. WakingOK'
    BY <1>0, <2>1, <2>2, <2>3 DEF OneWaker, WakingOK
  <2>6. RegisteringOK'
    BY <1>0, <2>1, <2>3 DEF OneWaker, RegisteringOK, Registering
  <2> QED BY <2>1, <2>4, <2>5, <2>6 DEF OneWaker, WaitingOK, TimersOK
<1>3. CASE WakeCas(a)
  <2> DEFINE t == wk[a].task
  <2>1. /\ parks' = parks /\ kind' = kind /\ timers' = timers
        /\ waiting' = waiting /\ wpc' = wpc /\ cur' = cur /\ wk[a].pc = "cas"
        /\ t \in Tasks
    BY <1>3 DEF WakeCas
  <2>2. state[t] = "BLOCKED" /\ Waking(a, t)
    BY <2>1 DEF OneWaker, WakingOK, Waking
  <2>3. /\ state' = [state EXCEPT ![t] = "READY"]
        /\ wk'[a].pc = "push"
        /\ \A b \in Actors \ {a} : wk'[b] = wk[b]
    BY <1>3, <2>2 DEF WakeCas, StartPush, WakeUp
  <2>4. \A b \in Actors, u \in Tasks : Waking(b, u)' <=> (Waking(b, u) /\ b # a)
    BY <2>3 DEF Waking
  <2>5. \A b \in Actors, u \in Tasks : Waking(b, u) /\ b # a => u # t
    BY <2>2 DEF OneWaker, WakingOK
  <2> HIDE DEF t
  <2>6. BusyOK'
    BY <2>1, <2>3 DEF OneWaker, BusyOK, Actors
  <2>7. WaitingOK'
    BY <1>0, <2>1, <2>2, <2>3 DEF OneWaker, WaitingOK, WakingOK
  <2>8. TimersOK'
    BY <2>1, <2>2, <2>3 DEF OneWaker, TimersOK, WakingOK
  <2>9. WakingOK'
    BY <1>0, <2>1, <2>3, <2>4, <2>5 DEF OneWaker, WakingOK
  <2>10. RegisteringOK'
    BY <2>1, <2>2, <2>3, <2>4 DEF OneWaker, RegisteringOK, Registering
  <2> QED BY <2>6, <2>7, <2>8, <2>9, <2>10 DEF OneWaker
<1>4. CASE Push(a)
  <2>1. wk'[a].pc = "notify" /\ \A b \in Actors \ {a} : wk'[b] = wk[b]
    BY <1>4 DEF Push, WakeUp
  <2>2. wk[a].pc = "push"
    BY <1>4 DEF Push
  <2>3. BusyOK'
    BY <1>4, <2>1, <2>2 DEF Push, OneWaker, BusyOK, Actors
  <2>4. \A b \in Actors, t \in Tasks : Waking(b, t)' => Waking(b, t) /\ wk'[b] = wk[b]
    BY <2>1 DEF Waking
  <2> QED BY <1>4, <2>3, <2>4, SameWakers DEF Push, Registering
<1>5. CASE Notify(a)
  <2>1. wk'[a].pc = "idle" /\ \A b \in Actors \ {a} : wk'[b] = wk[b]
    BY <1>5 DEF Notify, Idle, WakeUp
  <2>2. \A w \in Workers : wpc'[w] = wpc[w] \/ wpc'[w] = "fetch"
    BY <1>5 DEF Notify
  <2>3. BusyOK'
    BY <2>1, <2>2 DEF OneWaker, BusyOK, Outcomes, Actors
  <2>4. \A b \in Actors, t \in Tasks : Waking(b, t)' => Waking(b, t) /\ wk'[b] = wk[b]
    BY <2>1 DEF Waking
  <2>5. \A w \in Workers, t \in Tasks : Registering(w, t)' => Registering(w, t)
    BY <1>5, <2>2 DEF Notify, Registering
  <2> QED BY <1>5, <2>3, <2>4, <2>5, SameWakers DEF Notify
<1>6. CASE Spawn(a)
  <2> PICK t \in Tasks : state[t] = "none" /\ state' = [state EXCEPT ![t] = "READY"]
                         /\ StartPush(a, t)
    BY <1>6 DEF Spawn
  <2>1. /\ wk'[a].pc = "push" /\ \A b \in Actors \ {a} : wk'[b] = wk[b]
        /\ a \in Workers => wpc[a] \in {"slice", "callback"}
    BY <1>6 DEF Spawn, StartPush, CanAct, WakeUp
  <2>2. BusyOK'
    BY <1>6, <2>1 DEF Spawn, OneWaker, BusyOK, Outcomes, Actors
  <2>3. \A b \in Actors, u \in Tasks : Waking(b, u)' => Waking(b, u) /\ wk'[b] = wk[b]
    BY <2>1 DEF Waking
  <2>4. \A u \in Tasks : state[u] = "BLOCKED" => state'[u] = "BLOCKED"
    OBVIOUS
  <2> QED BY <1>6, <2>2, <2>3, <2>4, SameWakers DEF Spawn, Registering
<1> QED BY <1>1, <1>2, <1>3, <1>4, <1>5, <1>6 DEF Carry, Act

\* Inserting a deadline adds the task and keeps the others once each.
LEMMA InsertAtElements ==
  ASSUME NEW s \in Seq(Tasks), NEW x \in Tasks, NEW i \in 0 .. Len(s)
  PROVE  LET u == InsertAt(s, i, x) IN
         /\ DOMAIN u = 1 .. Len(s) + 1
         /\ \A j \in DOMAIN u : u[j] = IF j <= i THEN s[j] ELSE IF j = i + 1 THEN x ELSE s[j - 1]
<1> DEFINE a == SubSeq(s, 1, i)
           b == SubSeq(s, i + 1, Len(s))
<1>1. a \in Seq(Tasks) /\ Len(a) = i /\ \A j \in 1 .. i : a[j] = s[j]
  OBVIOUS
<1>2. /\ b \in Seq(Tasks) /\ Len(b) = Len(s) - i
      /\ \A j \in 1 .. Len(s) - i : b[j] = s[i + j]
  OBVIOUS
<1> HIDE DEF a, b
<1> DEFINE c == a \o <<x>>
<1>3. c \in Seq(Tasks) /\ Len(c) = i + 1 /\ \A j \in 1 .. i + 1 : c[j] = IF j <= i THEN s[j] ELSE x
  BY <1>1
<1> HIDE DEF c
<1> DEFINE d == c \o b
<1>4. /\ d \in Seq(Tasks) /\ Len(d) = Len(c) + Len(b)
      /\ \A j \in 1 .. Len(c) + Len(b) : d[j] = IF j <= Len(c) THEN c[j] ELSE b[j - Len(c)]
  <2>1. c \in Seq(Tasks) /\ b \in Seq(Tasks)
    BY <1>2, <1>3
  <2> QED BY <2>1
<1> HIDE DEF d
<1>5. \A j \in 1 .. Len(s) + 1 :
        d[j] = IF j <= i THEN s[j] ELSE IF j = i + 1 THEN x ELSE s[j - 1]
  <2> SUFFICES ASSUME NEW j \in 1 .. Len(s) + 1
               PROVE  d[j] = IF j <= i THEN s[j] ELSE IF j = i + 1 THEN x ELSE s[j - 1]
    OBVIOUS
  <2>1. d[j] = IF j <= i + 1 THEN c[j] ELSE b[j - (i + 1)]
    BY <1>2, <1>3, <1>4
  <2>2. CASE j <= i + 1
    BY <1>3, <2>1, <2>2
  <2>3. CASE j > i + 1
    <3> DEFINE m == j - (i + 1)
    <3>1. m \in 1 .. Len(s) - i /\ i + m = j - 1
      BY <2>3
    <3>2. d[j] = b[m]
      BY <2>1, <2>3
    <3> HIDE DEF m
    <3>3. b[m] = s[j - 1]
      BY <1>2, <3>1
    <3> QED BY <2>3, <3>2, <3>3
  <2> QED BY <2>2, <2>3
<1>6. InsertAt(s, i, x) = d
  BY DEF InsertAt, d, c, a, b
<1>7. Len(d) = Len(s) + 1
  BY <1>2, <1>3, <1>4
<1> QED BY <1>4, <1>5, <1>6, <1>7

\* Popping the head of the heap leaves the others.
LEMMA TailElements ==
  ASSUME NEW s \in Seq(Tasks), s # <<>>
  PROVE  /\ 1 \in DOMAIN s /\ Head(s) = s[1] /\ Head(s) \in Tasks
         /\ Tail(s) \in Seq(Tasks)
         /\ \A i \in DOMAIN Tail(s) : i + 1 \in DOMAIN s /\ Tail(s)[i] = s[i + 1] /\ i \in Nat /\ i + 1 # 1
         /\ \A i \in DOMAIN s : i = 1 \/ (i - 1 \in DOMAIN Tail(s) /\ Tail(s)[i - 1] = s[i])
OBVIOUS

\* The steps of a worker.
LEMMA WorkerWaker ==
  ASSUME Typing, OneOwner, OneWaker, NEW w \in Workers, WorkerStep(w)
  PROVE  OneWaker'
<1>t. /\ wk \in [Actors -> Wakes] /\ wpc \in [Workers -> WorkerPcs]
      /\ state \in [Tasks -> States] /\ cur \in [Workers -> Tasks \cup {None}]
      /\ parks \in [Tasks -> Parks] /\ kind \in [Tasks -> Kinds]
      /\ timers \in Seq(Tasks) /\ due \in 0 .. Len(timers) /\ waiting \subseteq Waits
      /\ w \in Actors
      /\ wpc[w] \notin {"fetch", "wait"} => cur[w] \in Tasks
  BY DEF Typing, TypeOK, RefsOK, Actors
<1>0. \A x \in waiting : x[1] \in Tasks
  BY <1>t, WaitFields
<1> DEFINE Quiet == /\ \A t \in Tasks : state[t] = "BLOCKED" => state'[t] = "BLOCKED"
                    /\ parks' = parks /\ kind' = kind /\ waiting' = waiting /\ timers' = timers
                    /\ \A a \in Actors, t \in Tasks : Waking(a, t)' => Waking(a, t) /\ wk'[a] = wk[a]
                    /\ \A v \in Workers, t \in Tasks : Registering(v, t)' => Registering(v, t)
                    /\ BusyOK'
<1>q. Quiet => OneWaker'
  BY SameWakers
<1>1. CASE Timeout(w)
  <2> Quiet BY <1>1, <1>t
         DEF Timeout, taskVars, queueVars, Waking, Registering, OneWaker, BusyOK, Outcomes
  <2> QED BY <1>q
<1>3. CASE Pop(w)
  <2> Quiet BY <1>3, <1>t
         DEF Pop, Fetching, taskVars, Waking, Registering, OneWaker, BusyOK, Outcomes
  <2> QED BY <1>q
<1>4. CASE Wait(w)
  <2> Quiet BY <1>4, <1>t
         DEF Wait, Fetching, taskVars, Waking, Registering, OneWaker, BusyOK, Outcomes
  <2> QED BY <1>q
<1>5. CASE Checkout(w)
  <2> Quiet BY <1>5, <1>t
         DEF Checkout, MayCheckout, Release, queueVars, Waking, Registering, OneWaker,
             BusyOK, Outcomes
  <2> QED BY <1>q
<1>6. CASE Take(w)
  <2> Quiet BY <1>6, <1>t
         DEF Take, queueVars, Waking, Registering, OneWaker, BusyOK, Outcomes
  <2> QED BY <1>q
<1>7. CASE Apply(w)
  <2> Quiet BY <1>7, <1>t
         DEF Apply, queueVars, Waking, Registering, OneWaker, BusyOK, Outcomes
  <2> QED BY <1>q
<1>8. CASE Enter(w)
  <2> Quiet BY <1>8, <1>t
         DEF Enter, queueVars, Waking, Registering, OneWaker, BusyOK, Outcomes
  <2> QED BY <1>q
<1>2. CASE FireTimer(w)
  <2>1. timers # <<>> /\ timers' = Tail(timers)
    BY <1>2, <1>t DEF FireTimer, PopExpired
  <2> DEFINE t == Head(timers)
  <2>2. /\ t \in Tasks /\ 1 \in DOMAIN timers /\ timers[1] = t
        /\ \A i \in DOMAIN timers' : i + 1 \in DOMAIN timers /\ timers'[i] = timers[i + 1]
                                     /\ i \in Nat /\ i + 1 # 1
    BY <1>t, <2>1, TailElements
  <2>3. state[t] = "BLOCKED" /\ kind[t] = "timer"
    BY <2>2 DEF OneWaker, TimersOK
  <2>4. \A i \in DOMAIN timers' : timers'[i] # t
    BY <2>2 DEF OneWaker, TimersOK
  <2>5. /\ state' = [state EXCEPT ![t] = "READY"] /\ parks' = parks /\ kind' = kind
        /\ waiting' = waiting /\ wpc' = wpc /\ cur' = cur /\ wk' = wk
    BY <1>2, <2>3 DEF FireTimer, workVars
  <2> HIDE DEF t
  <2>6. BusyOK'
    BY <2>5 DEF OneWaker, BusyOK
  <2>7. WaitingOK'
    BY <1>0, <1>t, <2>3, <2>5 DEF OneWaker, WaitingOK
  <2>8. TimersOK'
    <3>1. \A i \in DOMAIN timers' : state'[timers'[i]] = "BLOCKED" /\ kind'[timers'[i]] = "timer"
      BY <1>t, <2>2, <2>4, <2>5 DEF OneWaker, TimersOK
    <3>2. \A i, j \in DOMAIN timers' : timers'[i] = timers'[j] => i = j
      BY <2>2 DEF OneWaker, TimersOK
    <3> QED BY <3>1, <3>2 DEF TimersOK
  <2>9. WakingOK'
    BY <1>t, <2>3, <2>5 DEF OneWaker, WakingOK, Waking
  <2>10. RegisteringOK'
    BY <1>t, <2>2, <2>5 DEF OneWaker, RegisteringOK, Registering, Waking
  <2> QED BY <2>6, <2>7, <2>8, <2>9, <2>10 DEF OneWaker
<1>9. ASSUME NEW k \in Kinds, Park(w, k) PROVE OneWaker'
  <2> DEFINE t == cur[w]
  <2>1. t \in Tasks /\ state[t] = "RUNNING" /\ wk[w].pc = "idle"
    BY <1>9, <1>t DEF Park, OneOwner, Owns
  <2>2. /\ state' = [state EXCEPT ![t] = "BLOCKED"] /\ parks' = [parks EXCEPT ![t] = @ + 1]
        /\ kind' = [kind EXCEPT ![t] = k] /\ wpc' = [wpc EXCEPT ![w] = "register"]
        /\ waiting' = waiting /\ timers' = timers /\ cur' = cur /\ wk' = wk
    BY <1>9 DEF Park, queueVars
  <2> HIDE DEF t
  <2>3. /\ \A x \in waiting : x[1] # t
        /\ \A i \in DOMAIN timers : timers[i] # t
        /\ \A a \in Actors : ~ Waking(a, t)
        /\ \A v \in Workers : ~ Registering(v, t)
    BY <2>1 DEF OneWaker, WaitingOK, TimersOK, WakingOK, RegisteringOK
  <2>4. \A v \in Workers, u \in Tasks : Registering(v, u)' => Registering(v, u) \/ (v = w /\ u = t)
    BY <1>t, <2>2 DEF Registering, t
  <2>5. \A a \in Actors, u \in Tasks : Waking(a, u)' <=> Waking(a, u)
    BY <2>2 DEF Waking
  <2>6. BusyOK'
    BY <1>t, <2>1, <2>2 DEF OneWaker, BusyOK
  <2>7. WaitingOK'
    BY <1>0, <1>t, <2>2, <2>3 DEF OneWaker, WaitingOK
  <2>8. TimersOK'
    BY <1>t, <2>2, <2>3 DEF OneWaker, TimersOK
  <2>9. WakingOK'
    BY <1>0, <1>t, <2>2, <2>3, <2>5 DEF OneWaker, WakingOK
  <2>10. RegisteringOK'
    BY <1>t, <2>1, <2>2, <2>3, <2>4, <2>5 DEF OneWaker, RegisteringOK
  <2> QED BY <2>6, <2>7, <2>8, <2>9, <2>10 DEF OneWaker
<1>10. CASE Register(w)
  <2> DEFINE t == cur[w]
             x == <<t, parks[t], kind[t]>>
  <2>1. /\ t \in Tasks /\ Registering(w, t) /\ kind[t] # "timer" /\ waiting' = waiting \cup {x}
        /\ state' = state /\ parks' = parks /\ kind' = kind /\ timers' = timers
        /\ wpc' = [wpc EXCEPT ![w] = "leave"] /\ cur' = cur /\ wk' = wk
    BY <1>10, <1>t DEF Register, Enlist, Registering, taskVars, queueVars
  <2>2. /\ state[t] = "BLOCKED" /\ \A a \in Actors : ~ Waking(a, t)
        /\ \A i \in DOMAIN timers : timers[i] # t
    BY <2>1 DEF OneWaker, RegisteringOK
  <2>3. x[1] = t /\ x[2] = parks[t] /\ x[3] = kind[t]
    OBVIOUS
  <2> HIDE DEF t, x
  <2>4. \A v \in Workers, u \in Tasks : Registering(v, u)' => Registering(v, u) /\ v # w
    BY <1>t, <2>1 DEF Registering
  <2>5. \A a \in Actors, u \in Tasks : Waking(a, u)' <=> Waking(a, u)
    BY <2>1 DEF Waking
  <2>6. BusyOK'
    BY <1>t, <2>1 DEF OneWaker, BusyOK, Outcomes
  <2>7. WaitingOK'
    BY <1>0, <2>1, <2>2, <2>3 DEF OneWaker, WaitingOK
  <2>8. TimersOK'
    BY <2>1 DEF OneWaker, TimersOK
  <2>9. WakingOK'
    BY <1>0, <2>1, <2>2, <2>3, <2>5 DEF OneWaker, WakingOK
  <2>10. RegisteringOK'
    <3>1. \A v \in Workers, u \in Tasks : Registering(v, u)' => Registering(v, u) /\ u # t
      BY <2>1, <2>4 DEF OneWaker, RegisteringOK
    <3> QED BY <1>0, <2>1, <2>3, <2>5, <3>1 DEF OneWaker, RegisteringOK
  <2> QED BY <2>6, <2>7, <2>8, <2>9, <2>10 DEF OneWaker
<1>11. CASE RegisterTimer(w)
  <2> DEFINE t == cur[w]
  <2>1. PICK i \in due .. Len(timers) : timers' = InsertAt(timers, i, t)
    BY <1>11 DEF RegisterTimer
  <2>2. /\ t \in Tasks /\ Registering(w, t) /\ kind[t] = "timer" /\ waiting' = waiting
        /\ state' = state /\ parks' = parks /\ kind' = kind
        /\ wpc' = [wpc EXCEPT ![w] = "leave"] /\ cur' = cur
    BY <1>11, <1>t DEF RegisterTimer, Registering, taskVars
  <2>3. wk'[w].pc = "notify" /\ \A b \in Actors \ {w} : wk'[b] = wk[b]
    BY <1>11, <1>t DEF RegisterTimer, WakeUp
  <2>4. /\ state[t] = "BLOCKED" /\ \A j \in DOMAIN timers : timers[j] # t
        /\ \A a \in Actors : ~ Waking(a, t)
    BY <2>2 DEF OneWaker, RegisteringOK
  <2>5. /\ DOMAIN timers' = 1 .. Len(timers) + 1 /\ i \in 0 .. Len(timers)
        /\ \A j \in DOMAIN timers' :
             timers'[j] = IF j <= i THEN timers[j] ELSE IF j = i + 1 THEN t ELSE timers[j - 1]
    BY <1>t, <2>1, <2>2, InsertAtElements
  <2>6. \A v \in Workers, u \in Tasks : Registering(v, u)' => Registering(v, u) /\ v # w
    BY <1>t, <2>2 DEF Registering
  <2>7. \A a \in Actors, u \in Tasks : Waking(a, u)' => Waking(a, u) /\ wk'[a] = wk[a]
    BY <2>3 DEF Waking
  <2> HIDE DEF t
  <2>8. BusyOK'
    BY <1>t, <2>2, <2>3 DEF OneWaker, BusyOK, Outcomes, Actors
  <2>9. TimersOK'
    <3>1. DOMAIN timers = 1 .. Len(timers) /\ Len(timers) \in Nat
      BY <1>t
    <3>2. \A j \in DOMAIN timers' :
            \/ j <= i /\ j \in DOMAIN timers /\ timers'[j] = timers[j]
            \/ j = i + 1 /\ timers'[j] = t
            \/ j > i + 1 /\ j - 1 \in DOMAIN timers /\ timers'[j] = timers[j - 1]
      BY <2>5, <3>1
    <3>3. \A j \in DOMAIN timers' : state'[timers'[j]] = "BLOCKED" /\ kind'[timers'[j]] = "timer"
      BY <2>2, <2>4, <3>2 DEF OneWaker, TimersOK
    <3>4. \A j, l \in DOMAIN timers' : timers'[j] = timers'[l] => j = l
      <4> SUFFICES ASSUME NEW j \in DOMAIN timers', NEW l \in DOMAIN timers',
                          timers'[j] = timers'[l]
                   PROVE  j = l
        OBVIOUS
      <4>1. \A n, m \in DOMAIN timers : timers[n] = timers[m] => n = m
        BY DEF OneWaker, TimersOK
      <4>2. j \in Nat /\ l \in Nat
        BY <2>5
      <4> QED BY <2>4, <2>5, <3>1, <3>2, <4>1, <4>2
    <3> QED BY <3>3, <3>4 DEF TimersOK
  <2>10. WaitingOK'
    BY <2>2 DEF OneWaker, WaitingOK
  <2>11. WakingOK'
    BY <1>0, <2>2, <2>7 DEF OneWaker, WakingOK
  <2>12. RegisteringOK'
    <3>1. \A v \in Workers, u \in Tasks : Registering(v, u)' => Registering(v, u) /\ u # t
      BY <2>2, <2>6 DEF OneWaker, RegisteringOK
    <3>2. \A j \in DOMAIN timers' : timers'[j] = t \/ \E l \in DOMAIN timers : timers'[j] = timers[l]
      <4>1. DOMAIN timers = 1 .. Len(timers) /\ Len(timers) \in Nat
        BY <1>t
      <4> QED BY <2>5, <4>1
    <3> QED BY <1>0, <2>2, <2>7, <3>1, <3>2 DEF OneWaker, RegisteringOK
  <2> QED BY <2>8, <2>9, <2>10, <2>11, <2>12 DEF OneWaker
<1>12. ASSUME NEW o \in Outcomes, Leave(w, o) PROVE OneWaker'
  <2> Quiet BY <1>12, <1>t
         DEF Leave, queueVars, Waking, Registering, OneWaker, BusyOK, Outcomes
  <2> QED BY <1>q
<1>13. CASE EndFinished(w)
  <2>1. cur[w] \in Tasks /\ state[cur[w]] = "RUNNING"
    BY <1>13, <1>t DEF EndFinished, OneOwner, Owns
  <2> Quiet BY <1>13, <1>t, <2>1
         DEF EndFinished, Release, queueVars, Waking, Registering, OneWaker, BusyOK,
             Outcomes
  <2> QED BY <1>q
<1>14. CASE EndYielded(w)
  <2>1. /\ cur[w] \in Tasks /\ state[cur[w]] = "RUNNING"
        /\ state' = [state EXCEPT ![cur[w]] = "READY"]
    BY <1>14, <1>t DEF EndYielded, OneOwner, Owns
  <2>2. wk'[w].pc = "push" /\ \A b \in Actors \ {w} : wk'[b] = wk[b]
    BY <1>14, <1>t, <2>1 DEF EndYielded, StartPush, WakeUp
  <2>3. \A v \in Workers : v # w => wpc'[v] = wpc[v] /\ cur'[v] = cur[v]
    BY <1>14, <1>t DEF EndYielded, Release
  <2>4. wpc'[w] = "fetch"
    BY <1>14, <1>t DEF EndYielded, Release
  <2>5. BusyOK'
    BY <2>2, <2>3, <2>4 DEF OneWaker, BusyOK, Outcomes, Actors
  <2> Quiet BY <1>14, <1>t, <2>1, <2>2, <2>3, <2>4, <2>5
         DEF EndYielded, queueVars, Waking, Registering
  <2> QED BY <1>q
<1>15. CASE EndParked(w)
  <2>1. \/ wk'[w].pc = "push" /\ \A b \in Actors \ {w} : wk'[b] = wk[b]
        \/ wk' = wk
    BY <1>15, <1>t DEF EndParked, StartPush, WakeUp
  <2>2. \A v \in Workers : v # w => wpc'[v] = wpc[v] /\ cur'[v] = cur[v]
    BY <1>15, <1>t DEF EndParked, Release
  <2>3. wpc'[w] = "fetch"
    BY <1>15, <1>t DEF EndParked, Release
  <2>4. BusyOK'
    BY <2>1, <2>2, <2>3 DEF OneWaker, BusyOK, Outcomes, Actors
  <2> Quiet BY <1>15, <2>1, <2>2, <2>3, <2>4
         DEF EndParked, taskVars, queueVars, Waking, Registering
  <2> QED BY <1>q
<1> HIDE DEF Quiet
<1> QED
  BY <1>1, <1>2, <1>3, <1>4, <1>5, <1>6, <1>7, <1>8, <1>9, <1>10, <1>11, <1>12, <1>13,
     <1>14, <1>15 DEF WorkerStep

\* Nothing that anybody holds is changed by time or by a step of nobody.
LEMMA NextWaker == Typing /\ OneOwner /\ OneWaker /\ [Next]_vars => OneWaker'
<1> SUFFICES ASSUME Typing, OneOwner, OneWaker, [Next]_vars PROVE OneWaker'
  OBVIOUS
<1>1. ASSUME NEW a \in Actors, Carry(a) \/ Act(a) PROVE OneWaker'
  BY <1>1, CarryWaker
<1>2. ASSUME NEW w \in Workers, WorkerStep(w) PROVE OneWaker'
  BY <1>2, WorkerWaker
<1>3. CASE Tick
  <2> BusyOK'
    BY <1>3 DEF Tick, OneWaker, BusyOK
  <2> QED BY <1>3, SameWakers DEF Tick, taskVars, Waking, Registering
<1>4. CASE UNCHANGED vars
  <2> BusyOK'
    BY <1>4 DEF vars, workVars, OneWaker, BusyOK
  <2> QED BY <1>4, SameWakers DEF vars, taskVars, queueVars, workVars, Waking, Registering
<1> QED BY <1>1, <1>2, <1>3, <1>4 DEF Next

-----------------------------------------------------------------------------
(* No lost wake-up *)

\* The two ways in which a task that is not running is on its way.
Queued(t)  == \E i \in DOMAIN ready : ready[i] = t
Pushing(t) == \E a \in Actors : wk[a].pc = "push" /\ wk[a].task = t
Popped(t)  == \E w \in Workers : wpc[w] = "checkout" /\ cur[w] = t
Awaited(t) ==
  \/ <<t, parks[t], kind[t]>> \in waiting
  \/ \E i \in DOMAIN timers : timers[i] = t
  \/ \E a \in Actors : Waking(a, t) /\ wk[a].park = parks[t]
  \/ \E w \in Workers : Registering(w, t)

\* The two properties in terms of these.
LEMMA ReachForms ==
  /\ ReadyIsReachable <=> \A t \in Tasks : state[t] = "READY" => Queued(t) \/ Pushing(t) \/ Popped(t)
  /\ BlockedIsAwaited <=> \A t \in Tasks : state[t] = "BLOCKED" => Awaited(t)
BY DEF ReadyIsReachable, BlockedIsAwaited, Queued, Pushing, Popped, Awaited, Waking, Registering

Reach == ReadyIsReachable /\ BlockedIsAwaited

\* No task is READY or BLOCKED at the start.
LEMMA InitReach == Init => Reach
BY DEF Init, Reach, ReadyIsReachable, BlockedIsAwaited

\* A step keeps Reach if each task that is READY or BLOCKED after it either was so
\* before, with what reaches it still there, or is reached anew.
LEMMA KeepsReach ==
  ASSUME Reach,
         \A t \in Tasks : state'[t] = "READY" =>
           \/ Queued(t)' \/ Pushing(t)' \/ Popped(t)'
           \/ /\ state[t] = "READY"
              /\ Queued(t) => Queued(t)' \/ Popped(t)'
              /\ Pushing(t) => Pushing(t)' \/ Queued(t)'
              /\ Popped(t) => Popped(t)',
         \A t \in Tasks : state'[t] = "BLOCKED" => Awaited(t)' \/ (state[t] = "BLOCKED" /\ (Awaited(t) => Awaited(t)'))
  PROVE  Reach'
<1>1. \A t \in Tasks : state[t] = "READY" => Queued(t) \/ Pushing(t) \/ Popped(t)
  BY ReachForms DEF Reach
<1>2. \A t \in Tasks : state[t] = "BLOCKED" => Awaited(t)
  BY ReachForms DEF Reach
<1>3. \A t \in Tasks : state'[t] = "READY" => Queued(t)' \/ Pushing(t)' \/ Popped(t)'
  BY <1>1
<1>4. \A t \in Tasks : state'[t] = "BLOCKED" => Awaited(t)'
  BY <1>2
<1>5. ReadyIsReachable'
  BY <1>3 DEF ReadyIsReachable, Queued, Pushing, Popped
<1>6. BlockedIsAwaited'
  BY <1>4 DEF BlockedIsAwaited, Awaited, Waking, Registering
<1> QED BY <1>5, <1>6 DEF Reach

\* What Append leaves where it was.
LEMMA AppendKeeps ==
  ASSUME NEW q \in Seq(Tasks), NEW x \in Tasks
  PROVE  /\ DOMAIN Append(q, x) = DOMAIN q \cup {Len(q) + 1} /\ Append(q, x)[Len(q) + 1] = x
         /\ \A i \in DOMAIN q : Append(q, x)[i] = q[i]
OBVIOUS

\* The steps of a wake-up or a spawn lose nobody.
LEMMA CarryReach ==
  ASSUME Typing, OneWaker, Reach, NEW a \in Actors, Carry(a) \/ Act(a)
  PROVE  Reach'
<1>t. /\ wk \in [Actors -> Wakes] /\ state \in [Tasks -> States] /\ waiting \subseteq Waits
      /\ ready \in Seq(Tasks)
      /\ wpc \in [Workers -> WorkerPcs] /\ cur \in [Workers -> Tasks \cup {None}]
      /\ wk[a].pc \notin {"idle", "notify"} => wk[a].task \in Tasks
  BY DEF Typing, TypeOK, RefsOK
<1>1. CASE StartWake(a)
  <2> PICK x \in waiting, how \in {"plain", "ok", "err"} :
        /\ how = "plain" <=> x[3] = "plain"
        /\ waiting' = waiting \ {x}
        /\ wk' = [wk EXCEPT ![a] =
                   WakeUp(IF how = "plain" THEN "cas" ELSE "write", x[1], x[2], how)]
    BY <1>1 DEF StartWake
  <2>1. /\ state' = state /\ parks' = parks /\ kind' = kind /\ timers' = timers
        /\ wpc' = wpc /\ cur' = cur /\ ready' = ready /\ wk[a].pc = "idle"
    BY <1>1 DEF StartWake, CanAct, taskVars, queueVars, workVars
  <2>2. /\ wk'[a].pc \in {"write", "cas"} /\ wk'[a].task = x[1] /\ wk'[a].park = x[2]
        /\ \A b \in Actors \ {a} : wk'[b] = wk[b]
    BY <1>t DEF WakeUp
  <2>3. x[1] \in Tasks /\ x[2] = parks[x[1]]
    BY <1>t, WaitFields DEF OneWaker, WaitingOK
  <2>4. Waking(a, x[1])' /\ wk'[a].park = parks'[x[1]]
    BY <2>1, <2>2, <2>3 DEF Waking
  <2>5. \A t \in Tasks : Awaited(t) => Awaited(t)'
    <3>1. \A t \in Tasks : <<t, parks[t], kind[t]>> = x => x[1] = t
      OBVIOUS
    <3>2. \A t \in Tasks, b \in Actors : Waking(b, t) /\ wk[b].park = parks[t]
                                         => Waking(b, t)' /\ wk'[b].park = parks[t]
      BY <2>1, <2>2 DEF Waking
    <3> QED BY <2>1, <2>4, <3>1, <3>2 DEF Awaited, Registering
  <2>6. \A t \in Tasks : Pushing(t) => Pushing(t)'
    BY <2>1, <2>2 DEF Pushing
  <2>7. \A u \in Tasks : (Queued(u) => Queued(u)') /\ (Popped(u) => Popped(u)')
    BY <2>1, <2>5, <2>6 DEF Queued, Popped
  <2> QED BY <2>1, <2>5, <2>6, <2>7, KeepsReach
<1>2. CASE WakeWrite(a)
  <2>1. /\ state' = state /\ parks' = parks /\ kind' = kind /\ timers' = timers
        /\ waiting' = waiting /\ wpc' = wpc /\ cur' = cur /\ ready' = ready /\ wk[a].pc = "write"
    BY <1>2 DEF WakeWrite, queueVars, workVars
  <2>2. /\ wk'[a].pc = "cas" /\ wk'[a].task = wk[a].task /\ wk'[a].park = wk[a].park
        /\ \A b \in Actors \ {a} : wk'[b] = wk[b]
    BY <1>2, <1>t DEF WakeWrite, WakeUp
  <2>3. \A t \in Tasks : Awaited(t) => Awaited(t)'
    <3>1. \A b \in Actors, t \in Tasks : Waking(b, t) /\ wk[b].park = parks[t]
                                         => Waking(b, t)' /\ wk'[b].park = parks'[t]
      BY <2>1, <2>2 DEF Waking
    <3> QED BY <2>1, <3>1 DEF Awaited, Registering
  <2>4. \A t \in Tasks : Pushing(t) => Pushing(t)'
    BY <2>1, <2>2 DEF Pushing
  <2>5. \A u \in Tasks : (Queued(u) => Queued(u)') /\ (Popped(u) => Popped(u)')
    BY <2>1, <2>3, <2>4 DEF Queued, Popped
  <2> QED BY <2>1, <2>3, <2>4, <2>5, KeepsReach
<1>3. CASE WakeCas(a)
  <2>0. PICK t : t = wk[a].task
    OBVIOUS
  <2>1. /\ parks' = parks /\ kind' = kind /\ timers' = timers /\ ready' = ready
        /\ waiting' = waiting /\ wpc' = wpc /\ cur' = cur /\ wk[a].pc = "cas"
        /\ t \in Tasks
    BY <2>0, <1>3, <1>t DEF WakeCas, queueVars, workVars
  <2>2. state[t] = "BLOCKED"
    BY <2>0, <2>1 DEF OneWaker, WakingOK, Waking
  <2>3. /\ state' = [state EXCEPT ![t] = "READY"]
        /\ wk'[a].pc = "push" /\ wk'[a].task = t
        /\ \A b \in Actors \ {a} : wk'[b] = wk[b]
    BY <2>0, <1>3, <1>t, <2>2 DEF WakeCas, StartPush, WakeUp
  <2>4. Pushing(t)'
    BY <2>0, <2>1, <2>3 DEF Pushing
  <2>5. \A b \in Actors, u \in Tasks : Waking(b, u) /\ u # t => b # a /\ Waking(b, u)' /\ wk'[b] = wk[b]
    BY <2>0, <2>3 DEF Waking
  <2>6. \A u \in Tasks : u # t /\ Awaited(u) => Awaited(u)'
    BY <2>0, <2>1, <2>5 DEF Awaited, Registering
  <2>7. \A u \in Tasks : Pushing(u) => Pushing(u)'
    BY <2>0, <2>1, <2>3 DEF Pushing
  <2>8. \A u \in Tasks : (Queued(u) => Queued(u)') /\ (Popped(u) => Popped(u)')
    BY <2>0, <1>t, <2>1, <2>3, <2>4, <2>6, <2>7 DEF Queued, Popped
  <2> QED BY <2>0, <1>t, <2>1, <2>3, <2>4, <2>6, <2>7, <2>8, KeepsReach
<1>4. CASE Push(a)
  <2>0. PICK t : t = wk[a].task
    OBVIOUS
  <2>1. /\ state' = state /\ parks' = parks /\ kind' = kind /\ timers' = timers
        /\ waiting' = waiting /\ wpc' = wpc /\ cur' = cur /\ wk[a].pc = "push"
        /\ t \in Tasks /\ ready' = Append(ready, t)
    BY <2>0, <1>4, <1>t DEF Push, Enqueue, taskVars, workVars
  <2>2. wk'[a].pc = "notify" /\ \A b \in Actors \ {a} : wk'[b] = wk[b]
    BY <2>0, <1>4, <1>t DEF Push, WakeUp
  <2>3. Queued(t)' /\ \A u \in Tasks : Queued(u) => Queued(u)'
    BY <2>0, <1>t, <2>1, AppendKeeps DEF Queued
  <2>4. \A u \in Tasks : Pushing(u) /\ u # t => Pushing(u)'
    BY <2>0, <2>2 DEF Pushing
  <2>5. \A b \in Actors, u \in Tasks : Waking(b, u) => Waking(b, u)' /\ wk'[b] = wk[b]
    BY <2>0, <2>1, <2>2 DEF Waking
  <2>6. \A u \in Tasks : Awaited(u) => Awaited(u)'
    BY <2>0, <2>1, <2>5 DEF Awaited, Registering
  <2>7. \A u \in Tasks : (Popped(u) => Popped(u)')
    BY <2>0, <2>1, <2>3, <2>4, <2>6 DEF Popped
  <2> QED BY <2>0, <2>1, <2>3, <2>4, <2>6, <2>7, KeepsReach
<1>5. CASE Notify(a)
  <2>1. /\ state' = state /\ parks' = parks /\ kind' = kind /\ timers' = timers
        /\ waiting' = waiting /\ ready' = ready /\ wk[a].pc = "notify" /\ cur' = cur
        /\ \A w \in Workers : wpc'[w] = wpc[w] \/ wpc[w] = "wait"
    BY <1>5, <1>t DEF Notify, taskVars, queueVars, workVars
  <2>2. wk'[a].pc = "idle" /\ \A b \in Actors \ {a} : wk'[b] = wk[b]
    BY <1>5, <1>t DEF Notify, Idle, WakeUp
  <2>3. \A u \in Tasks : Pushing(u) => Pushing(u)'
    BY <2>1, <2>2 DEF Pushing
  <2>4. \A b \in Actors, u \in Tasks : Waking(b, u) => Waking(b, u)' /\ wk'[b] = wk[b]
    BY <2>1, <2>2 DEF Waking
  <2>5. \A w \in Workers, u \in Tasks : Registering(w, u) => Registering(w, u)'
    BY <2>1 DEF Registering
  <2>6. \A u \in Tasks : Awaited(u) => Awaited(u)'
    BY <2>1, <2>4, <2>5 DEF Awaited
  <2>7. \A u \in Tasks : Popped(u) => Popped(u)'
    BY <2>1 DEF Popped
  <2>8. \A u \in Tasks : (Queued(u) => Queued(u)')
    BY <2>1, <2>3, <2>6, <2>7 DEF Queued
  <2> QED BY <2>1, <2>3, <2>6, <2>7, <2>8, KeepsReach
<1>6. CASE Spawn(a)
  <2> PICK t \in Tasks : /\ state[t] = "none" /\ state' = [state EXCEPT ![t] = "READY"]
                         /\ StartPush(a, t)
    BY <1>6 DEF Spawn
  <2>1. /\ wk'[a].pc = "push" /\ wk'[a].task = t /\ wk[a].pc = "idle"
        /\ \A b \in Actors \ {a} : wk'[b] = wk[b]
        /\ parks' = parks /\ kind' = kind /\ timers' = timers /\ ready' = ready
        /\ waiting' = waiting /\ wpc' = wpc /\ cur' = cur
    BY <1>6, <1>t DEF Spawn, StartPush, CanAct, WakeUp, queueVars, workVars
  <2>2. Pushing(t)' /\ \A u \in Tasks : Pushing(u) => Pushing(u)'
    BY <2>1 DEF Pushing
  <2>3. \A b \in Actors, u \in Tasks : Waking(b, u) => Waking(b, u)' /\ wk'[b] = wk[b]
    BY <2>1 DEF Waking
  <2>4. \A u \in Tasks : Awaited(u) => Awaited(u)'
    BY <2>1, <2>3 DEF Awaited, Registering
  <2>5. \A u \in Tasks : (Queued(u) => Queued(u)') /\ (Popped(u) => Popped(u)')
    BY <1>t, <2>1, <2>2, <2>4 DEF Queued, Popped
  <2> QED BY <1>t, <2>1, <2>2, <2>4, <2>5, KeepsReach
<1> QED BY <1>1, <1>2, <1>3, <1>4, <1>5, <1>6 DEF Carry, Act

\* The steps of a worker lose nobody.
LEMMA WorkerReach ==
  ASSUME Typing, OneOwner, OneWaker, Reach, NEW w \in Workers, WorkerStep(w)
  PROVE  Reach'
<1>t. /\ wk \in [Actors -> Wakes] /\ wpc \in [Workers -> WorkerPcs]
      /\ state \in [Tasks -> States] /\ cur \in [Workers -> Tasks \cup {None}]
      /\ parks \in [Tasks -> Parks] /\ kind \in [Tasks -> Kinds]
      /\ timers \in Seq(Tasks) /\ due \in 0 .. Len(timers) /\ ready \in Seq(Tasks)
      /\ w \in Actors
      /\ wpc[w] \notin {"fetch", "wait"} => cur[w] \in Tasks
  BY DEF Typing, TypeOK, RefsOK, Actors
<1> DEFINE Quiet == /\ \A t \in Tasks : state'[t] \in {"READY", "BLOCKED"} => state'[t] = state[t]
                    /\ ready' = ready /\ wk' = wk
                    /\ parks' = parks /\ kind' = kind /\ waiting' = waiting /\ timers' = timers
                    /\ \A v \in Workers, t \in Tasks : Registering(v, t) => Registering(v, t)'
                    /\ \A t \in Tasks : Popped(t) => Popped(t)' \/ state'[t] # "READY"
<1>q. Quiet => Reach'
  <2> SUFFICES ASSUME Quiet PROVE Reach'
    OBVIOUS
  <2>1. \A t \in Tasks : Awaited(t) => Awaited(t)'
    BY DEF Awaited, Waking
  <2>2. \A t \in Tasks : (Queued(t) => Queued(t)') /\ (Pushing(t) => Pushing(t)')
    BY DEF Queued, Pushing
  <2> QED BY <2>1, <2>2, KeepsReach
<1>1. CASE Timeout(w)
  <2> Quiet BY <1>1, <1>t DEF Timeout, taskVars, queueVars, Registering, Popped
  <2> QED BY <1>q
<1>2. CASE FireTimer(w)
  <2>1. timers # <<>> /\ timers' = Tail(timers)
    BY <1>2, <1>t DEF FireTimer, PopExpired
  <2>0. PICK t : t = Head(timers)
    OBVIOUS
  <2>2. /\ t \in Tasks /\ 1 \in DOMAIN timers /\ timers[1] = t
        /\ \A i \in DOMAIN timers : i = 1 \/ (i - 1 \in DOMAIN timers' /\ timers'[i - 1] = timers[i])
    BY <2>0, <1>t, <2>1, TailElements
  <2>3. state[t] = "BLOCKED"
    BY <2>0, <2>2 DEF OneWaker, TimersOK
  <2>4. /\ state' = [state EXCEPT ![t] = "READY"] /\ parks' = parks /\ kind' = kind
        /\ waiting' = waiting /\ wpc' = wpc /\ cur' = cur /\ wk' = wk /\ ready' = Append(ready, t)
    BY <2>0, <1>2, <2>3 DEF FireTimer, workVars, Enqueue
  <2>5. Queued(t)' /\ \A u \in Tasks : Queued(u) => Queued(u)'
    BY <2>0, <1>t, <2>2, <2>4, AppendKeeps DEF Queued
  <2>6. \A u \in Tasks : u # t /\ Awaited(u) => Awaited(u)'
    BY <2>0, <2>2, <2>4 DEF Awaited, Waking, Registering
  <2>7. \A u \in Tasks : (Pushing(u) => Pushing(u)') /\ (Popped(u) => Popped(u)')
    BY <2>0, <1>t, <2>2, <2>4, <2>5, <2>6 DEF Pushing, Popped
  <2> QED BY <2>0, <1>t, <2>2, <2>4, <2>5, <2>6, <2>7, KeepsReach
<1>3. CASE Pop(w)
  <2>0. PICK t : t = Head(ready)
    OBVIOUS
  <2>1. ready # <<>> /\ ready' = Tail(ready)
    BY <2>0, <1>3 DEF Pop
  <2>2. /\ t \in Tasks
        /\ \A i \in DOMAIN ready : ready[i] = t \/ (i - 1 \in DOMAIN ready' /\ ready'[i - 1] = ready[i])
    BY <2>0, <1>t, <2>1, TailElements
  <2>3. /\ state' = state /\ parks' = parks /\ kind' = kind /\ waiting' = waiting
        /\ timers' = timers /\ wk' = wk /\ wpc[w] = "fetch"
        /\ wpc' = [wpc EXCEPT ![w] = "checkout"] /\ cur' = [cur EXCEPT ![w] = t]
    BY <2>0, <1>3 DEF Pop, Fetching, taskVars
  <2>4. Popped(t)' /\ \A u \in Tasks : Popped(u) => Popped(u)'
    BY <2>0, <1>t, <2>3 DEF Popped
  <2>5. \A u \in Tasks : Queued(u) => Queued(u)' \/ u = t
    BY <2>0, <2>2 DEF Queued
  <2>6. \A v \in Workers, u \in Tasks : Registering(v, u) => Registering(v, u)'
    BY <2>0, <1>t, <2>3 DEF Registering
  <2>7. \A u \in Tasks : Awaited(u) => Awaited(u)'
    BY <2>0, <2>3, <2>6 DEF Awaited, Waking
  <2>8. \A u \in Tasks : (Pushing(u) => Pushing(u)')
    BY <2>0, <2>3, <2>4, <2>5, <2>7 DEF Pushing
  <2> QED BY <2>0, <2>3, <2>4, <2>5, <2>7, <2>8, KeepsReach
<1>4. CASE Wait(w)
  <2> Quiet BY <1>4, <1>t DEF Wait, Fetching, taskVars, Registering, Popped
  <2> QED BY <1>q
<1>5. CASE Checkout(w)
  <2>1. /\ cur[w] \in Tasks /\ wpc[w] = "checkout"
        /\ \A v \in Workers \ {w} : wpc'[v] = wpc[v] /\ cur'[v] = cur[v]
        /\ state'[cur[w]] # "READY"
        /\ \A u \in Tasks : u # cur[w] => state'[u] = state[u]
    BY <1>5, <1>t DEF Checkout, MayCheckout, Release
  <2>2. state'[cur[w]] = "BLOCKED" => state[cur[w]] = "BLOCKED"
    BY <1>5, <1>t DEF Checkout, MayCheckout
  <2>3. \A u \in Tasks : Popped(u) => Popped(u)' \/ state'[u] # "READY"
    BY <2>1 DEF Popped
  <2>4. \A v \in Workers, u \in Tasks : Registering(v, u) => Registering(v, u)'
    BY <2>1 DEF Registering
  <2> Quiet BY <1>5, <2>1, <2>2, <2>3, <2>4 DEF Checkout, queueVars
  <2> QED BY <1>q
<1>6. CASE Take(w)
  <2> Quiet BY <1>6, <1>t DEF Take, queueVars, Registering, Popped
  <2> QED BY <1>q
<1>7. CASE Apply(w)
  <2> Quiet BY <1>7, <1>t DEF Apply, queueVars, Registering, Popped
  <2> QED BY <1>q
<1>8. CASE Enter(w)
  <2> Quiet BY <1>8, <1>t DEF Enter, queueVars, Registering, Popped
  <2> QED BY <1>q
<1>9. ASSUME NEW k \in Kinds, Park(w, k) PROVE Reach'
  <2>0. PICK t : t = cur[w]
    OBVIOUS
  <2>1. t \in Tasks /\ wpc[w] = "slice"
    BY <2>0, <1>9, <1>t DEF Park
  <2>2. /\ state' = [state EXCEPT ![t] = "BLOCKED"] /\ parks' = [parks EXCEPT ![t] = @ + 1]
        /\ kind' = [kind EXCEPT ![t] = k] /\ wpc' = [wpc EXCEPT ![w] = "register"]
        /\ waiting' = waiting /\ timers' = timers /\ cur' = cur /\ wk' = wk /\ ready' = ready
    BY <2>0, <1>9 DEF Park, queueVars
  <2>3. Registering(w, t)'
    BY <2>0, <1>t, <2>2 DEF Registering
  <2>4. Awaited(t)'
    BY <2>0, <2>3 DEF Awaited
  <2>5. \A v \in Workers, u \in Tasks : Registering(v, u) => Registering(v, u)'
    BY <2>0, <1>t, <2>1, <2>2 DEF Registering
  <2>6. \A u \in Tasks : u # t /\ Awaited(u) => Awaited(u)'
    <3>1. \A u \in Tasks : u # t => parks'[u] = parks[u] /\ kind'[u] = kind[u]
      BY <2>0, <1>t, <2>2
    <3> QED BY <2>0, <2>2, <2>5, <3>1 DEF Awaited, Waking
  <2>7. \A u \in Tasks : Popped(u) => Popped(u)'
    BY <2>0, <1>t, <2>1, <2>2 DEF Popped
  <2>8. \A u \in Tasks : (Queued(u) => Queued(u)') /\ (Pushing(u) => Pushing(u)')
    BY <2>0, <1>t, <2>1, <2>2, <2>4, <2>6, <2>7 DEF Queued, Pushing
  <2> QED BY <2>0, <1>t, <2>1, <2>2, <2>4, <2>6, <2>7, <2>8, KeepsReach
<1>10. CASE Register(w)
  <2>0. PICK t : t = cur[w]
    OBVIOUS
  <2>1. /\ t \in Tasks /\ wpc[w] = "register" /\ waiting' = waiting \cup {<<t, parks[t], kind[t]>>}
        /\ state' = state /\ parks' = parks /\ kind' = kind /\ timers' = timers /\ ready' = ready
        /\ wpc' = [wpc EXCEPT ![w] = "leave"] /\ cur' = cur /\ wk' = wk
    BY <2>0, <1>10, <1>t DEF Register, Enlist, taskVars, queueVars
  <2>2. Awaited(t)'
    BY <2>0, <2>1 DEF Awaited
  <2>3. \A v \in Workers, u \in Tasks : Registering(v, u) => Registering(v, u)' \/ u = t
    BY <2>0, <1>t, <2>1 DEF Registering
  <2>4. \A u \in Tasks : u # t /\ Awaited(u) => Awaited(u)'
    BY <2>0, <2>1, <2>3 DEF Awaited, Waking
  <2>5. \A u \in Tasks : Popped(u) => Popped(u)'
    BY <2>0, <1>t, <2>1 DEF Popped
  <2>6. \A u \in Tasks : (Queued(u) => Queued(u)') /\ (Pushing(u) => Pushing(u)')
    BY <2>0, <2>1, <2>2, <2>4, <2>5 DEF Queued, Pushing
  <2> QED BY <2>0, <2>1, <2>2, <2>4, <2>5, <2>6, KeepsReach
<1>11. CASE RegisterTimer(w)
  <2>0. PICK t : t = cur[w]
    OBVIOUS
  <2>1. PICK i \in due .. Len(timers) : timers' = InsertAt(timers, i, t)
    BY <2>0, <1>11 DEF RegisterTimer
  <2>2. /\ t \in Tasks /\ wpc[w] = "register" /\ waiting' = waiting /\ ready' = ready
        /\ state' = state /\ parks' = parks /\ kind' = kind
        /\ wpc' = [wpc EXCEPT ![w] = "leave"] /\ cur' = cur /\ wk[w].pc = "idle"
    BY <2>0, <1>11, <1>t DEF RegisterTimer, taskVars, OneWaker, BusyOK
  <2>3. wk'[w].pc = "notify" /\ \A b \in Actors \ {w} : wk'[b] = wk[b]
    BY <2>0, <1>11, <1>t DEF RegisterTimer, WakeUp
  <2>4. \A a \in Actors, u \in Tasks : Waking(a, u) => Waking(a, u)' /\ wk'[a] = wk[a]
    BY <2>0, <2>2, <2>3 DEF Waking
  <2>5. \A u \in Tasks : Pushing(u) => Pushing(u)'
    BY <2>0, <2>2, <2>3 DEF Pushing
  <2>6. /\ DOMAIN timers' = 1 .. Len(timers) + 1 /\ i \in 0 .. Len(timers)
        /\ DOMAIN timers = 1 .. Len(timers) /\ Len(timers) \in Nat
        /\ \A j \in DOMAIN timers' :
             timers'[j] = IF j <= i THEN timers[j] ELSE IF j = i + 1 THEN t ELSE timers[j - 1]
    BY <2>0, <1>t, <2>1, <2>2, InsertAtElements
  <2>7. \A v \in Workers, u \in Tasks : Registering(v, u) => Registering(v, u)' \/ u = t
    BY <2>0, <1>t, <2>2 DEF Registering
  <2>8. \E j \in DOMAIN timers' : timers'[j] = t
    <3>1. i + 1 \in DOMAIN timers' /\ timers'[i + 1] = t
      BY <2>0, <2>6
    <3> QED BY <2>0, <3>1
  <2>9. \A j \in DOMAIN timers : \E l \in DOMAIN timers' : timers'[l] = timers[j]
    <3> SUFFICES ASSUME NEW j \in DOMAIN timers PROVE \E l \in DOMAIN timers' : timers'[l] = timers[j]
      OBVIOUS
    <3>1. CASE j <= i
      <4>1. j \in DOMAIN timers' /\ timers'[j] = timers[j]
        BY <2>0, <2>6, <3>1
      <4> QED BY <2>0, <4>1
    <3>2. CASE j > i
      <4>1. j + 1 \in DOMAIN timers' /\ timers'[j + 1] = timers[j]
        BY <2>0, <2>6, <3>2
      <4> QED BY <2>0, <4>1
    <3> QED BY <2>0, <2>6, <3>1, <3>2
  <2>10. \A u \in Tasks : Awaited(u) => Awaited(u)'
    BY <2>0, <2>2, <2>4, <2>7, <2>8, <2>9 DEF Awaited
  <2>11. \A u \in Tasks : Popped(u) => Popped(u)'
    BY <2>0, <1>t, <2>2 DEF Popped
  <2>12. \A u \in Tasks : (Queued(u) => Queued(u)')
    BY <2>0, <2>2, <2>5, <2>10, <2>11 DEF Queued
  <2> QED BY <2>0, <2>2, <2>5, <2>10, <2>11, <2>12, KeepsReach
<1>12. ASSUME NEW o \in Outcomes, Leave(w, o) PROVE Reach'
  <2> Quiet BY <1>12, <1>t DEF Leave, Outcomes, queueVars, Registering, Popped
  <2> QED BY <1>q
<1>13. CASE EndFinished(w)
  <2> Quiet BY <1>13, <1>t DEF EndFinished, Release, queueVars, Registering, Popped
  <2> QED BY <1>q
<1>14. CASE EndYielded(w)
  <2>0. PICK t : t = cur[w]
    OBVIOUS
  <2>1. /\ t \in Tasks /\ wpc[w] = "yielded" /\ state[t] = "RUNNING"
        /\ state' = [state EXCEPT ![t] = "READY"]
        /\ wk[w].pc = "idle"
    BY <2>0, <1>14, <1>t DEF EndYielded, OneOwner, Owns, OneWaker, BusyOK, Outcomes
  <2>2. /\ wk'[w].pc = "push" /\ wk'[w].task = t
        /\ \A b \in Actors \ {w} : wk'[b] = wk[b]
    BY <2>0, <1>14, <1>t, <2>1 DEF EndYielded, StartPush, WakeUp
  <2>3. Pushing(t)'
    BY <2>0, <1>t, <2>2 DEF Pushing
  <2>4. \A u \in Tasks : Pushing(u) => Pushing(u)'
    BY <2>0, <2>1, <2>2 DEF Pushing
  <2>5. \A v \in Workers, u \in Tasks : Registering(v, u) => Registering(v, u)'
    BY <2>0, <1>14, <1>t, <2>1 DEF EndYielded, Release, Registering
  <2>6. \A u \in Tasks : Popped(u) => Popped(u)'
    BY <2>0, <1>14, <1>t, <2>1 DEF EndYielded, Release, Popped
  <2>7. \A a \in Actors, u \in Tasks : Waking(a, u) => Waking(a, u)' /\ wk'[a] = wk[a]
    BY <2>0, <2>1, <2>2 DEF Waking
  <2>8. /\ parks' = parks /\ kind' = kind /\ waiting' = waiting /\ timers' = timers /\ ready' = ready
    BY <2>0, <1>14 DEF EndYielded, queueVars
  <2>9. \A u \in Tasks : Awaited(u) => Awaited(u)'
    BY <2>0, <2>5, <2>7, <2>8 DEF Awaited
  <2>10. \A u \in Tasks : (Queued(u) => Queued(u)')
    BY <2>0, <1>t, <2>1, <2>3, <2>4, <2>6, <2>8, <2>9 DEF Queued
  <2> QED BY <2>0, <1>t, <2>1, <2>3, <2>4, <2>6, <2>8, <2>9, <2>10, KeepsReach
<1>15. CASE EndParked(w)
  <2>1. /\ state' = state /\ parks' = parks /\ kind' = kind /\ waiting' = waiting
        /\ timers' = timers /\ ready' = ready /\ wpc[w] = "parked" /\ wk[w].pc = "idle"
    BY <1>15, <1>t DEF EndParked, taskVars, queueVars, OneWaker, BusyOK, Outcomes
  <2>2. \A b \in Actors \ {w} : wk'[b] = wk[b]
    BY <1>15, <1>t DEF EndParked, StartPush
  <2>3. \A u \in Tasks : Pushing(u) => Pushing(u)'
    BY <2>1, <2>2 DEF Pushing
  <2>4. \A a \in Actors, u \in Tasks : Waking(a, u) => Waking(a, u)' /\ wk'[a] = wk[a]
    BY <2>1, <2>2 DEF Waking
  <2>5. \A v \in Workers, u \in Tasks : Registering(v, u) => Registering(v, u)'
    BY <1>15, <1>t, <2>1 DEF EndParked, Release, Registering
  <2>6. \A u \in Tasks : Popped(u) => Popped(u)'
    BY <1>15, <1>t, <2>1 DEF EndParked, Release, Popped
  <2>7. \A u \in Tasks : Awaited(u) => Awaited(u)'
    BY <2>1, <2>4, <2>5 DEF Awaited
  <2>8. \A u \in Tasks : (Queued(u) => Queued(u)')
    BY <2>1, <2>3, <2>6, <2>7 DEF Queued
  <2> QED BY <2>1, <2>3, <2>6, <2>7, <2>8, KeepsReach
<1> HIDE DEF Quiet
<1> QED
  BY <1>1, <1>2, <1>3, <1>4, <1>5, <1>6, <1>7, <1>8, <1>9, <1>10, <1>11, <1>12, <1>13,
     <1>14, <1>15 DEF WorkerStep

\* Reach is inductive relative to what precedes it.
LEMMA NextReach == Typing /\ OneOwner /\ OneWaker /\ Reach /\ [Next]_vars => Reach'
<1> SUFFICES ASSUME Typing, OneOwner, OneWaker, Reach, [Next]_vars PROVE Reach'
  OBVIOUS
<1>1. ASSUME NEW a \in Actors, Carry(a) \/ Act(a) PROVE Reach'
  BY <1>1, CarryReach
<1>2. ASSUME NEW w \in Workers, WorkerStep(w) PROVE Reach'
  BY <1>2, WorkerReach
<1>3. CASE Tick \/ UNCHANGED vars
  <2>1. /\ state' = state /\ parks' = parks /\ kind' = kind /\ waiting' = waiting
        /\ timers' = timers /\ ready' = ready /\ wpc' = wpc /\ cur' = cur /\ wk' = wk
    BY <1>3 DEF Tick, vars, taskVars, queueVars, workVars
  <2> QED BY <2>1 DEF Reach, ReadyIsReachable, BlockedIsAwaited
<1> QED BY <1>1, <1>2, <1>3 DEF Next

-----------------------------------------------------------------------------
(* Where the answer to a task's latest park is: in the slots, in the hands of  *)
(* the worker that took it, or in the program's VM, and in one of them only.   *)

Due(t) == IF kind[t] = "job" THEN parks[t] ELSE 0
OneIs(a, b, n) == (a = n /\ b = 0) \/ (a = 0 /\ b = n)
NoSlot(t)  == inj[t] = 0 /\ err[t] = 0
NoPlace(t) == top[t] = 0 /\ thrown[t] = 0
InSlots(t) == OneIs(inj[t], err[t], Due(t)) /\ NoPlace(t)
InHands(w, t) == /\ NoSlot(t) /\ NoPlace(t)
                 /\ OneIs(got[w].inj, got[w].err, Due(t))
OnStack(t) == OneIs(top[t], thrown[t], Due(t)) /\ NoSlot(t)

TaskOK(t) ==
  /\ state[t] = "none" => NoSlot(t) /\ NoPlace(t) /\ Due(t) = 0
  /\ state[t] = "BLOCKED" => /\ NoPlace(t)
                             /\ NoSlot(t) \/ \E a \in Actors : Waking(a, t) /\ wk[a].pc = "cas"
  /\ \A a \in Actors : Waking(a, t) /\ wk[a].pc = "cas" => InSlots(t)
  /\ state[t] = "READY" => InSlots(t) \/ OnStack(t)
  /\ state[t] = "FINISHED" => OnStack(t)
SliceOK(w, t) ==
  Owns(w, t) => /\ wpc[w] = "take" => InSlots(t) \/ OnStack(t)
                /\ wpc[w] = "apply" => InHands(w, t)
                /\ wpc[w] \notin {"take", "apply"} => OnStack(t)
TasksOK  == \A t \in Tasks : TaskOK(t)
SlicesOK == \A w \in Workers, t \in Tasks : SliceOK(w, t)
GotOK == \A w \in Workers : wpc[w] # "apply" => got[w].inj = 0 /\ got[w].err = 0
AnswersOK == TasksOK /\ SlicesOK /\ GotOK

\* There is no answer at the start.
LEMMA InitAnswers == Init => AnswersOK
BY DEF Init, AnswersOK, TasksOK, TaskOK, SlicesOK, SliceOK, GotOK, NoSlot, NoPlace, InSlots, InHands, OnStack,
       OneIs, Due, Waking, Owns, Idle, WakeUp, Nothing

\* The answer of a task whose slots, stack and latest park are left alone stays
\* where it is.
Untouched(t) == /\ inj'[t] = inj[t] /\ err'[t] = err[t] /\ top'[t] = top[t]
                /\ thrown'[t] = thrown[t] /\ kind'[t] = kind[t] /\ parks'[t] = parks[t]

LEMMA UntouchedStays ==
  ASSUME NEW t \in Tasks, Untouched(t)
  PROVE  /\ NoSlot(t)' = NoSlot(t) /\ NoPlace(t)' = NoPlace(t) /\ Due(t)' = Due(t)
         /\ InSlots(t)' = InSlots(t) /\ OnStack(t)' = OnStack(t)
         /\ \A w \in Workers : got'[w] = got[w] => InHands(w, t)' = InHands(w, t)
BY DEF Untouched, NoSlot, NoPlace, Due, InSlots, InHands, OnStack, OneIs

\* A step that touches no answer, wakes nobody new up and changes no owner's place
\* keeps AnswersOK if the states it sets suit the answers that are there.
LEMMA SameAnswers ==
  ASSUME AnswersOK, \A t \in Tasks : Untouched(t), got' = got,
         \A a \in Actors, t \in Tasks : Waking(a, t)' /\ wk'[a].pc = "cas" => Waking(a, t) /\ wk[a].pc = "cas",
         \A t \in Tasks :
           \/ /\ state'[t] = state[t]
              /\ state[t] = "BLOCKED" =>
                   \A a \in Actors : Waking(a, t) /\ wk[a].pc = "cas" => Waking(a, t)' /\ wk'[a].pc = "cas"
           \/ state'[t] = "READY" /\ (InSlots(t) \/ OnStack(t))
           \/ state'[t] = "FINISHED" /\ OnStack(t)
           \/ state'[t] = "RUNNING",
         \A w \in Workers, t \in Tasks : Owns(w, t)' =>
           \/ Owns(w, t) /\ wpc'[w] = wpc[w]
           \/ wpc'[w] = "take" /\ (InSlots(t) \/ OnStack(t))
           \/ wpc'[w] \notin {"take", "apply"} /\ OnStack(t),
         \A w \in Workers : wpc'[w] # "apply" => wpc[w] # "apply"
  PROVE  AnswersOK'
<1>1. \A t \in Tasks : /\ NoSlot(t)' = NoSlot(t) /\ NoPlace(t)' = NoPlace(t) /\ Due(t)' = Due(t)
                       /\ InSlots(t)' = InSlots(t) /\ OnStack(t)' = OnStack(t)
                       /\ \A w \in Workers : InHands(w, t)' = InHands(w, t)
  BY UntouchedStays
<1>2. TasksOK'
  <2> SUFFICES ASSUME NEW t \in Tasks PROVE TaskOK(t)'
    BY DEF TasksOK
  <2> QED BY <1>1 DEF AnswersOK, TasksOK, TaskOK
<1>3. SlicesOK'
  BY <1>1 DEF AnswersOK, SlicesOK, SliceOK
<1>4. GotOK'
  BY DEF AnswersOK, GotOK
<1> QED BY <1>2, <1>3, <1>4 DEF AnswersOK

\* A wake-up writes one answer, into slots that are empty.
LEMMA CarryAnswers ==
  ASSUME Typing, OneOwner, OneWaker, AnswersOK, NEW a \in Actors, Carry(a) \/ Act(a)
  PROVE  AnswersOK'
<1>t. /\ wk \in [Actors -> Wakes] /\ state \in [Tasks -> States] /\ waiting \subseteq Waits
      /\ wpc \in [Workers -> WorkerPcs] /\ cur \in [Workers -> Tasks \cup {None}]
      /\ parks \in [Tasks -> Parks] /\ kind \in [Tasks -> Kinds]
      /\ inj \in [Tasks -> Parks] /\ err \in [Tasks -> Parks]
      /\ wk[a].pc \notin {"idle", "notify"} => wk[a].task \in Tasks
  BY DEF Typing, TypeOK, RefsOK
<1>1. CASE StartWake(a)
  <2> PICK x \in waiting, how \in {"plain", "ok", "err"} :
        /\ how = "plain" <=> x[3] = "plain"
        /\ waiting' = waiting \ {x}
        /\ wk' = [wk EXCEPT ![a] =
                   WakeUp(IF how = "plain" THEN "cas" ELSE "write", x[1], x[2], how)]
    BY <1>1 DEF StartWake
  <2>1. taskVars' = taskVars /\ workVars' = workVars /\ wk[a].pc = "idle"
    BY <1>1 DEF StartWake, CanAct
  <2>2. /\ wk'[a].pc = (IF how = "plain" THEN "cas" ELSE "write") /\ wk'[a].task = x[1]
        /\ \A b \in Actors \ {a} : wk'[b] = wk[b]
    BY <1>t DEF WakeUp
  <2>3. /\ x[1] \in Tasks /\ state[x[1]] = "BLOCKED" /\ x[3] = kind[x[1]]
        /\ \A b \in Actors : ~ Waking(b, x[1])
    BY <1>t, WaitFields DEF OneWaker, WaitingOK, WakingOK
  <2>4. \A t \in Tasks : Untouched(t) /\ NoSlot(t)' = NoSlot(t) /\ NoPlace(t)' = NoPlace(t)
                         /\ Due(t)' = Due(t) /\ InSlots(t)' = InSlots(t) /\ OnStack(t)' = OnStack(t)
    BY <2>1 DEF taskVars, Untouched, NoSlot, NoPlace, Due, InSlots, OnStack, OneIs
  <2>5. \A b \in Actors, t \in Tasks : Waking(b, t) => Waking(b, t)' /\ wk'[b].pc = wk[b].pc
    BY <2>1, <2>2 DEF Waking
  <2>6. \A b \in Actors, t \in Tasks : Waking(b, t)' =>
          \/ Waking(b, t) /\ wk'[b].pc = wk[b].pc
          \/ b = a /\ t = x[1]
    BY <2>2 DEF Waking
  <2>7. how = "plain" => InSlots(x[1])
    <3>1. NoPlace(x[1]) /\ NoSlot(x[1])
      BY <2>3 DEF AnswersOK, TasksOK, TaskOK
    <3> QED BY <2>3, <3>1 DEF InSlots, OneIs, Due, NoSlot
  <2>8. TasksOK'
    <3> SUFFICES ASSUME NEW t \in Tasks PROVE TaskOK(t)'
      BY DEF TasksOK
    <3>1. state' = state
      BY <2>1 DEF taskVars
    <3> QED BY <2>2, <2>4, <2>5, <2>6, <2>7, <3>1 DEF AnswersOK, TasksOK, TaskOK
  <2>9. SlicesOK' /\ GotOK'
    <3>1. got' = got /\ wpc' = wpc /\ cur' = cur
      BY <2>1 DEF workVars
    <3>2. \A w \in Workers, t \in Tasks : InHands(w, t)' = InHands(w, t) /\ Owns(w, t)' = Owns(w, t)
      BY <2>4, <3>1 DEF InHands, Owns
    <3> QED BY <2>4, <3>1, <3>2 DEF AnswersOK, SlicesOK, SliceOK, GotOK
  <2> QED BY <2>8, <2>9 DEF AnswersOK
<1>2. CASE WakeWrite(a)
  <2>0. PICK t : t = wk[a].task
    OBVIOUS
  <2>1. /\ state' = state /\ parks' = parks /\ kind' = kind /\ top' = top /\ thrown' = thrown
        /\ wpc' = wpc /\ cur' = cur /\ got' = got /\ wk[a].pc = "write" /\ t \in Tasks
    BY <1>2, <1>t, <2>0 DEF WakeWrite, workVars
  <2>2. /\ Waking(a, t) /\ state[t] = "BLOCKED" /\ kind[t] = "job" /\ wk[a].park = parks[t]
        /\ wk[a].how \in {"ok", "err"}
        /\ \A b \in Actors : Waking(b, t) => b = a
    BY <2>0, <2>1 DEF OneWaker, WakingOK, Waking
  <2>3. NoSlot(t) /\ NoPlace(t)
    BY <2>1, <2>2 DEF AnswersOK, TasksOK, TaskOK
  <2>4. /\ wk'[a].pc = "cas" /\ wk'[a].task = t
        /\ \A b \in Actors \ {a} : wk'[b] = wk[b]
    BY <1>2, <1>t, <2>0 DEF WakeWrite, WakeUp
  <2>5. InSlots(t)'
    <3>1. OneIs(inj'[t], err'[t], parks[t])
      BY <1>2, <1>t, <2>0, <2>1, <2>2, <2>3 DEF WakeWrite, OneIs, NoSlot
    <3> QED BY <2>1, <2>2, <2>3, <3>1 DEF InSlots, Due, NoPlace
  <2>6. \A u \in Tasks : u # t => Untouched(u)
    BY <1>2, <1>t, <2>0, <2>1 DEF WakeWrite, Untouched
  <2>7. \A u \in Tasks : u # t =>
          /\ NoSlot(u)' = NoSlot(u) /\ NoPlace(u)' = NoPlace(u) /\ Due(u)' = Due(u)
          /\ InSlots(u)' = InSlots(u) /\ OnStack(u)' = OnStack(u)
          /\ \A w \in Workers : InHands(w, u)' = InHands(w, u)
    BY <2>1, <2>6, UntouchedStays
  <2>8. \A b \in Actors, u \in Tasks : u # t => (Waking(b, u)' <=> Waking(b, u)) /\ (Waking(b, u) => wk'[b] = wk[b])
    BY <2>0, <2>4 DEF Waking
  <2>9. TasksOK'
    <3>1. \A u \in Tasks : u # t => TaskOK(u)'
      BY <2>1, <2>7, <2>8 DEF AnswersOK, TasksOK, TaskOK
    <3>2. NoPlace(t)' /\ Waking(a, t)'
      BY <2>3, <2>1, <2>4 DEF NoPlace, Waking
    <3>3. state'[t] = "BLOCKED"
      BY <2>1, <2>2
    <3> QED BY <2>4, <2>5, <3>1, <3>2, <3>3 DEF TasksOK, TaskOK
  <2>10. SlicesOK'
    <3>1. \A w \in Workers, u \in Tasks : Owns(w, u)' => Owns(w, u) /\ u # t
      BY <2>1, <2>2 DEF Owns, OneOwner
    <3> QED BY <2>1, <2>7, <3>1 DEF AnswersOK, SlicesOK, SliceOK
  <2>11. GotOK'
    BY <2>1 DEF AnswersOK, GotOK
  <2> QED BY <2>9, <2>10, <2>11 DEF AnswersOK
<1>3. CASE WakeCas(a)
  <2>0. PICK t : t = wk[a].task
    OBVIOUS
  <2>1. /\ \A u \in Tasks : Untouched(u)
        /\ wpc' = wpc /\ cur' = cur /\ got' = got /\ wk[a].pc = "cas" /\ t \in Tasks
    BY <1>3, <1>t, <2>0 DEF WakeCas, Untouched, workVars
  <2>2. Waking(a, t) /\ state[t] = "BLOCKED"
    BY <2>0, <2>1 DEF OneWaker, WakingOK, Waking
  <2>3. InSlots(t)
    BY <2>1, <2>2 DEF AnswersOK, TasksOK, TaskOK
  <2>4. /\ state' = [state EXCEPT ![t] = "READY"] /\ wk'[a].pc = "push"
        /\ \A b \in Actors \ {a} : wk'[b] = wk[b]
    BY <1>3, <1>t, <2>0, <2>2 DEF WakeCas, StartPush, WakeUp
  <2>5. \A b \in Actors, u \in Tasks : Waking(b, u)' => Waking(b, u) /\ wk'[b] = wk[b]
    BY <2>4 DEF Waking
  <2>6. \A b \in Actors, u \in Tasks : Waking(b, u) /\ u # t => Waking(b, u)' /\ wk'[b] = wk[b]
    BY <2>0, <2>4 DEF Waking
  <2>7. \A u \in Tasks : state'[u] = IF u = t THEN "READY" ELSE state[u]
    BY <1>t, <2>4
  <2>8. \A w \in Workers, u \in Tasks : Owns(w, u)' => Owns(w, u) /\ wpc'[w] = wpc[w]
    BY <2>1 DEF Owns
  <2> QED BY <2>1, <2>3, <2>5, <2>6, <2>7, <2>8, SameAnswers
<1>4. CASE Push(a)
  <2>1. taskVars' = taskVars /\ workVars' = workVars /\ wk[a].pc = "push"
    BY <1>4 DEF Push
  <2>2. wk'[a].pc = "notify" /\ \A b \in Actors \ {a} : wk'[b] = wk[b]
    BY <1>4, <1>t DEF Push, WakeUp
  <2>3. \A b \in Actors, u \in Tasks : Waking(b, u)' <=> Waking(b, u)
    BY <2>1, <2>2 DEF Waking
  <2>4. \A b \in Actors, u \in Tasks : Waking(b, u) => wk'[b] = wk[b]
    BY <2>1, <2>2 DEF Waking
  <2>5. /\ \A u \in Tasks : Untouched(u)
        /\ state' = state /\ wpc' = wpc /\ cur' = cur /\ got' = got
    BY <2>1 DEF taskVars, workVars, Untouched
  <2>6. \A w \in Workers, u \in Tasks : Owns(w, u)' => Owns(w, u) /\ wpc'[w] = wpc[w]
    BY <2>5 DEF Owns
  <2> QED BY <2>3, <2>4, <2>5, <2>6, SameAnswers
<1>5. CASE Notify(a)
  <2>1. taskVars' = taskVars /\ wk[a].pc = "notify" /\ cur' = cur /\ got' = got
    BY <1>5 DEF Notify, workVars
  <2>2. wk'[a].pc = "idle" /\ \A b \in Actors \ {a} : wk'[b] = wk[b]
    BY <1>5, <1>t DEF Notify, Idle, WakeUp
  <2>3. \A b \in Actors, u \in Tasks : Waking(b, u)' <=> Waking(b, u)
    BY <2>1, <2>2 DEF Waking
  <2>4. \A b \in Actors, u \in Tasks : Waking(b, u) => wk'[b] = wk[b]
    BY <2>1, <2>2 DEF Waking
  <2>5. (\A u \in Tasks : Untouched(u)) /\ state' = state
    BY <2>1 DEF taskVars, Untouched
  <2>6. \A w \in Workers : wpc'[w] = wpc[w] \/ (wpc[w] = "wait" /\ wpc'[w] = "fetch")
    BY <1>5, <1>t DEF Notify, workVars
  <2>7. \A w \in Workers, u \in Tasks : Owns(w, u)' => Owns(w, u) /\ wpc'[w] = wpc[w]
    BY <2>1, <2>6 DEF Owns
  <2> QED BY <2>1, <2>3, <2>4, <2>5, <2>6, <2>7, SameAnswers
<1>6. CASE Spawn(a)
  <2> PICK t \in Tasks : /\ state[t] = "none" /\ state' = [state EXCEPT ![t] = "READY"]
                         /\ StartPush(a, t)
    BY <1>6 DEF Spawn
  <2>1. /\ wk'[a].pc = "push" /\ wk[a].pc = "idle"
        /\ \A b \in Actors \ {a} : wk'[b] = wk[b]
        /\ \A u \in Tasks : Untouched(u)
        /\ wpc' = wpc /\ cur' = cur /\ got' = got
    BY <1>6, <1>t DEF Spawn, StartPush, CanAct, WakeUp, workVars, Untouched
  <2>2. InSlots(t)
    BY DEF AnswersOK, TasksOK, TaskOK, InSlots, OneIs, NoSlot
  <2>3. \A b \in Actors, u \in Tasks : Waking(b, u)' <=> Waking(b, u)
    BY <2>1 DEF Waking
  <2>4. \A b \in Actors, u \in Tasks : Waking(b, u) => wk'[b] = wk[b]
    BY <2>1 DEF Waking
  <2>5. \A u \in Tasks : state'[u] = IF u = t THEN "READY" ELSE state[u]
    BY <1>t
  <2>6. \A w \in Workers, u \in Tasks : Owns(w, u)' => Owns(w, u) /\ wpc'[w] = wpc[w]
    BY <2>1 DEF Owns
  <2> QED BY <2>1, <2>2, <2>3, <2>4, <2>5, <2>6, SameAnswers
<1> QED BY <1>1, <1>2, <1>3, <1>4, <1>5, <1>6 DEF Carry, Act

\* A step of the owner w of task t that changes nothing of another task.
LEMMA OthersAnswers ==
  ASSUME OneOwner, AnswersOK, NEW w \in Workers, NEW t \in Tasks, Owns(w, t), wk' = wk,
         \A u \in Tasks : u # t => Untouched(u) /\ state'[u] = state[u] /\ ~ Owns(w, u)',
         \A v \in Workers : v # w => wpc'[v] = wpc[v] /\ cur'[v] = cur[v] /\ got'[v] = got[v],
         TaskOK(t)', SliceOK(w, t)', wpc'[w] # "apply" => got'[w].inj = 0 /\ got'[w].err = 0
  PROVE  AnswersOK'
<1>1. \A u \in Tasks : u # t =>
        /\ NoSlot(u)' = NoSlot(u) /\ NoPlace(u)' = NoPlace(u) /\ Due(u)' = Due(u)
        /\ InSlots(u)' = InSlots(u) /\ OnStack(u)' = OnStack(u)
        /\ \A v \in Workers : v # w => InHands(v, u)' = InHands(v, u)
  BY UntouchedStays
<1>2. ASSUME NEW u \in Tasks, u # t PROVE TaskOK(u)'
  <2>1. \A a \in Actors : Waking(a, u)' <=> Waking(a, u)
    BY DEF Waking
  <2> QED BY <1>1, <1>2, <2>1 DEF AnswersOK, TasksOK, TaskOK
<1>3. ASSUME NEW v \in Workers, NEW u \in Tasks PROVE SliceOK(v, u)'
  <2>1. CASE v = w
    BY <2>1 DEF SliceOK
  <2>2. CASE v # w
    <3>1. Owns(v, u)' => Owns(v, u) /\ u # t
      BY <2>2 DEF Owns, OneOwner
    <3> QED BY <1>1, <2>2, <3>1 DEF AnswersOK, SlicesOK, SliceOK
  <2> QED BY <2>1, <2>2
<1>4. GotOK'
  BY DEF AnswersOK, GotOK
<1> QED BY <1>2, <1>3, <1>4 DEF AnswersOK, TasksOK, SlicesOK

\* A worker takes the answer, applies it, and parks only without one.
LEMMA WorkerAnswers ==
  ASSUME Typing, OneOwner, OneWaker, AnswersOK, NEW w \in Workers, WorkerStep(w)
  PROVE  AnswersOK'
<1>t. /\ wk \in [Actors -> Wakes] /\ wpc \in [Workers -> WorkerPcs]
      /\ state \in [Tasks -> States] /\ cur \in [Workers -> Tasks \cup {None}]
      /\ parks \in [Tasks -> Parks] /\ kind \in [Tasks -> Kinds]
      /\ inj \in [Tasks -> Parks] /\ err \in [Tasks -> Parks]
      /\ top \in [Tasks -> Parks] /\ thrown \in [Tasks -> Parks]
      /\ timers \in Seq(Tasks) /\ due \in 0 .. Len(timers) /\ ready \in Seq(Tasks)
      /\ got \in [Workers -> Answers]
      /\ w \in Actors
      /\ wpc[w] \notin {"fetch", "wait"} => cur[w] \in Tasks
  BY DEF Typing, TypeOK, RefsOK, Actors
<1> DEFINE Same == (\A t \in Tasks : Untouched(t)) /\ got' = got
           Wakers == \A a \in Actors, t \in Tasks :
                       /\ Waking(a, t)' /\ wk'[a].pc = "cas" => Waking(a, t) /\ wk[a].pc = "cas"
                       /\ Waking(a, t) /\ wk[a].pc = "cas" => Waking(a, t)' /\ wk'[a].pc = "cas"
           Fits(t) == \/ state'[t] = state[t]
                      \/ state'[t] = "READY" /\ (InSlots(t) \/ OnStack(t))
                      \/ state'[t] = "FINISHED" /\ OnStack(t)
                      \/ state'[t] = "RUNNING"
           Goes(v, t) == Owns(v, t)' => \/ Owns(v, t) /\ wpc'[v] = wpc[v]
                                        \/ wpc'[v] = "take" /\ (InSlots(t) \/ OnStack(t))
                                        \/ wpc'[v] \notin {"take", "apply"} /\ OnStack(t)
           Quiet == /\ Same /\ Wakers
                    /\ \A t \in Tasks : Fits(t)
                    /\ \A v \in Workers, t \in Tasks : Goes(v, t)
                    /\ \A v \in Workers : wpc'[v] # "apply" => wpc[v] # "apply"
<1>q. Quiet => AnswersOK'
  BY SameAnswers
<1>w. wk' = wk => Wakers
  BY DEF Waking
<1>u. taskVars' = taskVars /\ got' = got => Same /\ \A t \in Tasks : Fits(t)
  BY DEF taskVars, Untouched
<1>1. CASE Timeout(w)
  <2>1. taskVars' = taskVars /\ got' = got /\ wk' = wk
    BY <1>1 DEF Timeout
  <2>2. \A v \in Workers, t \in Tasks : Goes(v, t)
    BY <1>1, <1>t DEF Timeout, Owns
  <2>3. \A v \in Workers : wpc'[v] # "apply" => wpc[v] # "apply"
    BY <1>1, <1>t DEF Timeout
  <2> QED BY <1>q, <1>w, <1>u, <2>1, <2>2, <2>3
<1>2. CASE FireTimer(w)
  <2>0. PICK t : t = Head(timers)
    OBVIOUS
  <2>1. timers # <<>>
    BY <1>2, <1>t DEF FireTimer
  <2>2. t \in Tasks /\ 1 \in DOMAIN timers /\ timers[1] = t
    BY <1>t, <2>0, <2>1, TailElements
  <2>3. state[t] = "BLOCKED" /\ kind[t] = "timer"
    BY <2>2 DEF OneWaker, TimersOK
  <2>4. /\ state' = [state EXCEPT ![t] = "READY"]
        /\ wk' = wk /\ got' = got /\ wpc' = wpc /\ cur' = cur
    BY <1>2, <2>0, <2>3 DEF FireTimer, workVars
  <2>5. InSlots(t)
    <3>1. NoPlace(t) /\ NoSlot(t)
      BY <2>2, <2>3 DEF AnswersOK, TasksOK, TaskOK, OneWaker, WakingOK
    <3> QED BY <2>3, <3>1 DEF InSlots, OneIs, Due, NoSlot
  <2>6. Same
    BY <1>2, <2>4 DEF FireTimer, Untouched
  <2>7. \A u \in Tasks : Fits(u)
    BY <1>t, <2>2, <2>4, <2>5
  <2>8. \A v \in Workers, u \in Tasks : Goes(v, u)
    BY <2>4 DEF Owns
  <2> QED BY <1>q, <1>w, <2>4, <2>6, <2>7, <2>8
<1>3. CASE Pop(w)
  <2>1. taskVars' = taskVars /\ got' = got /\ wk' = wk
    BY <1>3 DEF Pop
  <2>2. \A v \in Workers, t \in Tasks : Goes(v, t)
    BY <1>3, <1>t DEF Pop, Owns
  <2>3. \A v \in Workers : wpc'[v] # "apply" => wpc[v] # "apply"
    BY <1>3, <1>t DEF Pop, Fetching
  <2> QED BY <1>q, <1>w, <1>u, <2>1, <2>2, <2>3
<1>4. CASE Wait(w)
  <2>1. taskVars' = taskVars /\ got' = got /\ wk' = wk
    BY <1>4 DEF Wait
  <2>2. \A v \in Workers, t \in Tasks : Goes(v, t)
    BY <1>4, <1>t DEF Wait, Owns
  <2>3. \A v \in Workers : wpc'[v] # "apply" => wpc[v] # "apply"
    BY <1>4, <1>t DEF Wait, Fetching
  <2> QED BY <1>q, <1>w, <1>u, <2>1, <2>2, <2>3
<1>5. CASE Checkout(w)
  <2>1. Same /\ wk' = wk
    BY <1>5 DEF Checkout, Untouched
  <2>2. \A v \in Workers : wpc'[v] # "apply" => wpc[v] # "apply"
    BY <1>5, <1>t DEF Checkout, Release
  <2>3. /\ wpc[w] = "checkout" /\ cur[w] \in Tasks
        /\ \A v \in Workers : v # w => wpc'[v] = wpc[v] /\ cur'[v] = cur[v]
    BY <1>5, <1>t DEF Checkout, Release
  <2>4. CASE state[cur[w]] = "READY"
    <3>1. /\ state' = [state EXCEPT ![cur[w]] = "RUNNING"] /\ wpc'[w] = "take" /\ cur' = cur
      BY <1>5, <1>t, <2>4 DEF Checkout, MayCheckout
    <3>2. InSlots(cur[w]) \/ OnStack(cur[w])
      BY <2>3, <2>4 DEF AnswersOK, TasksOK, TaskOK
    <3>3. \A t \in Tasks : Fits(t)
      BY <1>t, <3>1
    <3>4. \A v \in Workers, t \in Tasks : Goes(v, t)
      BY <2>3, <3>1, <3>2 DEF Owns
    <3> QED BY <1>q, <1>w, <2>1, <2>2, <3>3, <3>4
  <2>5. CASE state[cur[w]] # "READY"
    <3>1. state' = state /\ wpc'[w] = "fetch"
      BY <1>5, <1>t, <2>5 DEF Checkout, MayCheckout, Release
    <3>2. \A v \in Workers, t \in Tasks : Goes(v, t)
      BY <2>3, <3>1 DEF Owns
    <3> QED BY <1>q, <1>w, <2>1, <2>2, <3>1, <3>2
  <2> QED BY <2>4, <2>5
<1>6. CASE Take(w)
  <2>0. PICK t \in Tasks : t = cur[w]
    BY <1>6, <1>t DEF Take
  <2>1. /\ Owns(w, t) /\ state[t] = "RUNNING" /\ (InSlots(t) \/ OnStack(t))
        /\ wpc[w] = "take"
    BY <1>6, <2>0 DEF Take, Owns, OneOwner, AnswersOK, SlicesOK, SliceOK
  <2>2. /\ state' = state /\ parks' = parks /\ kind' = kind /\ top' = top /\ thrown' = thrown
        /\ wk' = wk /\ cur' = cur
        /\ got'[w].inj = inj[t] /\ got'[w].err = err[t]
        /\ \A v \in Workers : v # w => wpc'[v] = wpc[v] /\ got'[v] = got[v]
        /\ wpc'[w] = IF HasAnswer(t) THEN "apply" ELSE "enter"
    BY <1>6, <1>t, <2>0 DEF Take
  <2>3. /\ inj'[t] = 0 /\ err'[t] = 0
        /\ \A u \in Tasks : u # t => inj'[u] = inj[u] /\ err'[u] = err[u]
    BY <1>6, <1>t, <2>0 DEF Take, Emptied
  <2>4. TaskOK(t)'
    <3>1. \A a \in Actors : ~ Waking(a, t)'
      BY <2>1, <2>2 DEF OneWaker, WakingOK, Waking
    <3> QED BY <2>1, <2>2, <3>1 DEF TaskOK
  <2>5. CASE HasAnswer(t)
    <3>1. InSlots(t)
      BY <2>1, <2>5 DEF HasAnswer, OnStack, NoSlot
    <3>2. InHands(w, t)'
      BY <2>2, <2>3, <3>1 DEF InSlots, InHands, NoSlot, NoPlace, OneIs, Due
    <3>3. SliceOK(w, t)'
      BY <2>2, <2>5, <3>2 DEF SliceOK
    <3>4. \A u \in Tasks : u # t => Untouched(u) /\ state'[u] = state[u] /\ ~ Owns(w, u)'
      BY <2>0, <2>2, <2>3 DEF Untouched, Owns
    <3> QED BY <2>1, <2>2, <2>4, <2>5, <3>3, <3>4, OthersAnswers
  <2>6. CASE ~ HasAnswer(t)
    <3>1. OnStack(t)
      BY <2>1, <2>6 DEF HasAnswer, InSlots, OnStack, NoSlot, NoPlace, OneIs
    <3>2. OnStack(t)'
      BY <2>2, <2>3, <3>1 DEF OnStack, NoSlot, OneIs, Due
    <3>3. SliceOK(w, t)'
      BY <2>2, <2>6, <3>2 DEF SliceOK
    <3>4. \A u \in Tasks : u # t => Untouched(u) /\ state'[u] = state[u] /\ ~ Owns(w, u)'
      BY <2>0, <2>2, <2>3 DEF Untouched, Owns
    <3>5. got'[w].inj = 0 /\ got'[w].err = 0
      BY <2>2, <2>6 DEF HasAnswer
    <3> QED BY <2>1, <2>2, <2>4, <3>3, <3>4, <3>5, OthersAnswers
  <2> QED BY <2>5, <2>6
<1>7. CASE Apply(w)
  <2>0. PICK t \in Tasks : t = cur[w]
    BY <1>7, <1>t DEF Apply
  <2>1. Owns(w, t) /\ state[t] = "RUNNING" /\ InHands(w, t)
    BY <1>7, <2>0 DEF Apply, Owns, OneOwner, AnswersOK, SlicesOK, SliceOK
  <2>2. /\ state' = state /\ parks' = parks /\ kind' = kind /\ inj' = inj /\ err' = err
        /\ wk' = wk /\ cur' = cur /\ wpc' = [wpc EXCEPT ![w] = "enter"]
        /\ got' = [got EXCEPT ![w] = Nothing]
    BY <1>7 DEF Apply
  <2>3. /\ got'[w].inj = 0 /\ got'[w].err = 0 /\ wpc'[w] = "enter"
        /\ \A v \in Workers : v # w => wpc'[v] = wpc[v] /\ got'[v] = got[v]
    BY <1>t, <2>2 DEF Nothing
  <2>4. /\ thrown'[t] = got[w].err /\ top'[t] = got[w].inj
    BY <1>7, <1>t, <2>0, <2>1 DEF Apply, InHands, NoPlace
  <2>5. \A u \in Tasks : u # t => Untouched(u) /\ state'[u] = state[u] /\ ~ Owns(w, u)'
    BY <1>7, <1>t, <2>0, <2>2 DEF Apply, Untouched, Owns
  <2>6. OnStack(t)'
    BY <2>1, <2>2, <2>4 DEF InHands, OnStack, OneIs, Due, NoSlot
  <2>7. TaskOK(t)'
    <3>1. \A a \in Actors : ~ Waking(a, t)'
      BY <2>1, <2>2 DEF OneWaker, WakingOK, Waking
    <3> QED BY <2>1, <2>2, <3>1 DEF TaskOK
  <2>8. SliceOK(w, t)'
    BY <2>3, <2>6 DEF SliceOK
  <2> QED BY <2>1, <2>2, <2>3, <2>5, <2>7, <2>8, OthersAnswers
<1>8. CASE Enter(w)
  <2>1. Same /\ wk' = wk /\ state' = state /\ cur' = cur
    BY <1>8 DEF Enter, Untouched
  <2>2. /\ cur[w] \in Tasks /\ wpc[w] = "enter" /\ wpc'[w] = "slice"
        /\ \A v \in Workers : v # w => wpc'[v] = wpc[v]
    BY <1>8, <1>t DEF Enter
  <2>3. Owns(w, cur[w]) /\ OnStack(cur[w])
    BY <2>2 DEF AnswersOK, SlicesOK, SliceOK, Owns
  <2>4. \A v \in Workers, t \in Tasks : Goes(v, t)
    BY <2>1, <2>2, <2>3 DEF Owns
  <2>5. \A v \in Workers : wpc'[v] # "apply" => wpc[v] # "apply"
    BY <2>2
  <2> QED BY <1>q, <1>w, <2>1, <2>4, <2>5
<1>9. ASSUME NEW k \in Kinds, Park(w, k) PROVE AnswersOK'
  <2>0. PICK t \in Tasks : t = cur[w]
    BY <1>9, <1>t DEF Park
  <2>1. /\ Owns(w, t) /\ state[t] = "RUNNING" /\ OnStack(t) /\ wpc[w] = "slice"
    BY <1>9, <2>0 DEF Park, Owns, OneOwner, AnswersOK, SlicesOK, SliceOK
  <2>2. /\ state'[t] = "BLOCKED" /\ top'[t] = 0 /\ thrown'[t] = 0 /\ inj' = inj /\ err' = err
        /\ got' = got /\ cur' = cur /\ wk' = wk /\ wpc' = [wpc EXCEPT ![w] = "register"]
    BY <1>9, <1>t, <2>0 DEF Park
  <2>3. wpc'[w] = "register" /\ \A v \in Workers : v # w => wpc'[v] = wpc[v]
    BY <1>t, <2>2
  <2>4. \A u \in Tasks : u # t => Untouched(u) /\ state'[u] = state[u] /\ ~ Owns(w, u)'
    BY <1>9, <1>t, <2>0, <2>2 DEF Park, Untouched, Owns
  <2>5. TaskOK(t)'
    <3>1. \A a \in Actors : ~ Waking(a, t)'
      BY <2>1, <2>2 DEF OneWaker, WakingOK, Waking
    <3> QED BY <2>1, <2>2, <3>1 DEF TaskOK, OnStack, NoSlot, NoPlace
  <2>6. SliceOK(w, t)'
    BY <2>3 DEF SliceOK, Owns
  <2>7. got'[w].inj = 0 /\ got'[w].err = 0
    BY <2>1, <2>2 DEF AnswersOK, GotOK
  <2> QED BY <2>1, <2>2, <2>3, <2>4, <2>5, <2>6, <2>7, OthersAnswers
<1>10. CASE Register(w)
  <2>1. taskVars' = taskVars /\ got' = got /\ wk' = wk
    BY <1>10 DEF Register, Enlist
  <2>2. \A v \in Workers, t \in Tasks : Goes(v, t)
    BY <1>10, <1>t DEF Register, Enlist, Owns
  <2>3. \A v \in Workers : wpc'[v] # "apply" => wpc[v] # "apply"
    BY <1>10, <1>t DEF Register, Enlist
  <2> QED BY <1>q, <1>w, <1>u, <2>1, <2>2, <2>3
<1>11. CASE RegisterTimer(w)
  <2>1. taskVars' = taskVars /\ got' = got /\ wk[w].pc = "idle"
    BY <1>11, <1>t DEF RegisterTimer, OneWaker, BusyOK
  <2>2. wk'[w].pc = "notify" /\ \A b \in Actors \ {w} : wk'[b] = wk[b]
    BY <1>11, <1>t DEF RegisterTimer, WakeUp
  <2>3. Wakers
    BY <2>1, <2>2 DEF Waking
  <2>4. \A v \in Workers, t \in Tasks : Goes(v, t)
    BY <1>11, <1>t DEF RegisterTimer, Owns
  <2>5. \A v \in Workers : wpc'[v] # "apply" => wpc[v] # "apply"
    BY <1>11, <1>t DEF RegisterTimer
  <2> QED BY <1>q, <1>u, <2>1, <2>3, <2>4, <2>5
<1>12. ASSUME NEW o \in Outcomes, Leave(w, o) PROVE AnswersOK'
  <2>1. Same /\ wk' = wk /\ state' = state /\ cur' = cur
    BY <1>12 DEF Leave, Untouched
  <2>2. /\ cur[w] \in Tasks /\ wpc[w] \in {"leave", "slice"} /\ wpc'[w] = o
        /\ o # "parked" => wpc[w] = "slice"
        /\ \A v \in Workers : v # w => wpc'[v] = wpc[v]
    BY <1>12, <1>t DEF Leave
  <2>3. o # "parked" => Owns(w, cur[w]) /\ OnStack(cur[w])
    BY <2>2 DEF AnswersOK, SlicesOK, SliceOK, Owns
  <2>4. \A v \in Workers, t \in Tasks : Goes(v, t)
    BY <2>1, <2>2, <2>3 DEF Owns, Outcomes
  <2>5. \A v \in Workers : wpc'[v] # "apply" => wpc[v] # "apply"
    BY <2>2
  <2> QED BY <1>q, <1>w, <2>1, <2>4, <2>5
<1>13. CASE EndFinished(w)
  <2>1. Same /\ wk' = wk
    BY <1>13 DEF EndFinished, Untouched
  <2>2. /\ cur[w] \in Tasks /\ Owns(w, cur[w]) /\ OnStack(cur[w])
    BY <1>13, <1>t DEF EndFinished, AnswersOK, SlicesOK, SliceOK, Owns
  <2>3. /\ state' = [state EXCEPT ![cur[w]] = "FINISHED"] /\ wpc'[w] = "fetch"
        /\ wpc[w] \in {"completed", "panicked"}
        /\ \A v \in Workers : v # w => wpc'[v] = wpc[v] /\ cur'[v] = cur[v]
    BY <1>13, <1>t DEF EndFinished, Release
  <2>4. \A t \in Tasks : Fits(t)
    BY <1>t, <2>2, <2>3
  <2>5. \A v \in Workers, t \in Tasks : Goes(v, t)
    BY <2>3 DEF Owns
  <2>6. \A v \in Workers : wpc'[v] # "apply" => wpc[v] # "apply"
    BY <2>3
  <2> QED BY <1>q, <1>w, <2>1, <2>4, <2>5, <2>6
<1>14. CASE EndYielded(w)
  <2>1. /\ cur[w] \in Tasks /\ Owns(w, cur[w]) /\ OnStack(cur[w]) /\ state[cur[w]] = "RUNNING"
        /\ wk[w].pc = "idle" /\ wpc[w] = "yielded"
    BY <1>14, <1>t
       DEF EndYielded, AnswersOK, SlicesOK, SliceOK, Owns, OneOwner, OneWaker, BusyOK, Outcomes
  <2>2. Same
    BY <1>14 DEF EndYielded, Untouched
  <2>3. /\ state' = [state EXCEPT ![cur[w]] = "READY"] /\ wpc'[w] = "fetch"
        /\ wk'[w].pc = "push" /\ \A b \in Actors \ {w} : wk'[b] = wk[b]
        /\ \A v \in Workers : v # w => wpc'[v] = wpc[v] /\ cur'[v] = cur[v]
    BY <1>14, <1>t, <2>1 DEF EndYielded, Release, StartPush, WakeUp
  <2>4. Wakers
    BY <2>1, <2>3 DEF Waking
  <2>5. \A t \in Tasks : Fits(t)
    BY <1>t, <2>1, <2>3
  <2>6. \A v \in Workers, t \in Tasks : Goes(v, t)
    BY <2>3 DEF Owns
  <2>7. \A v \in Workers : wpc'[v] # "apply" => wpc[v] # "apply"
    BY <2>1, <2>3
  <2> QED BY <1>q, <2>2, <2>4, <2>5, <2>6, <2>7
<1>15. CASE EndParked(w)
  <2>1. taskVars' = taskVars /\ got' = got /\ wk[w].pc = "idle" /\ wpc[w] = "parked"
    BY <1>15, <1>t DEF EndParked, OneWaker, BusyOK, Outcomes
  <2>2. \A b \in Actors \ {w} : wk'[b] = wk[b]
    BY <1>15, <1>t DEF EndParked, StartPush
  <2>3. wk'[w].pc \in {"idle", "push"}
    BY <1>15, <1>t, <2>1 DEF EndParked, StartPush, WakeUp
  <2>4. Wakers
    BY <2>1, <2>2, <2>3 DEF Waking
  <2>5. /\ wpc'[w] = "fetch"
        /\ \A v \in Workers : v # w => wpc'[v] = wpc[v] /\ cur'[v] = cur[v]
    BY <1>15, <1>t DEF EndParked, Release
  <2>6. \A v \in Workers, t \in Tasks : Goes(v, t)
    BY <2>5 DEF Owns
  <2>7. \A v \in Workers : wpc'[v] # "apply" => wpc[v] # "apply"
    BY <2>1, <2>5
  <2> QED BY <1>q, <1>u, <2>1, <2>4, <2>6, <2>7
<1> HIDE DEF Quiet, Same, Wakers, Fits, Goes
<1> QED
  BY <1>1, <1>2, <1>3, <1>4, <1>5, <1>6, <1>7, <1>8, <1>9, <1>10, <1>11, <1>12, <1>13,
     <1>14, <1>15 DEF WorkerStep

\* AnswersOK is inductive relative to what precedes it.
LEMMA NextAnswers ==
  Typing /\ OneOwner /\ OneWaker /\ AnswersOK /\ [Next]_vars => AnswersOK'
<1> SUFFICES ASSUME Typing, OneOwner, OneWaker, AnswersOK, [Next]_vars PROVE AnswersOK'
  OBVIOUS
<1>1. ASSUME NEW a \in Actors, Carry(a) \/ Act(a) PROVE AnswersOK'
  BY <1>1, CarryAnswers
<1>2. ASSUME NEW w \in Workers, WorkerStep(w) PROVE AnswersOK'
  BY <1>2, WorkerAnswers
<1>3. CASE Tick \/ UNCHANGED vars
  <2>1. taskVars' = taskVars /\ wpc' = wpc /\ cur' = cur /\ got' = got /\ wk' = wk
    BY <1>3 DEF Tick, vars, queueVars, workVars
  <2>2. \A t \in Tasks : Untouched(t) /\ state'[t] = state[t]
    BY <2>1 DEF taskVars, Untouched
  <2>3. \A a \in Actors, t \in Tasks : Waking(a, t)' <=> Waking(a, t)
    BY <2>1 DEF Waking
  <2>4. \A w \in Workers, t \in Tasks : Owns(w, t)' <=> Owns(w, t)
    BY <2>1 DEF Owns
  <2> QED BY <2>1, <2>2, <2>3, <2>4, SameAnswers
<1> QED BY <1>1, <1>2, <1>3 DEF Next

-----------------------------------------------------------------------------
(* The theorems that rest on the whole invariant *)

IInv == Typing /\ OneOwner /\ OneWaker /\ Reach /\ AnswersOK

\* The whole invariant holds in every reachable state.
LEMMA Invariance == Spec => []IInv
<1>1. Init => IInv
  BY InitTyping, InitOwner, InitWaker, InitReach, InitAnswers DEF IInv
<1>2. IInv /\ [Next]_vars => IInv'
  BY NextTyping, NextOwner, NextWaker, NextReach, NextAnswers DEF IInv
<1> QED BY <1>1, <1>2, PTL DEF Spec

\* No lost wake-up, first half (scheduler.rs: a READY task is always in the ready
\* queue, about to be pushed, or just popped).
THEOREM ReadyTasksAreReachable == Spec => []ReadyIsReachable
BY Invariance, PTL DEF IInv, Reach

\* No lost wake-up, second half: every BLOCKED task has its waker.
THEOREM BlockedTasksAreAwaited == Spec => []BlockedIsAwaited
BY Invariance, PTL DEF IInv, Reach

\* A task goes on with the answer to the park it made last (run_task_slice_once).
THEOREM AnswersAreDelivered == Spec => []AnswerDelivered
<1>1. IInv => AnswerDelivered
  <2> SUFFICES ASSUME IInv, NEW w \in Workers, wpc[w] = "slice"
               PROVE  LET t == cur[w] IN
                      {top[t], thrown[t]} = IF kind[t] = "job" /\ parks[t] > 0
                                              THEN {0, parks[t]} ELSE {0}
    BY DEF AnswerDelivered
  <2>1. cur[w] \in Tasks
    BY DEF IInv, Typing, RefsOK
  <2>2. Owns(w, cur[w])
    BY DEF Owns
  <2>3. OnStack(cur[w])
    BY <2>1, <2>2 DEF IInv, AnswersOK, SlicesOK, SliceOK
  <2>4. parks[cur[w]] \in Nat
    BY <2>1, SchedulerAssumption DEF IInv, Typing, TypeOK, Parks
  <2> QED BY <2>3, <2>4 DEF OnStack, OneIs, Due
<1> QED BY <1>1, Invariance, PTL

\* A pending slot holds at most the answer to the open park.
THEOREM NoAnswerIsStale == Spec => []NoStaleAnswer
<1>1. IInv => NoStaleAnswer
  <2> SUFFICES ASSUME IInv, NEW t \in Tasks, inj[t] # 0 \/ err[t] # 0
               PROVE  /\ state[t] \in {"BLOCKED", "READY", "RUNNING"}
                      /\ {inj[t], err[t]} = {0, parks[t]}
    BY DEF NoStaleAnswer
  <2>1. ~ NoSlot(t) /\ ~ OnStack(t)
    BY DEF NoSlot, OnStack
  <2>2. state[t] \in States /\ TaskOK(t)
    BY DEF IInv, Typing, TypeOK, AnswersOK, TasksOK
  <2>3. state[t] \in {"BLOCKED", "READY", "RUNNING"}
    BY <2>1, <2>2 DEF States, TaskOK
  <2>4. InSlots(t)
    <3>1. CASE state[t] = "RUNNING"
      <4>1. PICK w \in Workers : Owns(w, t)
        BY <3>1 DEF IInv, OneOwner
      <4> QED BY <2>1, <4>1 DEF IInv, AnswersOK, SlicesOK, SliceOK, InHands
    <3>2. CASE state[t] \in {"BLOCKED", "READY"}
      BY <2>1, <2>2, <3>2 DEF TaskOK
    <3> QED BY <2>3, <3>1, <3>2
  <2> QED BY <2>3, <2>4 DEF InSlots, OneIs, Due
<1> QED BY <1>1, Invariance, PTL

-----------------------------------------------------------------------------
(* The scheduler implements the abstract tasks.  The answer that the mapping   *)
(* looks for in the slots, in a worker's hands and in the VM is Due(t).        *)

\* What the mapping finds for a task.
LEMMA AnswerIsDue ==
  ASSUME IInv, NEW t \in Tasks
  PROVE  TheAnswer(t) = IF state[t] = "BLOCKED" THEN 0 ELSE Due(t)
<1> DEFINE A == {inj[t], err[t]} \cup
                UNION {{got[w].inj, got[w].err} : w \in {v \in Workers : cur[v] = t}}
           B == A \cup {top[t], thrown[t]}
<1>1. Due(t) \in Parks /\ Due(t) \in Nat /\ 0 <= Due(t)
  BY SchedulerAssumption DEF IInv, Typing, TypeOK, Due, Parks
<1>2. CASE state[t] # "BLOCKED"
  <2>1. state[t] \in States /\ TaskOK(t)
    BY DEF IInv, Typing, TypeOK, AnswersOK, TasksOK
  <2>2. \/ InSlots(t) \/ OnStack(t)
        \/ \E w \in Workers : Owns(w, t) /\ wpc[w] = "apply" /\ InHands(w, t)
    <3>1. CASE state[t] = "RUNNING"
      <4>1. PICK w \in Workers : Owns(w, t)
        BY <3>1 DEF IInv, OneOwner
      <4> QED BY <4>1 DEF IInv, AnswersOK, SlicesOK, SliceOK
    <3>2. CASE state[t] \in {"READY", "FINISHED"}
      BY <2>1, <3>2 DEF TaskOK
    <3>3. CASE state[t] = "none"
      BY <2>1, <3>3 DEF TaskOK, InSlots, NoSlot, NoPlace, OneIs
    <3> QED BY <1>2, <2>1, <3>1, <3>2, <3>3 DEF States
  <2>3. \A w \in Workers : cur[w] = t =>
          \/ got[w].inj = 0 /\ got[w].err = 0
          \/ Owns(w, t) /\ wpc[w] = "apply" /\ InHands(w, t)
    BY DEF IInv, AnswersOK, GotOK, SlicesOK, SliceOK, Owns
  <2>4. \A w \in Workers : Owns(w, t) => cur[w] = t
    BY DEF Owns
  <2>5. \A n \in B : n = 0 \/ n = Due(t)
    <3>1. \A w \in Workers : cur[w] = t => got[w].inj \in {0, Due(t)} /\ got[w].err \in {0, Due(t)}
      BY <2>3 DEF InHands, OneIs
    <3>2. inj[t] \in {0, Due(t)} /\ err[t] \in {0, Due(t)}
      BY <2>2 DEF InSlots, OnStack, InHands, NoSlot, OneIs
    <3>3. top[t] \in {0, Due(t)} /\ thrown[t] \in {0, Due(t)}
      BY <2>2 DEF InSlots, OnStack, InHands, NoPlace, OneIs
    <3> QED BY <3>1, <3>2, <3>3
  <2>6. Due(t) \in B
    <3>1. CASE InSlots(t) \/ OnStack(t)
      BY <3>1 DEF InSlots, OnStack, OneIs
    <3>2. CASE \E w \in Workers : Owns(w, t) /\ wpc[w] = "apply" /\ InHands(w, t)
      <4> PICK w \in Workers : Owns(w, t) /\ InHands(w, t)
        BY <3>2
      <4>1. cur[w] = t /\ (Due(t) = got[w].inj \/ Due(t) = got[w].err)
        BY <2>4 DEF InHands, OneIs
      <4> QED BY <4>1
    <3> QED BY <2>2, <3>1, <3>2
  <2> HIDE DEF B
  <2>7. \A n \in Parks : (n \in B /\ \A m \in B : m <= n) <=> n = Due(t)
    BY <1>1, <2>5, <2>6, SchedulerAssumption DEF Parks
  <2>8. TheAnswer(t) = CHOOSE n \in Parks : n \in B /\ \A m \in B : m <= n
    BY <1>2 DEF TheAnswer, B
  <2>9. (CHOOSE n \in Parks : n \in B /\ \A m \in B : m <= n) = Due(t)
    BY <1>1, <2>7
  <2> QED BY <1>2, <2>8, <2>9
<1>3. CASE state[t] = "BLOCKED"
  BY <1>3 DEF TheAnswer
<1> QED BY <1>2, <1>3

\* What the mapping makes of a state.
Known(t)  == IF state[t] = "BLOCKED" THEN 0 ELSE Due(t)
KnownIs   == \A t \in Tasks : TheAnswer(t) = Known(t)
lifeMap   == [t \in Tasks |-> LifeName[state[t]]]
wantsMap  == [t \in Tasks |-> kind[t] = "job"]
answerMap == [t \in Tasks |-> TheAnswer(t)]

\* A step that changes no task's state, parks or kind is a stutter.
LEMMA Stutter ==
  ASSUME KnownIs, KnownIs', state' = state, parks' = parks, kind' = kind
  PROVE  UNCHANGED Abstract!vars
<1>1. \A t \in Tasks : TheAnswer(t)' = TheAnswer(t)
  BY DEF KnownIs, Known, Due
<1>2. answerMap' = answerMap
  BY <1>1 DEF answerMap
<1>3. lifeMap' = lifeMap /\ wantsMap' = wantsMap
  BY DEF lifeMap, wantsMap
<1> QED BY <1>2, <1>3 DEF Abstract!vars, lifeMap, wantsMap, answerMap

\* A step that takes one task from one state to another, as the code does.
LEMMA OneTaskMoves ==
  ASSUME IInv, KnownIs, KnownIs', NEW t \in Tasks, NEW s \in States,
         state' = [state EXCEPT ![t] = s], parks' = parks, kind' = kind,
         <<state[t], s>> \in {<<"none", "READY">>, <<"READY", "RUNNING">>, <<"RUNNING", "READY">>,
                              <<"RUNNING", "FINISHED">>, <<"BLOCKED", "READY">>}
  PROVE  Abstract!Next
<1>0. state \in [Tasks -> States] /\ kind \in [Tasks -> Kinds]
  BY DEF IInv, Typing, TypeOK
<1>1. lifeMap' = [lifeMap EXCEPT ![t] = LifeName[s]]
  BY <1>0 DEF lifeMap
<1>2. wantsMap' = wantsMap
  BY DEF wantsMap
<1>3. \A u \in Tasks : u # t => TheAnswer(u)' = TheAnswer(u)
  BY <1>0 DEF KnownIs, Known, Due
<1>4. TheAnswer(t)' = IF s = "BLOCKED" THEN 0 ELSE Due(t)
  BY <1>0 DEF KnownIs, Known, Due
<1>5. lifeMap[t] = LifeName[state[t]] /\ wantsMap[t] = (kind[t] = "job")
  BY DEF lifeMap, wantsMap
<1>6. CASE state[t] = "BLOCKED" /\ s = "READY"
  <2>1. answerMap' = [answerMap EXCEPT ![t] = IF wantsMap[t] THEN parks[t] ELSE 0]
    BY <1>3, <1>4, <1>5, <1>6 DEF answerMap, Due
  <2>2. lifeMap[t] = "waiting" /\ LifeName[s] = "runnable"
    BY <1>5, <1>6 DEF LifeName
  <2>3. Abstract!Wake(t)
    BY <1>1, <1>2, <2>1, <2>2 DEF Abstract!Wake, lifeMap, wantsMap, answerMap
  <2> QED BY <2>3 DEF Abstract!Next
<1>7. CASE state[t] # "BLOCKED"
  <2>1. s # "BLOCKED"
    BY <1>7
  <2>2. answerMap' = answerMap
    <3>1. TheAnswer(t) = Due(t)
      BY <1>7 DEF KnownIs, Known
    <3> QED BY <1>3, <1>4, <2>1, <3>1 DEF answerMap
  <2>3. \/ lifeMap[t] = "unborn" /\ LifeName[s] = "runnable"
        \/ lifeMap[t] = "runnable" /\ LifeName[s] = "running"
        \/ lifeMap[t] = "running" /\ LifeName[s] = "runnable"
        \/ lifeMap[t] = "running" /\ LifeName[s] = "done"
    BY <1>5, <1>7 DEF LifeName
  <2>4. Abstract!Spawn(t) \/ Abstract!Run(t) \/ Abstract!Yield(t) \/ Abstract!Finish(t)
    BY <1>1, <1>2, <2>2, <2>3
       DEF Abstract!Spawn, Abstract!Run, Abstract!Yield, Abstract!Finish, lifeMap, wantsMap, answerMap
  <2> QED BY <2>4 DEF Abstract!Next
<1> QED BY <1>6, <1>7

\* Every park is an abstract one.
LEMMA ParkRefines ==
  ASSUME IInv, KnownIs, KnownIs', NEW w \in Workers, NEW k \in Kinds, Park(w, k)
  PROVE  Abstract!Next
<1>0. /\ state \in [Tasks -> States] /\ kind \in [Tasks -> Kinds] /\ parks \in [Tasks -> Parks]
      /\ cur[w] \in Tasks /\ wpc[w] = "slice"
  BY DEF IInv, Typing, TypeOK, RefsOK, Park
<1>1. PICK t \in Tasks : t = cur[w]
  BY <1>0
<1>2. state[t] = "RUNNING"
  BY <1>0, <1>1 DEF IInv, OneOwner, Owns
<1>3. /\ state' = [state EXCEPT ![t] = "BLOCKED"] /\ kind' = [kind EXCEPT ![t] = k]
      /\ parks' = [parks EXCEPT ![t] = @ + 1] /\ parks[t] < MaxParks
  BY <1>1 DEF Park
<1>4. lifeMap' = [lifeMap EXCEPT ![t] = "waiting"] /\ lifeMap[t] = "running"
  <2>1. LifeName["BLOCKED"] = "waiting" /\ LifeName["RUNNING"] = "running"
    BY DEF LifeName
  <2>2. \A u \in Tasks : state'[u] = IF u = t THEN "BLOCKED" ELSE state[u]
    BY <1>0, <1>3
  <2> QED BY <1>2, <2>1, <2>2 DEF lifeMap
<1>5. wantsMap' = [wantsMap EXCEPT ![t] = (k = "job")] /\ (k = "job") \in BOOLEAN
  BY <1>0, <1>3 DEF wantsMap
<1>6. \A u \in Tasks : TheAnswer(u)' = IF u = t THEN 0 ELSE TheAnswer(u)
  BY <1>0, <1>3 DEF KnownIs, Known, Due
<1>7. answerMap' = [answerMap EXCEPT ![t] = 0]
  BY <1>6 DEF answerMap
<1>8. Abstract!Park(t)
  BY <1>3, <1>4, <1>5, <1>7 DEF Abstract!Park, lifeMap, wantsMap, answerMap
<1> QED BY <1>8 DEF Abstract!Next

\* Every step is a step of one abstract task or a stutter.
LEMMA StepRefines ==
  IInv /\ KnownIs /\ KnownIs' /\ [Next]_vars => [Abstract!Next]_(Abstract!vars)
<1> SUFFICES ASSUME IInv, KnownIs, KnownIs', [Next]_vars
             PROVE  Abstract!Next \/ UNCHANGED Abstract!vars
  OBVIOUS
<1>t. /\ state \in [Tasks -> States] /\ kind \in [Tasks -> Kinds]
      /\ timers \in Seq(Tasks) /\ due \in 0 .. Len(timers)
      /\ \A w \in Workers : wpc[w] \notin {"fetch", "wait"} => cur[w] \in Tasks
      /\ \A a \in Actors : wk[a].pc \notin {"idle", "notify"} => wk[a].task \in Tasks
  BY DEF IInv, Typing, TypeOK, RefsOK
<1> DEFINE Still == state' = state /\ parks' = parks /\ kind' = kind
           Moves(t, s) == /\ state' = [state EXCEPT ![t] = s] /\ parks' = parks /\ kind' = kind
                          /\ <<state[t], s>> \in {<<"none", "READY">>, <<"READY", "RUNNING">>,
                                                  <<"RUNNING", "READY">>, <<"RUNNING", "FINISHED">>,
                                                  <<"BLOCKED", "READY">>}
<1>1. Still => UNCHANGED Abstract!vars
  BY Stutter
<1>2. ASSUME NEW t \in Tasks, NEW s \in States, Moves(t, s) PROVE Abstract!Next
  BY <1>2, OneTaskMoves
<1>3. "READY" \in States /\ "RUNNING" \in States /\ "FINISHED" \in States
  BY DEF States
<1>4. ASSUME NEW a \in Actors, Carry(a) \/ Act(a) PROVE Abstract!Next \/ UNCHANGED Abstract!vars
  <2>1. CASE StartWake(a) \/ WakeWrite(a) \/ Push(a) \/ Notify(a)
    <3>1. Still
      BY <2>1 DEF StartWake, WakeWrite, Push, Notify, taskVars
    <3> QED BY <1>1, <3>1
  <2>2. CASE WakeCas(a)
    <3>1. wk[a].task \in Tasks /\ state[wk[a].task] = "BLOCKED"
      BY <1>t, <2>2 DEF WakeCas, IInv, OneWaker, WakingOK, Waking
    <3>2. Moves(wk[a].task, "READY")
      BY <2>2, <3>1 DEF WakeCas
    <3> QED BY <1>2, <1>3, <3>1, <3>2
  <2>3. CASE Spawn(a)
    <3> PICK t \in Tasks : state[t] = "none" /\ state' = [state EXCEPT ![t] = "READY"]
      BY <2>3 DEF Spawn
    <3>1. Moves(t, "READY")
      BY <2>3 DEF Spawn
    <3> QED BY <1>2, <1>3, <3>1
  <2> QED BY <1>4, <2>1, <2>2, <2>3 DEF Carry, Act
<1>5. ASSUME NEW w \in Workers, WorkerStep(w) PROVE Abstract!Next \/ UNCHANGED Abstract!vars
  <2>1. CASE Timeout(w) \/ Pop(w) \/ Wait(w) \/ Take(w) \/ Apply(w) \/ Enter(w) \/ Register(w)
             \/ RegisterTimer(w) \/ EndParked(w) \/ \E o \in Outcomes : Leave(w, o)
    <3>1. Still
      BY <2>1 DEF Timeout, Pop, Wait, Take, Apply, Enter, Register, Enlist, RegisterTimer,
                  EndParked, Leave, taskVars
    <3> QED BY <1>1, <3>1
  <2>2. CASE FireTimer(w)
    <3>1. PICK t \in Tasks : t = Head(timers) /\ state[t] = "BLOCKED"
      <4>1. timers # <<>>
        BY <1>t, <2>2 DEF FireTimer
      <4> QED BY <1>t, <4>1, TailElements DEF IInv, OneWaker, TimersOK
    <3>2. Moves(t, "READY")
      BY <2>2, <3>1 DEF FireTimer
    <3> QED BY <1>2, <1>3, <3>2
  <2>3. CASE Checkout(w)
    <3>1. cur[w] \in Tasks
      BY <1>t, <2>3 DEF Checkout
    <3>2. CASE state[cur[w]] = "READY"
      <4>1. Moves(cur[w], "RUNNING")
        BY <2>3, <3>2 DEF Checkout, MayCheckout
      <4> QED BY <1>2, <1>3, <3>1, <4>1
    <3>3. CASE state[cur[w]] # "READY"
      <4>1. Still
        BY <2>3, <3>3 DEF Checkout, MayCheckout
      <4> QED BY <1>1, <4>1
    <3> QED BY <3>2, <3>3
  <2>4. CASE \E k \in Kinds : Park(w, k)
    BY <2>4, ParkRefines
  <2>5. CASE EndFinished(w) \/ EndYielded(w)
    <3>1. cur[w] \in Tasks /\ state[cur[w]] = "RUNNING"
      BY <1>t, <2>5 DEF EndFinished, EndYielded, IInv, OneOwner, Owns
    <3>2. Moves(cur[w], "FINISHED") \/ Moves(cur[w], "READY")
      BY <2>5, <3>1 DEF EndFinished, EndYielded
    <3> QED BY <1>2, <1>3, <3>1, <3>2
  <2> QED BY <1>5, <2>1, <2>2, <2>3, <2>4, <2>5 DEF WorkerStep
<1>6. CASE Tick \/ UNCHANGED vars
  <2>1. Still
    BY <1>6 DEF Tick, vars, taskVars
  <2> QED BY <1>1, <2>1
<1> QED BY <1>4, <1>5, <1>6 DEF Next

\* The scheduler implements the abstract tasks of TaskLifecycle: what a task sees
\* of queues, workers, slots and timers is that it is woken once, with its answer.
THEOREM Refinement == Spec => ImplementsLifecycle
<1>1. IInv => KnownIs
  BY AnswerIsDue DEF KnownIs, Known
<1>2. Init => Abstract!Init
  <2> SUFFICES ASSUME Init PROVE Abstract!Init
    OBVIOUS
  <2>1. IInv
    BY InitTyping, InitOwner, InitWaker, InitReach, InitAnswers DEF IInv
  <2>2. \A t \in Tasks : TheAnswer(t) = 0
    BY <1>1, <2>1 DEF Init, KnownIs, Known, Due
  <2> QED BY <2>2 DEF Init, Abstract!Init, LifeName
<1> QED BY <1>1, <1>2, Invariance, StepRefines, PTL DEF Spec, ImplementsLifecycle, Abstract!Spec
=============================================================================
