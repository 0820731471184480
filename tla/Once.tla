-------------------------------- MODULE Once --------------------------------
(***************************************************************************)
(* OnceT of sflang/src/concurrency.rs: onceDo called by tasks and threads  *)
(* at once, with a callback that may return, throw, call onceDo on the     *)
(* same object, or panic (OncePanicGuard).                                 *)
(*                                                                         *)
(* Each critical section of `state` and of `waiters`, each wake-up and the *)
(* notify_all are actions of their own.  A woken task calls onceDo again   *)
(* (retry type), a notified thread looks at the phase again.               *)
(*                                                                         *)
(* A caller whose callback panics is gone: the panic ends its task or      *)
(* thread.  That also bounds the number of panics.                         *)
(*                                                                         *)
(* Operators named Bug... are plausible mistakes that the runs are tried   *)
(* against; no specification uses them.                                    *)
(***************************************************************************)
EXTENDS Callers, Naturals, Sequences, FiniteSets, SequencesExt

VARIABLES
  phase, executor, result,  \* OnceState
  waiters,   \* OnceT.waiters
  pc,        \* where each caller is
  waking,    \* tasks a caller has taken off `waiters` and not woken yet
  value,     \* what the caller's last call returned
  completed  \* how many callbacks have returned or thrown

vars == <<phase, executor, result, waiters, pc, waking, value, completed>>
Results == {"ok", "err"}
Callback == {"callback", "refused"}  \* running; running after a recursive call

Init ==
  /\ phase = 0 /\ executor = None /\ result = None
  /\ waiters = <<>>
  /\ pc = [p \in Procs |-> "idle"]
  /\ waking = [p \in Procs |-> <<>>]
  /\ value = [p \in Procs |-> None]
  /\ completed = 0

Calling(p) == pc[p] \in {"idle", "woken", "notified"}

-----------------------------------------------------------------------------
\* onceDo() in phase 0 claims the execution.
Claim(p)    == executor' = p /\ phase' = 1

Start(p) ==
  /\ Calling(p) /\ phase = 0
  /\ Claim(p)
  /\ pc' = [pc EXCEPT ![p] = "callback"]
  /\ UNCHANGED <<result, waiters, waking, value, completed>>

\* onceDo() in phase 1 waits for the executor.
ParkTask(p) ==
  /\ p \in Tasks /\ Calling(p) /\ phase = 1
  /\ waiters' = Append(waiters, p)
  /\ pc' = [pc EXCEPT ![p] = "parked"]
  /\ UNCHANGED <<phase, executor, result, waking, value, completed>>

WaitThread(p) ==
  /\ p \in Threads /\ Calling(p) /\ phase = 1
  /\ pc' = [pc EXCEPT ![p] = "cv"]
  /\ UNCHANGED <<phase, executor, result, waiters, waking, value, completed>>

\* The callback calls onceDo on the same object: refused, not waited for.
BugRecurse(p) ==
  /\ pc[p] = "callback" /\ phase = 1
  /\ pc' = [pc EXCEPT ![p] = IF p \in Threads THEN "cv" ELSE "refused"]
  /\ UNCHANGED <<phase, executor, result, waiters, waking, value, completed>>

Recurse(p) ==
  /\ pc[p] = "callback" /\ phase = 1 /\ executor = p
  /\ pc' = [pc EXCEPT ![p] = "refused"]
  /\ UNCHANGED <<phase, executor, result, waiters, waking, value, completed>>

\* finish_once, first part: the result is recorded.
Finish(p, res) ==
  /\ pc[p] \in Callback
  /\ phase' = 2 /\ executor' = None /\ result' = res
  /\ value' = [value EXCEPT ![p] = res]
  /\ completed' = completed + 1
  /\ pc' = [pc EXCEPT ![p] = "finished"]
  /\ UNCHANGED <<waiters, waking>>

\* The callback panics: the guard makes the object fresh again.
Panic(p) ==
  /\ pc[p] \in Callback
  /\ phase' = 0 /\ executor' = None
  /\ pc' = [pc EXCEPT ![p] = "panicking"]
  /\ UNCHANGED <<result, waiters, waking, value, completed>>

\* Both then take the waiting tasks, wake them one by one and notify the threads.
After == [finished |-> "waking f", panicking |-> "waking p"]

TakeWaiters(p) ==
  /\ pc[p] \in DOMAIN After
  /\ waking' = [waking EXCEPT ![p] = waiters]
  /\ waiters' = <<>>
  /\ pc' = [pc EXCEPT ![p] = After[pc[p]]]
  /\ UNCHANGED <<phase, executor, result, value, completed>>

WakeNext(p) ==
  /\ pc[p] \in {"waking f", "waking p"} /\ waking[p] # <<>>
  /\ waking' = [waking EXCEPT ![p] = Tail(waking[p])]
  /\ pc' = [pc EXCEPT ![Head(waking[p])] = "woken"]
  /\ UNCHANGED <<phase, executor, result, waiters, value, completed>>

Notified(q)    == IF pc[q] = "cv" THEN "notified" ELSE pc[q]

NotifyAll(p) ==
  /\ pc[p] \in {"waking f", "waking p"} /\ waking[p] = <<>>
  /\ pc' = [q \in Procs |->
              IF q # p THEN Notified(q)
              ELSE IF pc[p] = "waking f" THEN "returned" ELSE "gone"]
  /\ UNCHANGED <<phase, executor, result, waiters, waking, value, completed>>

\* onceDo() in phase 2 returns the first result.
BugFirstResult(p) == IF pc[p] = "woken" THEN None ELSE result
FirstResult(p)    == result

ReturnFirst(p) ==
  /\ Calling(p) /\ phase = 2
  /\ value' = [value EXCEPT ![p] = FirstResult(p)]
  /\ pc' = [pc EXCEPT ![p] = "returned"]
  /\ UNCHANGED <<phase, executor, result, waiters, waking, completed>>

\* The caller goes on and may call onceDo again.
CallAgain(p) ==
  /\ pc[p] = "returned"
  /\ pc' = [pc EXCEPT ![p] = "idle"]
  /\ UNCHANGED <<phase, executor, result, waiters, waking, value, completed>>

Step(p) ==
  \/ Start(p) \/ ParkTask(p) \/ WaitThread(p) \/ Recurse(p)
  \/ \E res \in Results : Finish(p, res)
  \/ Panic(p) \/ TakeWaiters(p) \/ WakeNext(p) \/ NotifyAll(p) \/ ReturnFirst(p)

Next == \E p \in Procs : Step(p) \/ CallAgain(p)

Spec == Init /\ [][Next]_vars

\* Callbacks end, and callers that can go on do.
Progress(p) == pc[p] # "idle" /\ Step(p)
FairSpec == Spec /\ \A p \in Procs : WF_vars(Progress(p))

-----------------------------------------------------------------------------
Pcs == {"idle", "parked", "cv", "woken", "notified", "finished", "panicking",
        "waking f", "waking p", "returned", "gone"} \cup Callback

\* Every variable keeps to its type; a completed object has a result.
TypeOK ==
  /\ phase \in 0 .. 2
  /\ executor \in Procs \cup {None}
  /\ result \in Results \cup {None}
  /\ phase = 2 => result \in Results
  /\ waiters \in Seq(Tasks)
  /\ pc \in [Procs -> Pcs]
  /\ waking \in [Procs -> Seq(Tasks)]
  /\ value \in [Procs -> Results \cup {None}]
  /\ completed \in Nat

\* The callback is never run by two callers at once, and it completes once at
\* most, however many panics came before.
AtMostOnce ==
  /\ {p \in Procs : pc[p] \in Callback} = (IF phase = 1 THEN {executor} ELSE {})
  /\ completed = (IF phase = 2 THEN 1 ELSE 0)

\* Whoever has come back from onceDo, the executor or one that waited, has the
\* result of the one callback that completed.
SameResult == \A p \in Procs : pc[p] = "returned" => value[p] = result /\ result # None

\* A caller waits only for a callback that is running, or for a wake-up that is on
\* its way (a panic resets the phase before it takes the queue).
NobodyIsStranded ==
  /\ \A t \in Tasks : pc[t] = "parked" =>
       \/ /\ t \in Range(waiters)
          /\ phase = 1 \/ \E p \in Procs : pc[p] \in DOMAIN After
       \/ \E p \in Procs : t \in Range(waking[p])
  /\ (\E p \in Threads : pc[p] = "cv") =>
       phase = 1 \/ \E p \in Procs : pc[p] \in DOMAIN After \cup {"waking f", "waking p"}

\* Every caller comes back, unless its own callback panics.
CallersReturn ==
  \A p \in Procs : pc[p] \notin {"idle", "gone"} ~> pc[p] \in {"returned", "gone"}
=============================================================================
