---------------------------- MODULE TaskLifecycle ----------------------------
(***************************************************************************)
(* What sflang/src/scheduler.rs promises to the programs and to the        *)
(* primitives built on it (its module comment and the comments of          *)
(* task_state, wake_task_with and both park functions): a task is one      *)
(* sequential process; when it has parked, nothing but its waker makes it  *)
(* runnable, once, and it goes on with exactly the answer it was given.    *)
(*                                                                         *)
(* No queue, worker, lock or timer appears here; Scheduler implements it.  *)
(***************************************************************************)
EXTENDS Naturals

CONSTANTS Tasks, MaxParks

VARIABLES
  life,    \* the task's state as its program sees it
  parks,   \* number of parks the task has made
  wants,   \* does the latest park want a result (or only to be woken)?
  answer   \* the park whose result the task has or will get, 0 for none

vars == <<life, parks, wants, answer>>

Init ==
  /\ life = [t \in Tasks |-> "unborn"]
  /\ parks = [t \in Tasks |-> 0]
  /\ wants = [t \in Tasks |-> FALSE]
  /\ answer = [t \in Tasks |-> 0]

Spawn(t) ==
  /\ life[t] = "unborn"
  /\ life' = [life EXCEPT ![t] = "runnable"]
  /\ UNCHANGED <<parks, wants, answer>>

Run(t) ==
  /\ life[t] = "runnable"
  /\ life' = [life EXCEPT ![t] = "running"]
  /\ UNCHANGED <<parks, wants, answer>>

Yield(t) ==
  /\ life[t] = "running"
  /\ life' = [life EXCEPT ![t] = "runnable"]
  /\ UNCHANGED <<parks, wants, answer>>

Park(t) ==
  /\ life[t] = "running" /\ parks[t] < MaxParks
  /\ life' = [life EXCEPT ![t] = "waiting"]
  /\ parks' = [parks EXCEPT ![t] = @ + 1]
  /\ \E b \in BOOLEAN : wants' = [wants EXCEPT ![t] = b]
  /\ answer' = [answer EXCEPT ![t] = 0]

\* The waker answers the open park.
Wake(t) ==
  /\ life[t] = "waiting"
  /\ life' = [life EXCEPT ![t] = "runnable"]
  /\ answer' = [answer EXCEPT ![t] = IF wants[t] THEN parks[t] ELSE 0]
  /\ UNCHANGED <<parks, wants>>

Finish(t) ==
  /\ life[t] = "running"
  /\ life' = [life EXCEPT ![t] = "done"]
  /\ UNCHANGED <<parks, wants, answer>>

\* Several timers may expire at once, so a step may wake several tasks.
WakeSleepers(S) ==
  /\ \A t \in S : life[t] = "waiting" /\ ~wants[t]
  /\ life' = [t \in Tasks |-> IF t \in S THEN "runnable" ELSE life[t]]
  /\ UNCHANGED <<parks, wants, answer>>

Next ==
  \/ \E t \in Tasks : Spawn(t) \/ Run(t) \/ Yield(t) \/ Park(t) \/ Wake(t) \/ Finish(t)
  \/ \E S \in SUBSET Tasks : WakeSleepers(S)

Spec == Init /\ [][Next]_vars
=============================================================================
