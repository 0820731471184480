------------------------------- MODULE Process -------------------------------
(***************************************************************************)
(* A child process of sflang/src/builtins_proc.rs: procWait, procKill,     *)
(* procIsRunning and procExitCode on one handle, called by several threads.*)
(*                                                                         *)
(* Each call looks at running, and if it is set works on the child under   *)
(* child's mutex; it then stores running and exit_code one after the other *)
(* and releases the mutex.  procWait blocks in wait with the mutex held.   *)
(* The child itself is external: it may exit at any moment, or never.      *)
(***************************************************************************)
EXTENDS Integers

CONSTANTS
  Users,     \* the threads that share the handle
  MaxCalls,  \* bound on the calls
  None

Codes == {0, -1}  \* of a child: its own, and that of one ended by a signal

VARIABLES
  child,     \* None while it runs, then the code it ended with
  running, exit_code, lock,
  pc,        \* of each user: "idle", "asked", "locked", "killing", "killed", "reaped",
             \* "stored", "code"
  op,        \* the call it is in
  seen,      \* the code it has from the child
  answer,    \* what its last call returned: None for undefined or nothing
  early,     \* history: users that found running cleared and exit_code not yet there
  overtaken, \* history: the child ended by itself between a procKill's look at it and
             \* its kill
  calls

vars == <<child, running, exit_code, lock, pc, op, seen, answer, early, overtaken, calls>>

Ops == {"procWait", "procKill", "procIsRunning", "procExitCode"}

Init ==
  /\ child = None
  /\ running = TRUE
  /\ exit_code = None
  /\ lock = None
  /\ pc = [u \in Users |-> "idle"]
  /\ op = [u \in Users |-> "procWait"]
  /\ seen = [u \in Users |-> None]
  /\ answer = [u \in Users |-> None]
  /\ early = {}
  /\ overtaken = FALSE
  /\ calls = 0

\* The child ends by itself.
Exit ==
  /\ child = None
  /\ \E c \in Codes : child' = c
  /\ UNCHANGED <<running, exit_code, lock, pc, op, seen, answer, early, overtaken, calls>>

Goes(u, to) == pc' = [pc EXCEPT ![u] = to]

\* A call reads running: while it is set the child must be asked, else only procWait and
\* procExitCode have something left to read.
Call(u, o) ==
  /\ pc[u] = "idle" /\ calls < MaxCalls
  /\ calls' = calls + 1
  /\ op' = [op EXCEPT ![u] = o]
  /\ Goes(u, IF running THEN "asked"
             ELSE IF o \in {"procWait", "procExitCode"} THEN "code" ELSE "idle")
  /\ answer' = [answer EXCEPT ![u] = None]
  /\ early' = early \ {u}
  /\ UNCHANGED <<child, running, exit_code, lock, seen, overtaken>>

Lock(u) ==
  /\ pc[u] = "asked" /\ lock = None
  /\ lock' = u
  /\ Goes(u, "locked")
  /\ UNCHANGED <<child, running, exit_code, op, seen, answer, early, overtaken, calls>>

\* wait and try_wait give the status of a child that has ended, and give it again.
Reap(u) ==
  /\ pc[u] = "locked" /\ child # None
  /\ seen' = [seen EXCEPT ![u] = child]
  /\ Goes(u, "reaped")
  /\ UNCHANGED <<child, running, exit_code, lock, op, answer, early, overtaken, calls>>

\* try_wait finds the child running: the mutex is given back; procExitCode reads what
\* there is, procIsRunning answers true.
StillRuns(u) ==
  /\ pc[u] = "locked" /\ child = None
  /\ op[u] \in {"procIsRunning", "procExitCode"}
  /\ lock' = None
  /\ Goes(u, IF op[u] = "procExitCode" THEN "code" ELSE "idle")
  /\ UNCHANGED <<child, running, exit_code, op, seen, answer, early, overtaken, calls>>

\* procKill finds the child running and keeps the mutex.
FoundRunning(u) ==
  /\ pc[u] = "locked" /\ child = None /\ op[u] = "procKill"
  /\ Goes(u, "killing")
  /\ UNCHANGED <<child, running, exit_code, lock, op, seen, answer, early, overtaken, calls>>

\* kill ends the child by a signal, unless it has ended by itself since.
Kill(u) ==
  /\ pc[u] = "killing"
  /\ child' = IF child = None THEN -1 ELSE child
  /\ overtaken' = (overtaken \/ child # None)
  /\ Goes(u, "killed")
  /\ UNCHANGED <<running, exit_code, lock, op, seen, answer, early, calls>>

\* wait after the kill: its status is not looked at, the code to keep is -1.
WaitKilled(u) ==
  /\ pc[u] = "killed" /\ child # None
  /\ seen' = [seen EXCEPT ![u] = -1]
  /\ Goes(u, "reaped")
  /\ UNCHANGED <<child, running, exit_code, lock, op, answer, early, overtaken, calls>>

\* running.store(false)
StoreRunning(u) ==
  /\ pc[u] = "reaped"
  /\ running' = FALSE
  /\ Goes(u, "stored")
  /\ UNCHANGED <<child, exit_code, lock, op, seen, answer, early, overtaken, calls>>

\* A bug for the checks: a status that was seen before is a new -1.
BugKept(u) == IF exit_code = None THEN seen[u] ELSE -1

\* exit_code keeps what the user got from the child, whoever stored it before.
Kept(u) == seen[u]

\* exit_code, and the end of the block that holds the mutex.
StoreCode(u) ==
  /\ pc[u] = "stored"
  /\ exit_code' = Kept(u)
  /\ seen' = [seen EXCEPT ![u] = None]
  /\ lock' = None
  /\ Goes(u, IF op[u] \in {"procWait", "procExitCode"} THEN "code" ELSE "idle")
  /\ UNCHANGED <<child, running, op, answer, early, overtaken, calls>>

\* The end of procWait and procExitCode: without a code, -1 and undefined.
ReadCode(u) ==
  /\ pc[u] = "code"
  /\ answer' = [answer EXCEPT ![u] =
       IF exit_code # None THEN exit_code ELSE IF op[u] = "procWait" THEN -1 ELSE None]
  /\ early' = IF exit_code = None /\ ~running THEN early \cup {u} ELSE early
  /\ Goes(u, "idle")
  /\ UNCHANGED <<child, running, exit_code, lock, op, seen, overtaken, calls>>

Step(u) == Lock(u) \/ Reap(u) \/ StillRuns(u) \/ FoundRunning(u) \/ Kill(u)
           \/ WaitKilled(u) \/ StoreRunning(u) \/ StoreCode(u) \/ ReadCode(u)

Next ==
  \/ Exit
  \/ \E u \in Users : Step(u) \/ \E o \in Ops : Call(u, o)

Spec == Init /\ [][Next]_vars

\* Threads inside a call go on; the mutex is passed to everybody who waits for it.
\* Nobody has to call, and the child need not end.
Fairness == \A u \in Users : SF_vars(Step(u))

-----------------------------------------------------------------------------
TypeOK ==
  /\ child \in Codes \cup {None}
  /\ running \in BOOLEAN
  /\ exit_code \in Codes \cup {None}
  /\ lock \in Users \cup {None}
  /\ pc \in [Users -> {"idle", "asked", "locked", "killing", "killed", "reaped",
                     "stored", "code"}]
  /\ op \in [Users -> Ops]
  /\ seen \in [Users -> Codes \cup {None}]
  /\ answer \in [Users -> Codes \cup {None}]
  /\ early \subseteq Users
  /\ overtaken \in BOOLEAN
  /\ calls \in 0..MaxCalls

\* The code the child ended with, or the -1 procKill keeps although the child had ended by
\* itself before the kill came.
IsExitCode(code) == code = child \/ (overtaken /\ code = -1)

\* A process has one exit code: what is stored and what procWait and procExitCode answer
\* is the code the child ended with, also when several of them saw it end; only a child
\* that overtook a kill may have -1 instead, stored before or after its own code.  The
\* answer of a call that came between the two stores of another is the other exception.
OneExitCode ==
  /\ exit_code # None => IsExitCode(exit_code)
  /\ ~running => child # None
  /\ \A u \in Users :
       pc[u] = "idle" /\ answer[u] # None /\ u \notin early => IsExitCode(answer[u])

\* Every call on a child that has ended returns.
CallsReturn == \A u \in Users : []<>(child # None => pc[u] = "idle")
=============================================================================
