------------------------------ MODULE TcpConn ------------------------------
(***************************************************************************)
(* One connection of sflang/src/builtins_tcp.rs used by several threads.   *)
(*                                                                         *)
(* tcpRead, tcpWrite, tcpClose and tcpSetTimeout of a plain connection     *)
(* lock its stream, and a read keeps the lock while it waits for data.     *)
(* An encrypted one (xxciWrapConn) reads and writes under locks of their   *)
(* own; its timeouts and tcpClose still lock the stream.  The peer answers *)
(* each write with one piece of data, says nothing by itself, and may      *)
(* close.  The socket takes every write at once.                           *)
(***************************************************************************)
EXTENDS Naturals

CONSTANTS
  Users,     \* threads that use the connection
  MaxWrites, \* bound: writes
  None

VARIABLES
  kind,      \* "plain" or "encrypted"
  lock,      \* lock -> who holds it
  op,        \* thread -> the call it is in, a write's "flush", or "none"
  inside,    \* the threads that have the lock their call takes
  timed,     \* a read timeout is set
  limited,   \* the threads whose read began with one
  inbox,     \* data that can be read
  asked,     \* writes the peer has not answered
  writes,    \* writes so far
  closed     \* shut down by this side or closed by the peer

vars == <<kind, lock, op, inside, timed, limited, inbox, asked, writes, closed>>

Locks == {"stream", "reader", "writer"}
Calls == {"read", "write", "close", "timeout"}

\* (As if the encryption layer had one lock.)
BugLockOf(call) == IF kind = "encrypted" /\ call \in {"read", "write", "flush"} THEN "reader" ELSE "stream"
LockOf(call) ==
  IF kind = "encrypted" /\ call = "read" THEN "reader"
  ELSE IF kind = "encrypted" /\ call \in {"write", "flush"} THEN "writer" ELSE "stream"

Init ==
  /\ kind \in {"plain", "encrypted"}
  /\ lock = [l \in Locks |-> None]
  /\ op = [u \in Users |-> "none"]
  /\ inside = {}
  /\ timed = FALSE
  /\ limited = {}
  /\ inbox = 0 /\ asked = 0 /\ writes = 0
  /\ closed = FALSE

Start(u, call) ==
  /\ op[u] = "none"
  /\ call = "write" => writes < MaxWrites
  /\ op' = [op EXCEPT ![u] = call]
  /\ writes' = IF call = "write" THEN writes + 1 ELSE writes
  /\ UNCHANGED <<kind, lock, inside, timed, limited, inbox, asked, closed>>

Enter(u) ==
  /\ op[u] # "none" /\ u \notin inside
  /\ lock[LockOf(op[u])] = None
  /\ lock' = [lock EXCEPT ![LockOf(op[u])] = u]
  /\ inside' = inside \cup {u}
  /\ limited' = IF timed THEN limited \cup {u} ELSE limited \ {u}
  /\ UNCHANGED <<kind, op, timed, inbox, asked, writes, closed>>

\* The lock is given back and the thread goes on to what comes next, "none" being the
\* end of its call.
GoOn(u, next) ==
  /\ lock' = [lock EXCEPT ![LockOf(op[u])] = None]
  /\ inside' = inside \ {u}
  /\ op' = [op EXCEPT ![u] = next]
  /\ UNCHANGED <<kind, writes>>

Leave(u) == GoOn(u, "none")

\* Data, the end of the stream, or a timeout.
Read(u) ==
  /\ u \in inside /\ op[u] = "read"
  /\ inbox > 0 \/ closed \/ u \in limited
  /\ inbox' = IF inbox > 0 THEN inbox - 1 ELSE inbox
  /\ Leave(u)
  /\ UNCHANGED <<timed, limited, asked, closed>>

\* What was written is flushed, with the lock taken again; a write that fails is not.
Write(u) ==
  /\ u \in inside /\ op[u] = "write"
  /\ asked' = IF closed THEN asked ELSE asked + 1
  /\ GoOn(u, "flush") \/ (closed /\ Leave(u))
  /\ UNCHANGED <<timed, limited, inbox, closed>>

Flush(u) ==
  /\ u \in inside /\ op[u] = "flush"
  /\ Leave(u)
  /\ UNCHANGED <<timed, limited, inbox, asked, closed>>

Close(u) ==
  /\ u \in inside /\ op[u] = "close"
  /\ closed' = TRUE
  /\ Leave(u)
  /\ UNCHANGED <<timed, limited, inbox, asked>>

\* A timeout is set or, with 0, taken back.  A read keeps the one it began with.
SetTimeout(u) ==
  /\ u \in inside /\ op[u] = "timeout"
  /\ timed' \in BOOLEAN
  /\ Leave(u)
  /\ UNCHANGED <<limited, inbox, asked, closed>>

Answer ==
  /\ asked > 0 /\ ~closed
  /\ asked' = asked - 1
  /\ inbox' = inbox + 1
  /\ UNCHANGED <<kind, lock, op, inside, timed, limited, writes, closed>>

PeerCloses ==
  /\ ~closed
  /\ closed' = TRUE
  /\ UNCHANGED <<kind, lock, op, inside, timed, limited, inbox, asked, writes>>

Go(u) == Enter(u) \/ Read(u) \/ Write(u) \/ Flush(u) \/ Close(u) \/ SetTimeout(u)

Next ==
  \/ \E u \in Users : Go(u) \/ \E call \in Calls : Start(u, call)
  \/ Answer \/ PeerCloses

Spec == Init /\ [][Next]_vars

\* Calls go on, no lock passes a thread over for ever, the peer answers.
Fairness ==
  /\ \A u \in Users :
       WF_vars(Read(u) \/ Write(u) \/ Flush(u) \/ Close(u) \/ SetTimeout(u)) /\ SF_vars(Enter(u))
  /\ WF_vars(Answer)

-----------------------------------------------------------------------------
\* Every variable keeps to its type.
TypeOK ==
  /\ kind \in {"plain", "encrypted"}
  /\ lock \in [Locks -> Users \cup {None}]
  /\ op \in [Users -> Calls \cup {"flush", "none"}]
  /\ inside \subseteq Users /\ limited \subseteq Users
  /\ timed \in BOOLEAN /\ closed \in BOOLEAN
  /\ writes \in 0 .. MaxWrites
  /\ asked \in 0 .. writes /\ inbox \in 0 .. writes

\* A read that waits with the stream locked: on a plain connection only.
HoldsStream(u) == lock["stream"] = u /\ op[u] = "read"

\* Every call but a read returns, however long the reads of others wait, unless a
\* read waits for ever with the stream locked: then nobody else can write what the
\* peer would answer, close the connection or set a timeout.
CallsReturn ==
  \A u \in Users :
    \/ []<>(op[u] \in {"none", "read"})
    \/ <>[](kind = "plain" /\ \E r \in Users \ {u} : HoldsStream(r))
=============================================================================
