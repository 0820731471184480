----------------------------- MODULE HttpServer -----------------------------
(***************************************************************************)
(* The HTTP server of sflang/src/builtins_http.rs: serverStart and         *)
(* serverStop, the accept loops, a thread per connection that serves its   *)
(* requests one after the other, and the call of the script's handler.     *)
(*                                                                         *)
(* A handler runs in a virtual machine of its own but on the globals of    *)
(* the script: requestG, inputG and their like are one set of variables    *)
(* for all requests.  Each of the critical sections (insert all of them,   *)
(* remove all but paraMapG and webRootG, the registry's insert and remove) *)
(* is one step.  A request is the pair of its connection and its number.   *)
(***************************************************************************)
EXTENDS Naturals, FiniteSets

CONSTANTS
  Conns,        \* connections
  MaxRequests,  \* requests a connection is kept alive for: 100 in the code
  MaxStarts,    \* bound: calls of serverStart
  None

Loops == 1 .. MaxStarts
Requests == Conns \X (1 .. MaxRequests)
Handling == {"injected", "registered", "unregistered"}

VARIABLES
  running, stop,  \* the flags of the SfHttpServer
  starts,         \* number of serverStart calls so far
  loop,           \* call -> "none", "checked", "binding", "accepting" or "ended"
  pc,             \* connection -> where its thread is
  left,           \* connection -> requests_left
  context,        \* requestG, responseG, reqUriG, inputG, ...: whose they are
  paraMap,        \* paraMapG and webRootG: whose they are
  active,         \* ACTIVE_VMS: the requests in the registry
  killed,         \* the requests that /admin/kill took out of it
  misled,         \* the connections whose handler found another's context
  alone           \* those whose handler had the server to itself so far

server == <<running, stop, starts, loop>>
vars == <<server, pc, left, context, paraMap, active, killed, misled, alone>>

\* The request connection c is at.
Current(c) == <<c, MaxRequests - left[c]>>
Busy == {c \in Conns : pc[c] \in Handling}

Init ==
  /\ running = FALSE /\ stop = FALSE
  /\ starts = 0
  /\ loop = [l \in Loops |-> "none"]
  /\ pc = [c \in Conns |-> "none"]
  /\ left = [c \in Conns |-> MaxRequests]
  /\ context = None /\ paraMap = None
  /\ active = {} /\ killed = {}
  /\ misled = {} /\ alone = {}

-----------------------------------------------------------------------------
(* serverStart, serverStop and the accept loop. *)

\* The flag is tested first and set later; calls of two threads may overlap.
serverStart ==
  /\ starts < MaxStarts /\ ~running
  /\ starts' = starts + 1
  /\ loop' = [loop EXCEPT ![starts + 1] = "checked"]
  /\ UNCHANGED <<running, stop, pc, left, context, paraMap, active, killed, misled, alone>>

\* The flags, then the certificates: without them the call gives up.
BugClear(stopped) == stopped
Clear(stopped)    == FALSE

SetFlags(l) ==
  /\ loop[l] = "checked"
  /\ running' = TRUE
  /\ stop' = Clear(stop)
  /\ loop' = [loop EXCEPT ![l] = "binding"]
  /\ UNCHANGED <<starts, pc, left, context, paraMap, active, killed, misled, alone>>

\* A loop that ends for whatever reason says that the server does not run.
EndLoop(l) ==
  /\ running' = FALSE
  /\ loop' = [loop EXCEPT ![l] = "ended"]
  /\ UNCHANGED <<stop, starts, pc, left, context, paraMap, active, killed, misled, alone>>

NoCertificate(l) == loop[l] = "binding" /\ EndLoop(l)

\* The system gives the address to one listener at a time.
Bind(l) ==
  /\ loop[l] = "binding"
  /\ \A k \in Loops : loop[k] # "accepting"
  /\ loop' = [loop EXCEPT ![l] = "accepting"]
  /\ UNCHANGED <<running, stop, starts, pc, left, context, paraMap, active, killed, misled, alone>>

BindFails(l) == loop[l] = "binding" /\ EndLoop(l)

\* The loop tests stop before each accept; other errors than WouldBlock only delay it.
\* (As if an idle loop waited for a connection without looking at stop.)
BugStops == stop /\ \E c \in Conns : pc[c] = "none"
Stops    == stop

StopLoop(l) == loop[l] = "accepting" /\ Stops /\ EndLoop(l)

Accept(l, c) ==
  /\ loop[l] = "accepting" /\ ~stop
  /\ pc[c] = "none"
  /\ pc' = [pc EXCEPT ![c] = "reading"]
  /\ UNCHANGED <<server, left, context, paraMap, active, killed, misled, alone>>

serverStop ==
  /\ ~stop
  /\ stop' = TRUE
  /\ UNCHANGED <<running, starts, loop, pc, left, context, paraMap, active, killed, misled, alone>>

-----------------------------------------------------------------------------
(* A connection: handle_connection_impl and execute_handler. *)

\* The peer closes, the request cannot be parsed, or the hundredth was served.
Close(c) ==
  /\ pc[c] = "reading"
  /\ pc' = [pc EXCEPT ![c] = "closed"]
  /\ UNCHANGED <<server, left, context, paraMap, active, killed, misled, alone>>

\* A request for a file, an unknown path or the state of the server.
ServeOther(c) ==
  /\ pc[c] = "reading" /\ left[c] > 0
  /\ left' = [left EXCEPT ![c] = @ - 1]
  /\ \E next \in {"reading", "closed"} : pc' = [pc EXCEPT ![c] = next]
  /\ UNCHANGED <<server, context, paraMap, active, killed, misled, alone>>

\* /admin/kill takes a request out of the registry; its handler goes on.
AdminKill(c, r) ==
  /\ pc[c] = "reading" /\ left[c] > 0
  /\ r \in active
  /\ left' = [left EXCEPT ![c] = @ - 1]
  /\ active' = active \ {r}
  /\ killed' = killed \cup {r}
  /\ UNCHANGED <<server, pc, context, paraMap, misled, alone>>

\* (As if the variables of a request were inserted only where there are none.)
BugInserted(old, r) == IF old = None THEN r ELSE old
Inserted(old, r)    == r

Inject(c) ==
  /\ pc[c] = "reading" /\ left[c] > 0
  /\ left' = [left EXCEPT ![c] = @ - 1]
  /\ context' = Inserted(context, Current(c)')
  /\ paraMap' = Inserted(paraMap, Current(c)')
  /\ misled' = misled \ {c}
  /\ alone' = IF Busy = {} THEN {c} ELSE {}
  /\ pc' = [pc EXCEPT ![c] = "injected"]
  /\ UNCHANGED <<server, active, killed>>

Register(c) ==
  /\ pc[c] = "injected"
  /\ active' = active \cup {Current(c)}
  /\ pc' = [pc EXCEPT ![c] = "registered"]
  /\ UNCHANGED <<server, left, context, paraMap, killed, misled, alone>>

\* The handler reads its context, as often as it likes.
Look(c) ==
  /\ pc[c] = "registered"
  /\ misled' = IF {context, paraMap} = {Current(c)} THEN misled ELSE misled \cup {c}
  /\ UNCHANGED <<server, pc, left, context, paraMap, active, killed, alone>>

\* It returns or throws.
\* (As if the entry stayed when the handler throws.)
BugUnregistered(how, rs, r) == IF how = "returned" THEN rs \ {r} ELSE rs
Unregistered(how, rs, r)    == rs \ {r}

Unregister(c, how) ==
  /\ pc[c] = "registered"
  /\ active' = Unregistered(how, active, Current(c))
  /\ pc' = [pc EXCEPT ![c] = "unregistered"]
  /\ UNCHANGED <<server, left, context, paraMap, killed, misled, alone>>

\* It panics, and the thread ends with it; nothing is cleaned up.
HandlerPanics(c) ==
  /\ pc[c] = "registered"
  /\ pc' = [pc EXCEPT ![c] = "panicked"]
  /\ UNCHANGED <<server, left, context, paraMap, active, killed, misled, alone>>

\* paraMapG and webRootG stay.
Respond(c) ==
  /\ pc[c] = "unregistered"
  /\ context' = None
  /\ \E next \in {"reading", "closed"} : pc' = [pc EXCEPT ![c] = next]
  /\ UNCHANGED <<server, left, paraMap, active, killed, misled, alone>>

Serve(c) ==
  \/ Inject(c) \/ Register(c) \/ Look(c) \/ HandlerPanics(c) \/ Respond(c)
  \/ \E how \in {"returned", "threw"} : Unregister(c, how)
  \/ Close(c) \/ ServeOther(c)
  \/ \E r \in Requests : AdminKill(c, r)

RunLoop(l) ==
  SetFlags(l) \/ NoCertificate(l) \/ Bind(l) \/ BindFails(l) \/ StopLoop(l)

Next ==
  \/ serverStart \/ serverStop
  \/ \E l \in Loops : RunLoop(l) \/ \E c \in Conns : Accept(l, c)
  \/ \E c \in Conns : Serve(c)

\* The thread of a loop goes on.
Fairness == \A l \in Loops : WF_vars(RunLoop(l))
Spec == Init /\ [][Next]_vars

-----------------------------------------------------------------------------
\* Every variable keeps to its type.
TypeOK ==
  /\ running \in BOOLEAN /\ stop \in BOOLEAN
  /\ starts \in 0 .. MaxStarts
  /\ loop \in [Loops -> {"none", "checked", "binding", "accepting", "ended"}]
  /\ pc \in [Conns -> Handling \cup {"none", "reading", "panicked", "closed"}]
  /\ left \in [Conns -> 0 .. MaxRequests]
  /\ context \in Requests \cup {None} /\ paraMap \in Requests \cup {None}
  /\ active \subseteq Requests /\ killed \subseteq Requests
  /\ misled \subseteq Conns /\ alone \subseteq Conns

\* The registry names the handlers that run and those that a panic left there, less
\* those an administrator killed: nothing else stays behind or is missing.
RegistryIsExact ==
  \A c \in Conns, n \in 1 .. MaxRequests :
    <<c, n>> \in active <=>
      /\ pc[c] \in {"registered", "panicked"} /\ Current(c) = <<c, n>>
      /\ <<c, n>> \notin killed

\* A handler that had the server to itself found the context of its own request.
ContextWhenAlone == misled \cap alone = {}

\* A handler finds the context of its own request, the others notwithstanding.
ContextIsOwn == misled = {}

\* A server that stays stopped ends: no loop listens for ever.
StopEndsLoops ==
  \A l \in Loops : <>[]stop => <>[](loop[l] # "accepting")
=============================================================================
