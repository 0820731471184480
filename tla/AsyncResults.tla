---------------------------- MODULE AsyncResults ----------------------------
(***************************************************************************)
(* runAsync of sflang/src/builtins_async.rs: a thread per call, one global *)
(* queue of results, and two sorts of takers: scripts (runAsyncResults)    *)
(* and the event loop of the GUI (builtins_gui.rs), which also shows the   *)
(* events that the threads of the SSH sessions push (builtins_ssh.rs).     *)
(*                                                                         *)
(* Whoever locks the queue takes all of it.  The event loop then shows its *)
(* batch one at a time; evaluate_script may fail, and what it could not    *)
(* show is only reported.  A thread whose function panics pushes nothing.  *)
(***************************************************************************)
EXTENDS Naturals, Sequences

CONSTANTS
  MaxCalls,   \* bound: calls of runAsync
  Sessions,   \* SSH sessions
  MaxChunks   \* bound: pieces of output of a session

Ids == 1 .. MaxCalls
EventIds == Sessions \X (1 .. MaxChunks + 1)  \* the last event of a session is Eof

VARIABLES
  next_id,   \* ASYNC_ID
  running,   \* the ids of the threads that run their function
  queue,     \* ASYNC_RESULTS
  taken,     \* the results that scripts got, in order
  pushed,    \* session -> the number of its last event
  events,    \* STREAM_EVENTS
  frame,     \* where the event loop is: "results", "streams" or "closed"
  batch,     \* what it has drained and not shown yet
  shown,     \* the results shown, in order
  streamed,  \* the events shown, in order
  lost,      \* the results that died with their thread or were not shown
  missed     \* the events that were not shown

vars == <<next_id, running, queue, taken, pushed, events, frame, batch, shown, streamed, lost, missed>>

Init ==
  /\ next_id = 1
  /\ running = {}
  /\ queue = <<>>
  /\ taken = <<>>
  /\ pushed = [s \in Sessions |-> 0]
  /\ events = <<>>
  /\ frame = "results"
  /\ batch = <<>>
  /\ shown = <<>>
  /\ streamed = <<>>
  /\ lost = {}
  /\ missed = {}

-----------------------------------------------------------------------------
(* The threads. *)

runAsync ==
  /\ next_id <= MaxCalls
  /\ running' = running \cup {next_id}
  /\ next_id' = next_id + 1
  /\ UNCHANGED <<queue, taken, pushed, events, frame, batch, shown, streamed, lost, missed>>

\* The function returned or threw: the result is queued with its id either way.
Finish(id) ==
  /\ id \in running
  /\ running' = running \ {id}
  /\ queue' = Append(queue, id)
  /\ UNCHANGED <<next_id, taken, pushed, events, frame, batch, shown, streamed, lost, missed>>

Panic(id) ==
  /\ id \in running
  /\ running' = running \ {id}
  /\ lost' = lost \cup {id}
  /\ UNCHANGED <<next_id, queue, taken, pushed, events, frame, batch, shown, streamed, missed>>

\* Output of a session or, last, its end.
PushEvent(s) ==
  /\ pushed[s] < MaxChunks + 1
  /\ pushed' = [pushed EXCEPT ![s] = @ + 1]
  /\ events' = Append(events, <<s, pushed[s] + 1>>)
  /\ UNCHANGED <<next_id, running, queue, taken, frame, batch, shown, streamed, lost, missed>>

-----------------------------------------------------------------------------
(* The takers. *)

\* (As if runAsyncResults copied the queue and left it as it is.)
BugRest(q) == q
Rest(q)    == <<>>

runAsyncResults ==
  /\ queue # <<>>
  /\ taken' = taken \o queue
  /\ queue' = Rest(queue)
  /\ UNCHANGED <<next_id, running, pushed, events, frame, batch, shown, streamed, lost, missed>>

\* A frame of the event loop first drains the results, then the events of the
\* streams; each batch is shown before the next one is drained.
DrainResults ==
  /\ frame = "results" /\ batch = <<>>
  /\ batch' = queue
  /\ queue' = Rest(queue)
  /\ frame' = IF queue = <<>> THEN "streams" ELSE "results"
  /\ UNCHANGED <<next_id, running, taken, pushed, events, shown, streamed, lost, missed>>

DrainStreams ==
  /\ frame = "streams" /\ batch = <<>>
  /\ batch' = events
  /\ events' = Rest(events)
  /\ frame' = IF events = <<>> THEN "results" ELSE "streams"
  /\ UNCHANGED <<next_id, running, queue, taken, pushed, shown, streamed, lost, missed>>

\* Past the last of the batch the loop goes on to the other queue.
Other == IF frame = "results" THEN "streams" ELSE "results"
Onward == frame' = IF Len(batch) = 1 THEN Other ELSE frame

Show ==
  /\ batch # <<>>
  /\ batch' = Tail(batch)
  /\ IF frame = "results"
     THEN shown' = Append(shown, Head(batch)) /\ UNCHANGED streamed
     ELSE streamed' = Append(streamed, Head(batch)) /\ UNCHANGED shown
  /\ Onward
  /\ UNCHANGED <<next_id, running, queue, taken, pushed, events, lost, missed>>

ShowFails ==
  /\ batch # <<>>
  /\ batch' = Tail(batch)
  /\ IF frame = "results"
     THEN lost' = lost \cup {Head(batch)} /\ UNCHANGED missed
     ELSE missed' = missed \cup {Head(batch)} /\ UNCHANGED lost
  /\ Onward
  /\ UNCHANGED <<next_id, running, queue, taken, pushed, events, shown, streamed>>

\* The window is closed between two frames; scripts may go on.
CloseWindow ==
  /\ frame = "results" /\ batch = <<>>
  /\ frame' = "closed"
  /\ UNCHANGED <<next_id, running, queue, taken, pushed, events, batch, shown, streamed, lost, missed>>

Next ==
  \/ runAsync
  \/ \E id \in Ids : Finish(id) \/ Panic(id)
  \/ \E s \in Sessions : PushEvent(s)
  \/ runAsyncResults
  \/ DrainResults \/ DrainStreams \/ Show \/ ShowFails \/ CloseWindow

Spec == Init /\ [][Next]_vars

-----------------------------------------------------------------------------
\* Every variable keeps to its type.
TypeOK ==
  /\ next_id \in 1 .. MaxCalls + 1
  /\ running \subseteq Ids
  /\ queue \in Seq(Ids)
  /\ taken \in Seq(Ids)
  /\ pushed \in [Sessions -> 0 .. MaxChunks + 1]
  /\ events \in Seq(EventIds)
  /\ frame \in {"results", "streams", "closed"}
  /\ batch \in Seq(IF frame = "results" THEN Ids ELSE EventIds)
  /\ shown \in Seq(Ids)
  /\ streamed \in Seq(EventIds)
  /\ lost \subseteq Ids
  /\ missed \subseteq EventIds

\* What the event loop holds of one queue, and what is anywhere of both.
Held(loop) == IF frame = loop THEN batch ELSE <<>>
Results == taken \o shown \o Held("results") \o queue
Events == streamed \o Held("streams") \o events

Injective(s) == \A i, j \in DOMAIN s : s[i] = s[j] => i = j
Elements(s) == {s[i] : i \in DOMAIN s}

\* The result of each call is in one place: with its thread, in the queue, with the
\* event loop, shown, with one script, or lost with a panic or a failed script of
\* the page.  However scripts and event loop compete, none gets it twice.
ResultsOnce ==
  /\ Injective(Results)
  /\ running \cap (Elements(Results) \cup lost) = {}
  /\ lost \cap Elements(Results) = {}
  /\ 1 .. next_id - 1 = running \cup Elements(Results) \cup lost

\* The page is shown the output of a session in the order in which it came, each
\* piece once, and misses only what it failed to show.
StreamsInOrder ==
  /\ \A i, j \in DOMAIN Events :
       i < j /\ Events[i][1] = Events[j][1] => Events[i][2] < Events[j][2]
  /\ \A s \in Sessions : \A n \in 1 .. pushed[s] :
       (<<s, n>> \in Elements(Events)) # (<<s, n>> \in missed)
=============================================================================
