-------------------------------- MODULE Pipe --------------------------------
(***************************************************************************)
(* pipe_connections of sflang/src/builtins_tcp.rs, which tcpPipe,          *)
(* portForward and proxyListen run: a thread per direction copies what one *)
(* peer sends to the other; the first to end makes the caller shut both    *)
(* sockets down and join both threads.                                     *)
(*                                                                         *)
(* Sockets are external: a bounded buffer each way; a peer closes its      *)
(* writing side and reads on, or goes away altogether.  Bytes are counted, *)
(* sockets keep their order.                                               *)
(***************************************************************************)
EXTENDS Naturals, FiniteSets

CONSTANTS
  MaxBytes,  \* bound: bytes a peer sends
  Buffer     \* bytes a socket holds each way

Sides == {1, 2}
Other(s) == 3 - s
NoneYet == <<0, "none">>

VARIABLES
  peer,      \* side -> "open", "finished" (sends no more) or "gone"
  sent,      \* side -> bytes its peer has sent
  inbox,     \* side -> bytes of them not read yet
  have,      \* side -> bytes read and not written to the other side yet
  outbox,    \* side -> bytes written and not received by its peer yet
  got,       \* side -> bytes its peer has received
  shut,      \* the sockets shut down
  pc,        \* side -> the thread that reads it: "read", "write" or "ended"
  first,     \* the side whose thread ended first, and how
  caller     \* "waiting", "shutting", "joining" or "returned"

vars == <<peer, sent, inbox, have, outbox, got, shut, pc, first, caller>>

Init ==
  /\ peer = [s \in Sides |-> "open"]
  /\ sent = [s \in Sides |-> 0]
  /\ inbox = [s \in Sides |-> 0]
  /\ have = [s \in Sides |-> 0]
  /\ outbox = [s \in Sides |-> 0]
  /\ got = [s \in Sides |-> 0]
  /\ shut = {}
  /\ pc = [s \in Sides |-> "read"]
  /\ first = NoneYet
  /\ caller = "waiting"

-----------------------------------------------------------------------------
(* The peers. *)

Send(s) ==
  /\ peer[s] = "open" /\ s \notin shut
  /\ sent[s] < MaxBytes /\ inbox[s] < Buffer
  /\ sent' = [sent EXCEPT ![s] = @ + 1]
  /\ inbox' = [inbox EXCEPT ![s] = @ + 1]
  /\ UNCHANGED <<peer, have, outbox, got, shut, pc, first, caller>>

Receive(s) ==
  /\ peer[s] # "gone" /\ outbox[s] > 0
  /\ outbox' = [outbox EXCEPT ![s] = @ - 1]
  /\ got' = [got EXCEPT ![s] = @ + 1]
  /\ UNCHANGED <<peer, sent, inbox, have, shut, pc, first, caller>>

FinishSending(s) ==
  /\ peer[s] = "open"
  /\ peer' = [peer EXCEPT ![s] = "finished"]
  /\ UNCHANGED <<sent, inbox, have, outbox, got, shut, pc, first, caller>>

\* What is on its way from or to a peer that is gone may be lost.
GoAway(s) ==
  /\ peer[s] # "gone"
  /\ peer' = [peer EXCEPT ![s] = "gone"]
  /\ \E n \in {0, inbox[s]} : inbox' = [inbox EXCEPT ![s] = n]
  /\ UNCHANGED <<sent, have, outbox, got, shut, pc, first, caller>>

-----------------------------------------------------------------------------
(* The threads: s is the side a thread reads. *)

\* (As if the thread gave up as soon as the peer has finished.)
BugAtEnd(s) == peer[s] # "open" \/ s \in shut
AtEnd(s)    == (peer[s] # "open" /\ inbox[s] = 0) \/ s \in shut

Read(s) ==
  /\ pc[s] = "read" /\ inbox[s] > 0
  /\ have' = [have EXCEPT ![s] = inbox[s]]
  /\ inbox' = [inbox EXCEPT ![s] = 0]
  /\ pc' = [pc EXCEPT ![s] = "write"]
  /\ UNCHANGED <<peer, sent, outbox, got, shut, first, caller>>

End(s, how) ==
  /\ pc' = [pc EXCEPT ![s] = "ended"]
  /\ first' = IF first = NoneYet THEN <<s, how>> ELSE first
  /\ UNCHANGED <<peer, sent, inbox, have, outbox, got, shut, caller>>

ReadEnds(s) == pc[s] = "read" /\ AtEnd(s) /\ End(s, "end of stream")

\* write_all writes what the buffer takes, waits for room, and fails on a socket
\* that was shut down or whose peer is gone.
Write(s) ==
  LET t == Other(s)
      room == Buffer - outbox[t]
      n == IF have[s] < room THEN have[s] ELSE room
  IN /\ pc[s] = "write" /\ t \notin shut /\ peer[t] # "gone" /\ n > 0
     /\ outbox' = [outbox EXCEPT ![t] = @ + n]
     /\ have' = [have EXCEPT ![s] = @ - n]
     /\ pc' = [pc EXCEPT ![s] = IF n = have[s] THEN "read" ELSE "write"]
     /\ UNCHANGED <<peer, sent, inbox, got, shut, first, caller>>

WriteFails(s) ==
  /\ pc[s] = "write" /\ (Other(s) \in shut \/ peer[Other(s)] = "gone")
  /\ End(s, "failed write")

-----------------------------------------------------------------------------
(* The caller: rx.recv, two shutdowns, two joins. *)

Wake ==
  /\ caller = "waiting" /\ first # NoneYet
  /\ caller' = "shutting"
  /\ UNCHANGED <<peer, sent, inbox, have, outbox, got, shut, pc, first>>

\* (As if only the socket that ended were shut down.)
BugToShut == {first[1]}
ToShut    == Sides

ShutDown ==
  /\ caller = "shutting"
  /\ IF shut = ToShut
     THEN caller' = "joining" /\ UNCHANGED shut
     ELSE \E s \in ToShut \ shut :
            (\A t \in ToShut \ shut : s <= t) /\ shut' = shut \cup {s} /\ UNCHANGED caller
  /\ UNCHANGED <<peer, sent, inbox, have, outbox, got, pc, first>>

Join ==
  /\ caller = "joining" /\ \A s \in Sides : pc[s] = "ended"
  /\ caller' = "returned"
  /\ UNCHANGED <<peer, sent, inbox, have, outbox, got, shut, pc, first>>

Thread(s) == Read(s) \/ ReadEnds(s) \/ Write(s) \/ WriteFails(s)
Caller == Wake \/ ShutDown \/ Join

Next ==
  \/ \E s \in Sides : Send(s) \/ Receive(s) \/ FinishSending(s) \/ GoAway(s) \/ Thread(s)
  \/ Caller

Spec == Init /\ [][Next]_vars

\* Threads run, and peers receive what they are sent: without that a thread waits
\* for room in write_all and never sees that the peer it reads has closed.
Fairness ==
  /\ \A s \in Sides : WF_vars(Thread(s)) /\ WF_vars(Receive(s))
  /\ WF_vars(Caller)

-----------------------------------------------------------------------------
\* Every variable keeps to its type.
TypeOK ==
  /\ peer \in [Sides -> {"open", "finished", "gone"}]
  /\ sent \in [Sides -> 0 .. MaxBytes] /\ got \in [Sides -> 0 .. MaxBytes]
  /\ inbox \in [Sides -> 0 .. Buffer] /\ outbox \in [Sides -> 0 .. Buffer]
  /\ have \in [Sides -> 0 .. Buffer]
  /\ shut \subseteq Sides
  /\ pc \in [Sides -> {"read", "write", "ended"}]
  /\ first \in {NoneYet} \cup (Sides \X {"end of stream", "failed write"})
  /\ caller \in {"waiting", "shutting", "joining", "returned"}

\* Nothing is invented or sent twice, and while no peer goes away nothing is lost
\* on the way: what one has sent is in a buffer, in a thread or with the other.
BytesConserved ==
  \A s \in Sides :
    LET counted == inbox[s] + have[s] + outbox[Other(s)] + got[Other(s)]
    IN counted <= sent[s] /\ (peer[s] # "gone" => counted = sent[s])

\* A peer that finishes first gets all it sent to the other side, which the shutdown
\* must not cut off.
LastBytesArrive ==
  \A s \in Sides :
    first = <<s, "end of stream">> /\ peer[s] # "gone" /\ peer[Other(s)] # "gone"
      => outbox[Other(s)] + got[Other(s)] = sent[s]

\* tcpPipe returns once a peer has finished.
PipeReturns == []<>((\E s \in Sides : peer[s] # "open") => caller = "returned")
=============================================================================
