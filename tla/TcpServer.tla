------------------------------ MODULE TcpServer ------------------------------
(***************************************************************************)
(* The listening loops of sflang/src/builtins_tcp.rs and builtins_proxy.rs *)
(* and the thread each accepted connection gets: tcpListen runs a script,  *)
(* portForward connects to its target, proxyListen first speaks SOCKS5 or  *)
(* HTTP with the client and asks the script's handler.  The two last end   *)
(* in pipe_connections, which is module Pipe.                              *)
(*                                                                         *)
(* A loop looks at its stop flag, accepts one connection or sleeps 10 ms,  *)
(* and looks again; when it ends, the listener is dropped and connections  *)
(* it has not accepted are reset.  Client and target are external.         *)
(***************************************************************************)
EXTENDS Naturals, Sequences

CONSTANT Conns  \* the connections open at a time

VARIABLES
  kind,       \* the builtin that listens
  loop,       \* "check" the flag, "accept", "ended"
  stop_flag,
  pc,         \* of each connection: "none", "queued" in the backlog, then its thread
  protocol,   \* "socks5", "CONNECT", "plain", "?" until it is known
  allowed,    \* history: what check_access said, "unasked" before
  told,       \* the replies the client has been given
  to_target   \* what went on to the target: a rewritten head, then the client's bytes

vars == <<kind, loop, stop_flag, pc, protocol, allowed, told, to_target>>

Kinds == {"tcpListen", "proxyListen", "portForward"}

Init ==
  /\ kind \in Kinds
  /\ loop = "check"
  /\ stop_flag = FALSE
  /\ pc = [c \in Conns |-> "none"]
  /\ protocol = [c \in Conns |-> "?"]
  /\ allowed = [c \in Conns |-> "unasked"]
  /\ told = [c \in Conns |-> <<>>]
  /\ to_target = [c \in Conns |-> <<>>]

handshake == <<protocol, allowed, told, to_target>>

\* A client connects, for the first time or again; the system queues it until accept.
Connect(c) ==
  /\ pc[c] \in {"none", "closed"} /\ loop # "ended"
  /\ pc' = [pc EXCEPT ![c] = "queued"]
  /\ protocol' = [protocol EXCEPT ![c] = "?"]
  /\ allowed' = [allowed EXCEPT ![c] = "unasked"]
  /\ told' = [told EXCEPT ![c] = <<>>]
  /\ to_target' = [to_target EXCEPT ![c] = <<>>]
  /\ UNCHANGED <<kind, loop, stop_flag>>

\* tcpStopServer, proxyStop, portForwardStop.
Stop ==
  /\ stop_flag' = TRUE
  /\ UNCHANGED <<kind, loop, pc, handshake>>

\* The loop is over: the listener goes, and its backlog with it.
LoopEnds ==
  /\ loop' = "ended"
  /\ pc' = [c \in Conns |-> IF pc[c] = "queued" THEN "reset" ELSE pc[c]]
  /\ UNCHANGED <<kind, stop_flag, handshake>>

\* A bug for the checks: the flag is looked at only when nobody has connected.
BugStopSeen == stop_flag /\ \A c \in Conns : pc[c] # "queued"

\* What the loop looks at before every accept.
StopSeen == stop_flag

Check ==
  /\ loop = "check"
  /\ \/ StopSeen /\ LoopEnds
     \/ ~StopSeen /\ loop' = "accept" /\ UNCHANGED <<kind, stop_flag, pc, handshake>>

\* accept gives a connection: its thread is spawned at once.
Accept(c) ==
  /\ loop = "accept" /\ pc[c] = "queued"
  /\ pc' = [pc EXCEPT ![c] = IF kind = "proxyListen" THEN "greeting"
                             ELSE IF kind = "portForward" THEN "connect" ELSE "script"]
  /\ loop' = "check"
  /\ UNCHANGED <<kind, stop_flag, handshake>>

\* WouldBlock: nobody is there; 10 ms later the flag is looked at.
Idle ==
  /\ loop = "accept" /\ \A c \in Conns : pc[c] # "queued"
  /\ loop' = "check"
  /\ UNCHANGED <<kind, stop_flag, pc, handshake>>

\* Any other error of accept ends the loop.
AcceptFails == loop = "accept" /\ LoopEnds

LoopStep == Check \/ (\E c \in Conns : Accept(c)) \/ Idle

-----------------------------------------------------------------------------
Goes(c, to) == pc' = [pc EXCEPT ![c] = to]
Tell(c, reply) == told' = [told EXCEPT ![c] = Append(@, reply)]

\* The handler of tcpListen runs in a VM of its own; its end, by itself or by an error,
\* is the connection's.
ScriptEnds(c) ==
  /\ pc[c] = "script"
  /\ Goes(c, "closed")
  /\ UNCHANGED <<kind, loop, stop_flag, handshake>>

\* handle_proxy_conn: the first byte tells the protocol; then the request is read
\* (handle_socks5 1-2, handle_http up to the blank line).
Greeting(c) ==
  /\ pc[c] = "greeting"
  /\ \E p \in {"socks5", "CONNECT", "plain"} : protocol' = [protocol EXCEPT ![c] = p]
  /\ Goes(c, "ask")
  /\ UNCHANGED <<kind, loop, stop_flag, allowed, told, to_target>>

\* The client sends something else, too much, or nothing more.  A SOCKS5 request that
\* is well formed but asks for another command or address type is answered.
BadGreeting(c) ==
  /\ pc[c] = "greeting"
  /\ Goes(c, "closed")
  /\ told' \in {told, [told EXCEPT ![c] = Append(@, "not supported")]}
  /\ UNCHANGED <<kind, loop, stop_flag, protocol, allowed, to_target>>

\* A bug for the checks: what the handler refuses goes through all the same.
BugAccess(c) ==
  /\ pc[c] = "ask"
  /\ \E yes \in BOOLEAN : allowed' = [allowed EXCEPT ![c] = IF yes THEN "yes" ELSE "no"]
  /\ Goes(c, "connect")
  /\ UNCHANGED <<kind, loop, stop_flag, protocol, told, to_target>>

\* check_access: without a handler everything is allowed; its error is a no.
check_access(c) ==
  /\ pc[c] = "ask"
  /\ \E yes \in BOOLEAN :
       /\ allowed' = [allowed EXCEPT ![c] = IF yes THEN "yes" ELSE "no"]
       /\ IF yes THEN Goes(c, "connect") /\ told' = told
          ELSE Goes(c, "closed") /\ Tell(c, "denied")
  /\ UNCHANGED <<kind, loop, stop_flag, protocol, to_target>>

\* TcpStream::connect to the target fails: a proxy's client is told, a forward's is not.
ConnectFails(c) ==
  /\ pc[c] = "connect"
  /\ Goes(c, "closed")
  /\ IF kind = "proxyListen" THEN Tell(c, "no target") ELSE told' = told
  /\ UNCHANGED <<kind, loop, stop_flag, protocol, allowed, to_target>>

\* The target is reached: a tunnel's client is told, the head of a plain request is
\* rewritten and goes on.
Connected(c) ==
  /\ pc[c] = "connect"
  /\ Goes(c, "piping")
  /\ IF protocol[c] \in {"socks5", "CONNECT"} THEN Tell(c, "connected") ELSE told' = told
  /\ to_target' = IF protocol[c] = "plain"
                  THEN [to_target EXCEPT ![c] = <<"head">>] ELSE to_target
  /\ UNCHANGED <<kind, loop, stop_flag, protocol, allowed>>

\* pipe_connections: what the client sends after its request arrives as it is.
Piped(c) ==
  /\ pc[c] = "piping" /\ \A i \in DOMAIN to_target[c] : to_target[c][i] # "body"
  /\ to_target' = [to_target EXCEPT ![c] = Append(@, "body")]
  /\ UNCHANGED <<kind, loop, stop_flag, pc, protocol, allowed, told>>

\* One side closes or fails, before, between or while the bytes go through.
PipeEnds(c) ==
  /\ pc[c] = "piping"
  /\ Goes(c, "closed")
  /\ UNCHANGED <<kind, loop, stop_flag, handshake>>

Thread(c) ==
  \/ ScriptEnds(c) \/ Greeting(c) \/ BadGreeting(c) \/ check_access(c)
  \/ ConnectFails(c) \/ Connected(c) \/ PipeEnds(c)

Next ==
  \/ Stop \/ LoopStep \/ AcceptFails
  \/ \E c \in Conns : Connect(c) \/ Thread(c) \/ Piped(c)

Spec == Init /\ [][Next]_vars

\* The loop's thread and the connections' threads run; handlers return, clients and
\* targets answer or go.
Fairness == WF_vars(LoopStep) /\ \A c \in Conns : WF_vars(Thread(c))

-----------------------------------------------------------------------------
TypeOK ==
  /\ kind \in Kinds
  /\ loop \in {"check", "accept", "ended"}
  /\ stop_flag \in BOOLEAN
  /\ pc \in [Conns -> {"none", "queued", "reset", "script", "greeting", "ask", "connect",
                       "piping", "closed"}]
  /\ protocol \in [Conns -> {"?", "socks5", "CONNECT", "plain"}]
  /\ allowed \in [Conns -> {"unasked", "yes", "no"}]
  /\ \A c \in Conns : Len(told[c]) <= 1 /\ Len(to_target[c]) <= 2

\* No byte of a proxy's client reaches a target the handler did not allow, and the
\* client hears what became of its request: once, and "connected" only when a target is.
OnlyAllowedArePiped ==
  kind = "proxyListen" =>
    \A c \in Conns :
      /\ pc[c] = "piping" \/ to_target[c] # <<>> => allowed[c] = "yes"
      /\ allowed[c] = "no" => told[c] = <<"denied">>
      /\ Len(told[c]) <= 1

\* A loop that is told to stop ends, however many clients keep coming; the connections
\* it has accepted live on and end by themselves.
EndsWhenStopped == []<>(stop_flag => loop = "ended")
AcceptedAreServed ==
  \A c \in Conns : []<>(pc[c] \notin {"script", "greeting", "ask", "connect", "piping"})
=============================================================================
