---------------------------- MODULE Channel_proofs ----------------------------
(***************************************************************************)
(* Theorems about Channel for any sets of senders and receivers and any    *)
(* number of values: no value is lost or received twice, each receiver     *)
(* gets them in the order of the sends, and nobody sleeps beside a value.  *)
(*                                                                         *)
(* A hand-over overwrites the place of the task it is for, so that task    *)
(* must be asleep and must not be in the queue of waiters any more         *)
(* (WaitersOK, GiversOK).  That every value is in one place is kept        *)
(* without counting (Placed, OnePlace); the order rests on everything that *)
(* is queued being newer than what has been handed out (Newer).            *)
(***************************************************************************)
EXTENDS Channel, FiniteSetTheorems, TLAPS

\* The bound is a natural number.
Assumptions == MaxSends \in Nat

Giving(s)    == out[s].pc = "wake"
Notifying    == {s \in Senders : out[s].pc = "notify"}
Notified     == {r \in Threads : pc[r] = "notified"}

\* The tasks in the queue are parked and there once.
WaitersOK ==
  /\ \A i \in DOMAIN waiters : pc[waiters[i]] = "parked"
  /\ \A i, j \in DOMAIN waiters : waiters[i] = waiters[j] => i = j

\* A hand-over is to a parked task that is not in the queue, and to no other.
GiversOK ==
  /\ \A s \in Senders : Giving(s) => out[s].to \in Tasks /\ pc[out[s].to] = "parked"
  /\ \A s \in Senders, i \in DOMAIN waiters : Giving(s) => waiters[i] # out[s].to
  /\ \A s, z \in Senders : Giving(s) /\ Giving(z) /\ out[s].to = out[z].to => s = z

\* Only values that were sent are anywhere, and each of them is somewhere.
Placed ==
  /\ \A i \in DOMAIN queue : queue[i] \in 1 .. sent
  /\ \A s \in Senders : Giving(s) => out[s].val \in 1 .. sent
  /\ \A r \in Receivers : \A k \in DOMAIN got[r] : got[r][k] \in 1 .. sent
Somewhere ==
  \A v \in 1 .. sent : \/ \E i \in DOMAIN queue : queue[i] = v
                       \/ \E s \in Senders : Giving(s) /\ out[s].val = v
                       \/ \E r \in Receivers : \E k \in DOMAIN got[r] : got[r][k] = v

\* The queue is in the order of the sends and newer than all that has left it.
QueueUp == \A i, j \in DOMAIN queue : i < j => queue[i] < queue[j]
Newer ==
  /\ \A i \in DOMAIN queue, s \in Senders : Giving(s) => out[s].val < queue[i]
  /\ \A i \in DOMAIN queue, r \in Receivers : \A k \in DOMAIN got[r] : got[r][k] < queue[i]

\* What is handed over is newer than what its receiver has, and nobody has it.
HandNewer ==
  \A s \in Senders : Giving(s) => \A k \in DOMAIN got[out[s].to] : got[out[s].to][k] < out[s].val
HandOnce ==
  /\ \A s, z \in Senders : Giving(s) /\ Giving(z) /\ out[s].val = out[z].val => s = z
  /\ \A s \in Senders, r \in Receivers : \A k \in DOMAIN got[r] : Giving(s) => got[r][k] # out[s].val
GotOnce ==
  \A r, z \in Receivers : \A k \in DOMAIN got[r], l \in DOMAIN got[z] : got[r][k] = got[z][l] => r = z
Fits  == \A r \in Receivers : \A k \in DOMAIN got[r] : k <= got[r][k]
GotUp == \A r \in Receivers : \A k, l \in DOMAIN got[r] : k < l => got[r][k] < got[r][l]

\* Every queued value has a notification or a notified thread, if one is asleep.
Served ==
  /\ IsFiniteSet(Notifying) /\ IsFiniteSet(Notified)
  /\ queue # <<>> => waiters = <<>>
  /\ (\E r \in Threads : pc[r] = "cv") =>
       Len(queue) <= Cardinality(Notifying) + Cardinality(Notified)

Linked == WaitersOK /\ GiversOK
Order  == QueueUp /\ Newer /\ HandNewer /\ HandOnce /\ GotOnce /\ GotUp /\ Fits
IInv   == TypeOK /\ Linked /\ Placed /\ Somewhere /\ Order /\ Served

-----------------------------------------------------------------------------
(* Facts used in several steps *)

LEMMA CallerFacts ==
  /\ None \notin Receivers /\ Receivers = Tasks \cup Threads
  /\ Tasks \subseteq Receivers /\ Threads \subseteq Receivers
  /\ \A t \in Tasks : t \notin Threads
BY CallersAssumption DEF Procs, Receivers

LEMMA HeadAndTail ==
  ASSUME NEW S, NEW q \in Seq(S), q # <<>>
  PROVE  /\ Head(q) \in S /\ Head(q) = q[1] /\ 1 \in DOMAIN q
         /\ Tail(q) \in Seq(S) /\ Len(q) \in Nat /\ Len(Tail(q)) = Len(q) - 1
         /\ \A i \in DOMAIN Tail(q) : /\ i + 1 \in DOMAIN q /\ i \in Nat /\ 1 < i + 1
                                      /\ Tail(q)[i] = q[i + 1]
         /\ \A i \in DOMAIN q : i = 1 \/ (i - 1 \in DOMAIN Tail(q) /\ Tail(q)[i - 1] = q[i])
OBVIOUS

LEMMA OneAppended ==
  ASSUME NEW S, NEW q \in Seq(S), NEW x \in S
  PROVE  /\ Append(q, x) \in Seq(S) /\ Append(q, x) # <<>>
         /\ Len(q) \in Nat /\ Len(Append(q, x)) = Len(q) + 1
         /\ DOMAIN Append(q, x) = DOMAIN q \cup {Len(q) + 1}
         /\ \A i \in DOMAIN q : i \in Nat /\ i < Len(q) + 1 /\ Append(q, x)[i] = q[i]
         /\ Append(q, x)[Len(q) + 1] = x
OBVIOUS

LEMMA NoneQueued == \A q : q = <<>> => Len(q) = 0 /\ DOMAIN q = {}
OBVIOUS

LEMMA OneMore ==
  ASSUME NEW S, IsFiniteSet(S), NEW x, x \notin S
  PROVE  IsFiniteSet(S \cup {x}) /\ Cardinality(S \cup {x}) = Cardinality(S) + 1
BY FS_AddElement

LEMMA OneLess ==
  ASSUME NEW S, IsFiniteSet(S), NEW x \in S
  PROVE  IsFiniteSet(S \ {x}) /\ Cardinality(S \ {x}) = Cardinality(S) - 1
BY FS_RemoveElement

\* The typing of the variables, in the form in which the steps use it.
LEMMA TypeFacts ==
  ASSUME Assumptions, TypeOK
  PROVE  /\ sent \in Nat /\ sent <= MaxSends /\ MaxSends \in Nat
         /\ queue \in Seq(Values) /\ Values = 1 .. MaxSends
         /\ waiters \in Seq(Tasks)
         /\ \A r \in Receivers : got[r] \in Seq(Values)
         /\ \A r \in Receivers : \A k \in DOMAIN got[r] : got[r][k] \in Nat
         /\ \A i \in DOMAIN queue : i \in Nat /\ queue[i] \in Nat
         /\ \A i \in DOMAIN waiters : waiters[i] \in Tasks
         /\ \A s \in Senders : out[s].val \in Nat
BY DEF Assumptions, TypeOK, Values

LEMMA InitInv == ASSUME Assumptions, Init PROVE IInv
<1> USE CallerFacts
<1>1. TypeOK
  <2>1. Quiet \in [pc : {"idle", "wake", "notify"}, to : Tasks \cup {None}, val : 0 .. MaxSends]
    BY DEF Quiet, Assumptions
  <2>2. <<>> \in Seq(Values) /\ <<>> \in Seq(Tasks) /\ 0 \in 0 .. MaxSends
    BY DEF Assumptions
  <2> QED BY <2>1, <2>2 DEF Init, TypeOK
<1>2. /\ waiters = <<>> /\ queue = <<>> /\ \A r \in Receivers : got[r] = <<>>
      /\ DOMAIN waiters = {} /\ DOMAIN queue = {} /\ \A r \in Receivers : DOMAIN got[r] = {}
  BY NoneQueued DEF Init
<1>3. \A s \in Senders : ~Giving(s) /\ out[s].pc # "notify"
  BY DEF Init, Quiet, Giving
<1>4. Linked
  BY <1>2, <1>3 DEF Linked, WaitersOK, GiversOK
<1>5. Placed /\ Somewhere
  <2>1. 1 .. sent = {}
    BY DEF Init
  <2> QED BY <1>2, <1>3, <2>1 DEF Placed, Somewhere
<1>6. Order
  BY <1>2, <1>3, Zenon DEF Order, QueueUp, Newer, HandNewer, HandOnce, GotOnce, GotUp, Fits
<1>7. Served
  <2>1. Notifying = {}
    BY <1>3 DEF Notifying
  <2>2. Notified = {}
    BY DEF Notified, Init
  <2>3. \A r \in Threads : pc[r] # "cv"
    BY DEF Init
  <2> QED BY <1>2, <2>1, <2>2, <2>3, FS_EmptySet DEF Served
<1> QED BY <1>1, <1>4, <1>5, <1>6, <1>7 DEF IInv

-----------------------------------------------------------------------------
(* Every step keeps the invariant *)

LEMMA SendToWaiterStep ==
  ASSUME Assumptions, IInv, NEW s \in Senders, SendToWaiter(s)
  PROVE  IInv'
<1> USE CallerFacts
<1>0. /\ TypeOK /\ WaitersOK /\ GiversOK /\ Placed /\ Somewhere /\ Served
      /\ QueueUp /\ Newer /\ HandNewer /\ HandOnce /\ GotOnce /\ GotUp /\ Fits
  BY DEF IInv, Linked, Order
<1>t. /\ sent \in Nat /\ MaxSends \in Nat /\ waiters \in Seq(Tasks)
      /\ \A r \in Receivers : \A k \in DOMAIN got[r] : got[r][k] \in Nat
      /\ \A z \in Senders : out[z].val \in Nat
  BY <1>0, TypeFacts
<1> DEFINE h == Head(waiters)
           m == [pc |-> "wake", to |-> h, val |-> sent + 1]
<1>1. /\ out[s].pc = "idle" /\ sent < MaxSends /\ waiters # <<>>
      /\ sent' = sent + 1 /\ waiters' = Tail(waiters) /\ out' = [out EXCEPT ![s] = m]
      /\ UNCHANGED <<queue, pc, got>>
  BY DEF SendToWaiter, CanSend
<1>2. /\ h \in Tasks /\ h = waiters[1] /\ 1 \in DOMAIN waiters /\ Tail(waiters) \in Seq(Tasks)
      /\ \A i \in DOMAIN Tail(waiters) : /\ i + 1 \in DOMAIN waiters /\ i \in Nat /\ 1 < i + 1
                                         /\ Tail(waiters)[i] = waiters[i + 1]
  BY <1>t, <1>1, HeadAndTail
<1>3. /\ m.pc = "wake" /\ m.to = h /\ m.val = sent + 1
      /\ m \in [pc : {"idle", "wake", "notify"}, to : Tasks \cup {None}, val : 0 .. MaxSends]
  BY <1>t, <1>1, <1>2
<1>4. pc[h] = "parked"
  BY <1>0, <1>2 DEF WaitersOK
<1> HIDE DEF h, m
<1>5. TypeOK'
  BY <1>0, <1>t, <1>1, <1>2, <1>3 DEF TypeOK
<1>6. /\ out'[s] = m /\ \A z \in Senders : z # s => out'[z] = out[z]
      /\ Giving(s)' /\ ~Giving(s)
      /\ \A z \in Senders : z # s => (Giving(z)' <=> Giving(z))
  BY <1>0, <1>1, <1>3 DEF TypeOK, Giving
<1>7. queue = <<>> /\ DOMAIN queue = {} /\ Len(queue) = 0
  BY <1>0, <1>1, NoneQueued DEF Served
<1>8. WaitersOK'
  <2>1. \A i \in DOMAIN waiters' : pc'[waiters'[i]] = "parked"
    BY <1>0, <1>1, <1>2 DEF WaitersOK
  <2>2. ASSUME NEW i \in DOMAIN waiters', NEW j \in DOMAIN waiters', waiters'[i] = waiters'[j]
        PROVE  i = j
    <3>1. i + 1 = j + 1
      BY <1>0, <1>1, <1>2, <2>2 DEF WaitersOK
    <3> QED BY <1>1, <1>2, <3>1
  <2> QED BY <2>1, <2>2 DEF WaitersOK
<1>9. GiversOK'
  <2>1. \A z \in Senders : Giving(z)' => out'[z].to \in Tasks /\ pc'[out'[z].to] = "parked"
    BY <1>0, <1>1, <1>2, <1>3, <1>4, <1>6 DEF GiversOK
  <2>2. ASSUME NEW z \in Senders, NEW i \in DOMAIN waiters', Giving(z)'
        PROVE  waiters'[i] # out'[z].to
    <3>1. i + 1 \in DOMAIN waiters /\ waiters'[i] = waiters[i + 1] /\ i \in Nat /\ i + 1 # 1
      BY <1>1, <1>2, <2>2
    <3>2. CASE z = s
      BY <1>0, <1>2, <1>3, <1>6, <3>1, <3>2 DEF WaitersOK
    <3>3. CASE z # s
      BY <1>0, <1>6, <2>2, <3>1, <3>3 DEF GiversOK
    <3> QED BY <3>2, <3>3
  <2>3. \A z \in Senders : z # s /\ Giving(z) => out[z].to # h
    BY <1>0, <1>2 DEF GiversOK
  <2>4. ASSUME NEW y \in Senders, NEW z \in Senders, Giving(y)', Giving(z)', out'[y].to = out'[z].to
        PROVE  y = z
    BY <1>0, <1>3, <1>6, <2>3, <2>4 DEF GiversOK
  <2> QED BY <2>1, <2>2, <2>4 DEF GiversOK
<1>10. Placed'
  BY <1>0, <1>t, <1>1, <1>3, <1>6 DEF Placed
<1>11. Somewhere'
  <2> SUFFICES ASSUME NEW v \in 1 .. sent'
               PROVE  \/ \E z \in Senders : Giving(z)' /\ out'[z].val = v
                      \/ \E r \in Receivers : \E k \in DOMAIN got[r] : got[r][k] = v
    BY <1>1 DEF Somewhere
  <2>1. CASE v = sent + 1
    BY <1>3, <1>6, <2>1
  <2>2. CASE v # sent + 1
    <3>1. v \in 1 .. sent
      BY <1>t, <1>1, <2>2
    <3>2. \/ \E z \in Senders : Giving(z) /\ out[z].val = v
          \/ \E r \in Receivers : \E k \in DOMAIN got[r] : got[r][k] = v
      BY <1>0, <1>7, <3>1 DEF Somewhere
    <3> QED BY <1>6, <3>2
  <2> QED BY <2>1, <2>2
<1>12. QueueUp' /\ Newer'
  BY <1>1, <1>7 DEF QueueUp, Newer
<1>13. GotOnce' /\ GotUp' /\ Fits'
  BY <1>0, <1>1 DEF GotOnce, GotUp, Fits
<1>14. \A r \in Receivers : \A k \in DOMAIN got[r] : got[r][k] < sent + 1
  BY <1>0, <1>t DEF Placed
<1>15. HandNewer'
  <2> SUFFICES ASSUME NEW z \in Senders, Giving(z)', NEW k \in DOMAIN got[out'[z].to]
               PROVE  got[out'[z].to][k] < out'[z].val
    BY <1>1 DEF HandNewer
  <2>1. CASE z = s
    BY <1>2, <1>3, <1>6, <1>14, <2>1
  <2>2. CASE z # s
    BY <1>0, <1>6, <2>2 DEF HandNewer
  <2> QED BY <2>1, <2>2
<1>16. HandOnce'
  <2>1. \A z \in Senders : Giving(z) => out[z].val < sent + 1
    BY <1>0, <1>t DEF Placed
  <2>2. \A y, z \in Senders : Giving(y)' /\ Giving(z)' /\ out'[y].val = out'[z].val => y = z
    BY <1>0, <1>t, <1>3, <1>6, <2>1 DEF HandOnce
  <2>3. \A z \in Senders, r \in Receivers : \A k \in DOMAIN got'[r] :
          Giving(z)' => got'[r][k] # out'[z].val
    BY <1>0, <1>t, <1>1, <1>3, <1>6, <1>14 DEF HandOnce
  <2> QED BY <2>2, <2>3 DEF HandOnce
<1>17. Served'
  <2>1. Notifying' = Notifying /\ Notified' = Notified
    BY <1>1, <1>3, <1>6 DEF Notifying, Notified
  <2>2. Cardinality(Notifying) \in Nat /\ Cardinality(Notified) \in Nat
    BY <1>0, FS_CardinalityType DEF Served
  <2> QED BY <1>0, <1>1, <1>7, <2>1, <2>2 DEF Served
<1> QED BY <1>5, <1>8, <1>9, <1>10, <1>11, <1>12, <1>13, <1>15, <1>16, <1>17
        DEF IInv, Linked, Order

LEMMA InjectStep ==
  ASSUME Assumptions, IInv, NEW s \in Senders, Inject(s)
  PROVE  IInv'
<1> USE CallerFacts
<1>0. /\ TypeOK /\ WaitersOK /\ GiversOK /\ Placed /\ Somewhere /\ Served
      /\ QueueUp /\ Newer /\ HandNewer /\ HandOnce /\ GotOnce /\ GotUp /\ Fits
  BY DEF IInv, Linked, Order
<1> DEFINE t == out[s].to
           v == out[s].val
<1>1. /\ Giving(s) /\ got' = [got EXCEPT ![t] = Append(@, v)]
      /\ pc' = [pc EXCEPT ![t] = "idle"] /\ out' = [out EXCEPT ![s] = Quiet]
      /\ UNCHANGED <<sent, queue, waiters>>
  BY DEF Inject, Giving
<1>2. t \in Tasks /\ pc[t] = "parked" /\ v \in 1 .. sent
  BY <1>0, <1>1 DEF GiversOK, Placed
<1>t. /\ sent \in Nat /\ MaxSends \in Nat /\ sent <= MaxSends /\ v \in Values
      /\ \A r \in Receivers : got[r] \in Seq(Values)
      /\ \A r \in Receivers : \A k \in DOMAIN got[r] : got[r][k] \in Nat
  BY <1>0, <1>2, TypeFacts DEF Values
<1>o. \A z \in Senders : Giving(z) /\ z # s => out[z].to # t /\ out[z].val # v
  BY <1>0, <1>1 DEF GiversOK, HandOnce
<1>h. /\ \A i \in DOMAIN waiters : waiters[i] # t
      /\ \A k \in DOMAIN got[t] : got[t][k] < v
      /\ \A r \in Receivers : \A k \in DOMAIN got[r] : got[r][k] # v
      /\ \A i \in DOMAIN queue : v < queue[i]
  BY <1>0, <1>1 DEF GiversOK, HandNewer, HandOnce, Newer
<1> HIDE DEF t, v
<1>a. /\ Append(got[t], v) \in Seq(Values) /\ Len(got[t]) \in Nat
      /\ DOMAIN Append(got[t], v) = DOMAIN got[t] \cup {Len(got[t]) + 1}
      /\ \A i \in DOMAIN got[t] : i \in Nat /\ i < Len(got[t]) + 1 /\ Append(got[t], v)[i] = got[t][i]
      /\ Append(got[t], v)[Len(got[t]) + 1] = v
  <2>1. got[t] \in Seq(Values) /\ v \in Values
    BY <1>2, <1>t
  <2> QED BY <2>1, OneAppended
<1>3. /\ got'[t] = Append(got[t], v) /\ \A r \in Receivers : r # t => got'[r] = got[r]
      /\ pc'[t] = "idle" /\ \A r \in Receivers : r # t => pc'[r] = pc[r]
      /\ out'[s] = Quiet /\ \A z \in Senders : z # s => out'[z] = out[z]
  BY <1>0, <1>1, <1>2 DEF TypeOK
<1>4. TypeOK'
  <2>1. Quiet \in [pc : {"idle", "wake", "notify"}, to : Tasks \cup {None}, val : 0 .. MaxSends]
    BY <1>t DEF Quiet
  <2> QED BY <1>0, <1>t, <1>1, <1>2, <1>a, <2>1 DEF TypeOK
<1>5. ~Giving(s)' /\ \A z \in Senders : z # s => (Giving(z)' <=> Giving(z))
  BY <1>3 DEF Giving, Quiet
<1>6. WaitersOK'
  BY <1>0, <1>t, <1>1, <1>3, <1>h, TypeFacts DEF WaitersOK
<1>7. GiversOK'
  BY <1>0, <1>1, <1>3, <1>5, <1>o DEF GiversOK
\* What a receiver has now, it had or has just got.
<1>8. \A r \in Receivers : \A k \in DOMAIN got'[r] :
        \/ k \in DOMAIN got[r] /\ got'[r][k] = got[r][k]
        \/ r = t /\ k = Len(got[t]) + 1 /\ got'[r][k] = v
  BY <1>3, <1>a
<1>9. /\ \A r \in Receivers : \A k \in DOMAIN got[r] : k \in DOMAIN got'[r] /\ got'[r][k] = got[r][k]
      /\ Len(got[t]) + 1 \in DOMAIN got'[t] /\ got'[t][Len(got[t]) + 1] = v
  BY <1>3, <1>a
<1>10. Placed'
  BY <1>0, <1>1, <1>2, <1>3, <1>5, <1>8 DEF Placed
<1>11. Somewhere'
  <2> SUFFICES ASSUME NEW w \in 1 .. sent
               PROVE  \/ \E i \in DOMAIN queue : queue[i] = w
                      \/ \E z \in Senders : Giving(z)' /\ out'[z].val = w
                      \/ \E r \in Receivers : \E k \in DOMAIN got'[r] : got'[r][k] = w
    BY <1>1 DEF Somewhere
  <2>1. CASE w = v
    BY <1>2, <1>9, <2>1
  <2>2. CASE w # v
    <3>1. \/ \E i \in DOMAIN queue : queue[i] = w
          \/ \E z \in Senders : Giving(z) /\ out[z].val = w
          \/ \E r \in Receivers : \E k \in DOMAIN got[r] : got[r][k] = w
      BY <1>0 DEF Somewhere
    <3> QED BY <1>3, <1>5, <1>9, <2>2, <3>1 DEF v
  <2> QED BY <2>1, <2>2
<1>12. QueueUp'
  BY <1>0, <1>1 DEF QueueUp
<1>13. Newer'
  <2>1. \A i \in DOMAIN queue', z \in Senders : Giving(z)' => out'[z].val < queue'[i]
    BY <1>0, <1>1, <1>3, <1>5 DEF Newer
  <2>2. \A i \in DOMAIN queue', r \in Receivers : \A k \in DOMAIN got'[r] : got'[r][k] < queue'[i]
    BY <1>0, <1>1, <1>8, <1>h DEF Newer
  <2> QED BY <2>1, <2>2 DEF Newer
<1>14. HandNewer'
  <2> SUFFICES ASSUME NEW z \in Senders, Giving(z)', NEW k \in DOMAIN got'[out'[z].to]
               PROVE  got'[out'[z].to][k] < out'[z].val
    BY DEF HandNewer
  <2>1. z # s /\ Giving(z) /\ out'[z] = out[z] /\ out[z].to \in Receivers /\ out[z].to # t
    BY <1>0, <1>3, <1>5, <1>o DEF GiversOK
  <2>2. got'[out[z].to] = got[out[z].to]
    BY <1>3, <2>1
  <2> QED BY <1>0, <2>1, <2>2 DEF HandNewer
<1>15. HandOnce'
  <2>1. \A y, z \in Senders : Giving(y)' /\ Giving(z)' /\ out'[y].val = out'[z].val => y = z
    BY <1>0, <1>3, <1>5 DEF HandOnce
  <2>2. \A z \in Senders, r \in Receivers : \A k \in DOMAIN got'[r] :
          Giving(z)' => got'[r][k] # out'[z].val
    BY <1>0, <1>3, <1>5, <1>8, <1>o DEF HandOnce
  <2> QED BY <2>1, <2>2 DEF HandOnce
<1>16. GotOnce'
  <2> SUFFICES ASSUME NEW r \in Receivers, NEW z \in Receivers,
                      NEW k \in DOMAIN got'[r], NEW l \in DOMAIN got'[z], got'[r][k] = got'[z][l]
               PROVE  r = z
    BY DEF GotOnce
  <2>1. CASE k \in DOMAIN got[r] /\ got'[r][k] = got[r][k]
    <3>1. CASE l \in DOMAIN got[z] /\ got'[z][l] = got[z][l]
      BY <1>0, <2>1, <3>1 DEF GotOnce
    <3>2. CASE z = t /\ got'[z][l] = v
      BY <1>h, <2>1, <3>2
    <3> QED BY <1>8, <3>1, <3>2
  <2>2. CASE r = t /\ got'[r][k] = v
    <3>1. CASE l \in DOMAIN got[z] /\ got'[z][l] = got[z][l]
      BY <1>h, <2>2, <3>1
    <3>2. CASE z = t
      BY <2>2, <3>2
    <3> QED BY <1>8, <3>1, <3>2
  <2> QED BY <1>8, <2>1, <2>2
<1>17. GotUp'
  <2> SUFFICES ASSUME NEW r \in Receivers, NEW k \in DOMAIN got'[r], NEW l \in DOMAIN got'[r], k < l
               PROVE  got'[r][k] < got'[r][l]
    BY DEF GotUp
  <2>1. CASE l \in DOMAIN got[r] /\ got'[r][l] = got[r][l]
    <3>1. ~(r = t /\ k = Len(got[t]) + 1)
      BY <1>a, <2>1
    <3> QED BY <1>0, <1>8, <2>1, <3>1 DEF GotUp
  <2>2. CASE r = t /\ l = Len(got[t]) + 1 /\ got'[r][l] = v
    <3>1. k # Len(got[t]) + 1
      BY <1>a, <2>2
    <3> QED BY <1>8, <1>h, <2>2, <3>1
  <2> QED BY <1>8, <2>1, <2>2
<1>18. Served'
  <2>1. Notifying' = Notifying
    BY <1>1, <1>3 DEF Notifying, Giving, Quiet
  <2>2. Notified' = Notified
    BY <1>2, <1>3 DEF Notified
  <2>3. \A r \in Threads : pc'[r] = "cv" <=> pc[r] = "cv"
    BY <1>2, <1>3
  <2> QED BY <1>0, <1>1, <2>1, <2>2, <2>3 DEF Served
<1>19. Fits'
  <2> SUFFICES ASSUME NEW r \in Receivers, NEW k \in DOMAIN got'[r] PROVE k <= got'[r][k]
    BY DEF Fits
  <2>1. CASE k \in DOMAIN got[r] /\ got'[r][k] = got[r][k]
    BY <1>0, <2>1 DEF Fits
  <2>2. CASE k = Len(got[t]) + 1 /\ got'[r][k] = v
    <3>1. CASE Len(got[t]) = 0
      BY <1>t, <1>2, <2>2, <3>1
    <3>2. CASE Len(got[t]) # 0
      <4>1. Len(got[t]) \in DOMAIN got[t]
        BY <1>t, <1>a, <3>2
      <4>2. Len(got[t]) <= got[t][Len(got[t])] /\ got[t][Len(got[t])] < v
        BY <1>0, <1>2, <1>h, <4>1 DEF Fits
      <4> QED BY <1>t, <1>a, <1>2, <2>2, <4>1, <4>2
    <3> QED BY <3>1, <3>2
  <2> QED BY <1>8, <2>1, <2>2
<1> QED BY <1>4, <1>6, <1>7, <1>10, <1>11, <1>12, <1>13, <1>14, <1>15, <1>16, <1>17, <1>18, <1>19
        DEF IInv, Linked, Order

LEMMA SendToQueueStep ==
  ASSUME Assumptions, IInv, NEW s \in Senders, SendToQueue(s)
  PROVE  IInv'
<1> USE CallerFacts
<1>0. /\ TypeOK /\ WaitersOK /\ GiversOK /\ Placed /\ Somewhere /\ Served
      /\ QueueUp /\ Newer /\ HandNewer /\ HandOnce /\ GotOnce /\ GotUp /\ Fits
  BY DEF IInv, Linked, Order
<1>t. /\ sent \in Nat /\ MaxSends \in Nat /\ queue \in Seq(Values)
      /\ \A r \in Receivers : \A k \in DOMAIN got[r] : got[r][k] \in Nat
      /\ \A z \in Senders : out[z].val \in Nat
  BY <1>0, TypeFacts
<1>1. /\ out[s].pc = "idle" /\ sent < MaxSends /\ waiters = <<>>
      /\ sent' = sent + 1 /\ queue' = Append(queue, sent + 1)
      /\ out' = [out EXCEPT ![s].pc = "notify"] /\ UNCHANGED <<waiters, pc, got>>
  BY DEF SendToQueue, CanSend
<1>2. /\ out'[s].pc = "notify" /\ out'[s].to = out[s].to /\ out'[s].val = out[s].val
      /\ \A z \in Senders : z # s => out'[z] = out[z]
  BY <1>0, <1>1 DEF TypeOK
<1>3. ~Giving(s) /\ ~Giving(s)' /\ \A z \in Senders : z # s => (Giving(z)' <=> Giving(z))
  BY <1>1, <1>2 DEF Giving
<1>4. sent + 1 \in Values
  BY <1>t, <1>1 DEF Values
<1>a. /\ queue' \in Seq(Values) /\ Len(queue) \in Nat /\ Len(queue') = Len(queue) + 1
      /\ DOMAIN queue' = DOMAIN queue \cup {Len(queue) + 1}
      /\ \A i \in DOMAIN queue : i \in Nat /\ i < Len(queue) + 1 /\ queue'[i] = queue[i]
      /\ queue'[Len(queue) + 1] = sent + 1
  BY <1>t, <1>1, <1>4, OneAppended
<1>5. TypeOK'
  <2>1. sent' \in 0 .. MaxSends
    BY <1>t, <1>1
  <2>2. out' \in [Senders -> [pc : {"idle", "wake", "notify"}, to : Tasks \cup {None}, val : 0 .. MaxSends]]
    BY <1>0, <1>1 DEF TypeOK
  <2>3. waiters' \in Seq(Tasks) /\ got' \in [Receivers -> Seq(Values)]
    BY <1>0, <1>1 DEF TypeOK
  <2>4. pc' \in [Receivers -> {"idle", "parked", "cv", "notified"}]
    BY <1>0, <1>1 DEF TypeOK
  <2> QED BY <1>a, <2>1, <2>2, <2>3, <2>4 DEF TypeOK
<1>6. Linked'
  BY <1>0, <1>1, <1>2, <1>3 DEF Linked, WaitersOK, GiversOK
\* What is queued now was queued before or is the value sent.
<1>7. \A i \in DOMAIN queue' : \/ i \in DOMAIN queue /\ queue'[i] = queue[i]
                               \/ i = Len(queue) + 1 /\ queue'[i] = sent + 1
  BY <1>a
<1>8. /\ \A i \in DOMAIN queue : queue[i] \in 1 .. sent
      /\ \A z \in Senders : Giving(z) => out[z].val \in 1 .. sent
      /\ \A r \in Receivers : \A k \in DOMAIN got[r] : got[r][k] \in 1 .. sent
  BY <1>0 DEF Placed
<1>9. Placed'
  <2>1. \A w \in 1 .. sent : w \in 1 .. sent'
    BY <1>t, <1>1
  <2>2. sent + 1 \in 1 .. sent'
    BY <1>t, <1>1
  <2> QED BY <1>1, <1>2, <1>3, <1>7, <1>8, <2>1, <2>2 DEF Placed
<1>10. Somewhere'
  <2> SUFFICES ASSUME NEW w \in 1 .. sent'
               PROVE  \/ \E i \in DOMAIN queue' : queue'[i] = w
                      \/ \E z \in Senders : Giving(z)' /\ out'[z].val = w
                      \/ \E r \in Receivers : \E k \in DOMAIN got'[r] : got'[r][k] = w
    BY DEF Somewhere
  <2>1. CASE w = sent + 1
    BY <1>a, <2>1
  <2>2. CASE w # sent + 1
    <3>1. w \in 1 .. sent
      BY <1>t, <1>1, <2>2
    <3> QED BY <1>0, <1>1, <1>2, <1>3, <1>a, <3>1 DEF Somewhere
  <2> QED BY <2>1, <2>2
<1>11. QueueUp'
  <2> SUFFICES ASSUME NEW i \in DOMAIN queue', NEW j \in DOMAIN queue', i < j
               PROVE  queue'[i] < queue'[j]
    BY DEF QueueUp
  <2>1. i \in DOMAIN queue /\ queue'[i] = queue[i]
    BY <1>7, <1>a
  <2>2. CASE j \in DOMAIN queue /\ queue'[j] = queue[j]
    BY <1>0, <2>1, <2>2 DEF QueueUp
  <2>3. CASE j = Len(queue) + 1 /\ queue'[j] = sent + 1
    BY <1>t, <1>8, <2>1, <2>3
  <2> QED BY <1>7, <2>2, <2>3
<1>12. Newer'
  <2>1. \A w \in 1 .. sent : w < sent + 1
    BY <1>t
  <2>2. \A i \in DOMAIN queue', z \in Senders : Giving(z)' => out'[z].val < queue'[i]
    BY <1>0, <1>2, <1>3, <1>7, <1>8, <2>1 DEF Newer
  <2>3. \A i \in DOMAIN queue', r \in Receivers : \A k \in DOMAIN got'[r] : got'[r][k] < queue'[i]
    BY <1>0, <1>1, <1>7, <1>8, <2>1 DEF Newer
  <2> QED BY <2>2, <2>3 DEF Newer
<1>13. HandNewer' /\ HandOnce' /\ GotOnce' /\ GotUp' /\ Fits'
  <2>1. HandNewer'
    BY <1>0, <1>1, <1>2, <1>3 DEF HandNewer
  <2>2. HandOnce'
    BY <1>0, <1>1, <1>2, <1>3 DEF HandOnce
  <2>3. GotOnce'
    BY <1>0, <1>1 DEF GotOnce
  <2>4. GotUp'
    BY <1>0, <1>1 DEF GotUp
  <2>5. Fits'
    BY <1>0, <1>1, <1>2, <1>3 DEF Fits
  <2> QED BY <2>1, <2>2, <2>3, <2>4, <2>5
<1>14. Served'
  <2>1. Notifying' = Notifying \cup {s} /\ s \notin Notifying
    BY <1>1, <1>2 DEF Notifying
  <2>2. Notified' = Notified
    BY <1>1 DEF Notified
  <2>3. IsFiniteSet(Notifying') /\ Cardinality(Notifying') = Cardinality(Notifying) + 1
    BY <1>0, <2>1, OneMore DEF Served
  <2>4. Cardinality(Notifying) \in Nat /\ Cardinality(Notified) \in Nat
    BY <1>0, FS_CardinalityType DEF Served
  <2> QED BY <1>0, <1>1, <1>a, <2>2, <2>3, <2>4 DEF Served
<1> QED BY <1>5, <1>6, <1>9, <1>10, <1>11, <1>12, <1>13, <1>14 DEF IInv, Order

LEMMA NotifyStep ==
  ASSUME Assumptions, IInv, NEW s \in Senders, Notify(s)
  PROVE  IInv'
<1> USE CallerFacts
<1>0. /\ TypeOK /\ WaitersOK /\ GiversOK /\ Placed /\ Somewhere /\ Served
      /\ QueueUp /\ Newer /\ HandNewer /\ HandOnce /\ GotOnce /\ GotUp /\ Fits
  BY DEF IInv, Linked, Order
<1>1. /\ out[s].pc = "notify" /\ out' = [out EXCEPT ![s] = Quiet]
      /\ UNCHANGED <<sent, queue, waiters, got>>
      /\ \/ (\A r \in Threads : pc[r] # "cv") /\ UNCHANGED pc
         \/ \E r \in Threads : pc[r] = "cv" /\ pc' = [pc EXCEPT ![r] = "notified"]
  BY DEF Notify
<1>2. out'[s] = Quiet /\ \A z \in Senders : z # s => out'[z] = out[z]
  BY <1>0, <1>1 DEF TypeOK
<1>3. ~Giving(s) /\ ~Giving(s)' /\ \A z \in Senders : z # s => (Giving(z)' <=> Giving(z))
  BY <1>1, <1>2 DEF Giving, Quiet
<1>4. TypeOK'
  <2>1. Quiet \in [pc : {"idle", "wake", "notify"}, to : Tasks \cup {None}, val : 0 .. MaxSends]
    BY DEF Quiet, Assumptions
  <2> QED BY <1>0, <1>1, <2>1 DEF TypeOK
<1>5. \A t \in Tasks : pc'[t] = pc[t]
  BY <1>0, <1>1 DEF TypeOK
<1>6. Linked'
  <2>1. \A i \in DOMAIN waiters : waiters[i] \in Tasks
    BY <1>0, TypeFacts
  <2>2. WaitersOK'
    BY <1>0, <1>1, <1>5, <2>1 DEF WaitersOK
  <2>3. GiversOK'
    BY <1>0, <1>1, <1>2, <1>3, <1>5 DEF GiversOK
  <2> QED BY <2>2, <2>3 DEF Linked
<1>7. Placed' /\ Somewhere'
  BY <1>0, <1>1, <1>2, <1>3 DEF Placed, Somewhere
<1>8. Order'
  BY <1>0, <1>1, <1>2, <1>3 DEF Order, QueueUp, Newer, HandNewer, HandOnce, GotOnce, GotUp, Fits
<1>9. Served'
  <2>1. Notifying' = Notifying \ {s} /\ s \in Notifying
    BY <1>1, <1>2 DEF Notifying, Quiet
  <2>2. IsFiniteSet(Notifying') /\ Cardinality(Notifying') = Cardinality(Notifying) - 1
    BY <1>0, <2>1, OneLess DEF Served
  <2>3. Cardinality(Notifying) \in Nat /\ Cardinality(Notified) \in Nat
    BY <1>0, FS_CardinalityType DEF Served
  <2>4. CASE (\A r \in Threads : pc[r] # "cv") /\ UNCHANGED pc
    BY <1>0, <1>1, <2>2, <2>4 DEF Served, Notified
  <2>5. ASSUME NEW r \in Threads, pc[r] = "cv", pc' = [pc EXCEPT ![r] = "notified"]
        PROVE  Served'
    <3>1. pc'[r] = "notified" /\ \A q \in Threads : q # r => pc'[q] = pc[q]
      BY <1>0, <2>5 DEF TypeOK
    <3>2. Notified' = Notified \cup {r} /\ r \notin Notified
      BY <2>5, <3>1 DEF Notified
    <3>3. IsFiniteSet(Notified') /\ Cardinality(Notified') = Cardinality(Notified) + 1
      BY <1>0, <3>2, OneMore DEF Served
    <3>4. Len(queue) <= Cardinality(Notifying) + Cardinality(Notified)
      BY <1>0, <2>5 DEF Served
    <3>5. Len(queue) \in Nat
      BY <1>0 DEF TypeOK
    <3>6. Len(queue') <= Cardinality(Notifying') + Cardinality(Notified')
      BY <1>1, <2>2, <2>3, <3>3, <3>4, <3>5
    <3>7. queue' # <<>> => waiters' = <<>>
      BY <1>0, <1>1 DEF Served
    <3> QED BY <2>2, <3>3, <3>6, <3>7 DEF Served
  <2> QED BY <1>1, <2>4, <2>5
<1> QED BY <1>4, <1>6, <1>7, <1>8, <1>9 DEF IInv

LEMMA TakeValueStep ==
  ASSUME Assumptions, IInv, NEW t \in Receivers, TakeValue(t)
  PROVE  IInv'
<1> USE CallerFacts
<1>0. /\ TypeOK /\ WaitersOK /\ GiversOK /\ Placed /\ Somewhere /\ Served
      /\ QueueUp /\ Newer /\ HandNewer /\ HandOnce /\ GotOnce /\ GotUp /\ Fits
  BY DEF IInv, Linked, Order
<1>t. /\ sent \in Nat /\ queue \in Seq(Values) /\ Values = 1 .. MaxSends
      /\ \A r \in Receivers : got[r] \in Seq(Values)
      /\ \A r \in Receivers : \A k \in DOMAIN got[r] : got[r][k] \in Nat
      /\ \A i \in DOMAIN queue : i \in Nat /\ queue[i] \in Nat
  BY <1>0, TypeFacts
<1> DEFINE v == Head(queue)
<1>1. /\ pc[t] \in {"idle", "notified"} /\ queue # <<>>
      /\ got' = [got EXCEPT ![t] = Append(@, v)] /\ queue' = Tail(queue)
      /\ pc' = [pc EXCEPT ![t] = "idle"] /\ UNCHANGED <<sent, waiters, out>>
  BY DEF TakeValue, Taken, Remaining
<1>v. v = Head(queue)
  OBVIOUS
<1> HIDE DEF v
<1>2. /\ v \in Values /\ v = queue[1] /\ 1 \in DOMAIN queue /\ Tail(queue) \in Seq(Values)
      /\ Len(queue) \in Nat /\ Len(Tail(queue)) = Len(queue) - 1
      /\ \A i \in DOMAIN Tail(queue) : /\ i + 1 \in DOMAIN queue /\ i \in Nat /\ 1 < i + 1
                                       /\ Tail(queue)[i] = queue[i + 1]
      /\ \A i \in DOMAIN queue : i = 1 \/ (i - 1 \in DOMAIN Tail(queue) /\ Tail(queue)[i - 1] = queue[i])
  <2>1. queue \in Seq(Values) /\ queue # <<>>
    BY <1>t, <1>1
  <2> QED BY <1>v, <2>1, HeadAndTail
<1>a. /\ Append(got[t], v) \in Seq(Values) /\ Len(got[t]) \in Nat
      /\ DOMAIN Append(got[t], v) = DOMAIN got[t] \cup {Len(got[t]) + 1}
      /\ \A i \in DOMAIN got[t] : i \in Nat /\ i < Len(got[t]) + 1 /\ Append(got[t], v)[i] = got[t][i]
      /\ Append(got[t], v)[Len(got[t]) + 1] = v
  <2>1. got[t] \in Seq(Values) /\ v \in Values
    BY <1>2, <1>t
  <2> QED BY <2>1, OneAppended
<1>3. /\ got'[t] = Append(got[t], v) /\ \A r \in Receivers : r # t => got'[r] = got[r]
      /\ pc'[t] = "idle" /\ \A r \in Receivers : r # t => pc'[r] = pc[r]
  BY <1>0, <1>1 DEF TypeOK
\* What is taken is older than the rest of the queue and newer than all else.
<1>4. /\ \A i \in DOMAIN queue' : v < queue'[i]
      /\ \A r \in Receivers : \A k \in DOMAIN got[r] : got[r][k] < v
      /\ \A s \in Senders : Giving(s) => out[s].val < v
  BY <1>0, <1>1, <1>2 DEF QueueUp, Newer
<1>5. /\ \A r \in Receivers : \A k \in DOMAIN got[r] : got[r][k] # v
      /\ \A s \in Senders : Giving(s) => out[s].val # v
  BY <1>0, <1>t, <1>2, <1>4, TypeFacts
<1>6. TypeOK'
  <2>1. got' \in [Receivers -> Seq(Values)]
    BY <1>0, <1>1, <1>a DEF TypeOK
  <2>2. queue' \in Seq(Values)
    BY <1>1, <1>2
  <2>3. sent' \in 0 .. MaxSends /\ waiters' \in Seq(Tasks)
    BY <1>0, <1>1 DEF TypeOK
  <2>4. pc' \in [Receivers -> {"idle", "parked", "cv", "notified"}]
    BY <1>0, <1>1 DEF TypeOK
  <2>5. out' \in [Senders -> [pc : {"idle", "wake", "notify"}, to : Tasks \cup {None}, val : 0 .. MaxSends]]
    BY <1>0, <1>1 DEF TypeOK
  <2> QED BY <2>1, <2>2, <2>3, <2>4, <2>5 DEF TypeOK
<1>7. \A s \in Senders : Giving(s)' <=> Giving(s)
  BY <1>1 DEF Giving
<1>p. \A r \in Receivers : pc[r] = "parked" => pc'[r] = "parked"
  BY <1>1, <1>3
<1>8. Linked'
  <2>1. \A i \in DOMAIN waiters : waiters[i] \in Receivers
    BY <1>0, TypeFacts
  <2>2. WaitersOK'
    BY <1>0, <1>1, <1>p, <2>1 DEF WaitersOK
  <2>3. GiversOK'
    BY <1>0, <1>1, <1>7, <1>p DEF GiversOK
  <2> QED BY <2>2, <2>3 DEF Linked
<1>9. \A r \in Receivers : \A k \in DOMAIN got'[r] :
        \/ k \in DOMAIN got[r] /\ got'[r][k] = got[r][k]
        \/ r = t /\ k = Len(got[t]) + 1 /\ got'[r][k] = v
  BY <1>3, <1>a
<1>10. /\ \A r \in Receivers : \A k \in DOMAIN got[r] : k \in DOMAIN got'[r] /\ got'[r][k] = got[r][k]
       /\ Len(got[t]) + 1 \in DOMAIN got'[t] /\ got'[t][Len(got[t]) + 1] = v
  BY <1>3, <1>a
<1>11. Placed'
  BY <1>0, <1>1, <1>2, <1>7, <1>9 DEF Placed
<1>12. Somewhere'
  <2> SUFFICES ASSUME NEW w \in 1 .. sent
               PROVE  \/ \E i \in DOMAIN queue' : queue'[i] = w
                      \/ \E s \in Senders : Giving(s)' /\ out'[s].val = w
                      \/ \E r \in Receivers : \E k \in DOMAIN got'[r] : got'[r][k] = w
    BY <1>1 DEF Somewhere
  <2>1. CASE \E i \in DOMAIN queue : queue[i] = w
    <3>1. PICK i \in DOMAIN queue : queue[i] = w
      BY <2>1
    <3>2. CASE i = 1
      BY <1>2, <1>10, <3>1, <3>2
    <3>3. CASE i # 1
      BY <1>1, <1>2, <3>1, <3>3
    <3> QED BY <3>2, <3>3
  <2>2. CASE \/ \E s \in Senders : Giving(s) /\ out[s].val = w
             \/ \E r \in Receivers : \E k \in DOMAIN got[r] : got[r][k] = w
    BY <1>1, <1>7, <1>10, <2>2
  <2> QED BY <1>0, <2>1, <2>2 DEF Somewhere
<1>13. QueueUp'
  BY <1>0, <1>1, <1>2 DEF QueueUp
<1>14. Newer'
  <2>1. \A i \in DOMAIN queue', s \in Senders : Giving(s)' => out'[s].val < queue'[i]
    BY <1>0, <1>1, <1>2, <1>7 DEF Newer
  <2>2. \A i \in DOMAIN queue', r \in Receivers : \A k \in DOMAIN got'[r] : got'[r][k] < queue'[i]
    BY <1>0, <1>1, <1>2, <1>4, <1>9 DEF Newer
  <2> QED BY <2>1, <2>2 DEF Newer
<1>15. HandNewer'
  <2> SUFFICES ASSUME NEW s \in Senders, Giving(s), NEW k \in DOMAIN got'[out[s].to]
               PROVE  got'[out[s].to][k] < out[s].val
    BY <1>1, <1>7 DEF HandNewer
  <2>1. out[s].to \in Receivers /\ out[s].to # t
    BY <1>0, <1>1 DEF GiversOK
  <2>2. got'[out[s].to] = got[out[s].to]
    BY <1>3, <2>1
  <2> QED BY <1>0, <2>2 DEF HandNewer
<1>16. HandOnce'
  <2>1. \A y, z \in Senders : Giving(y)' /\ Giving(z)' /\ out'[y].val = out'[z].val => y = z
    BY <1>0, <1>1, <1>7 DEF HandOnce
  <2>2. \A z \in Senders, r \in Receivers : \A k \in DOMAIN got'[r] :
          Giving(z)' => got'[r][k] # out'[z].val
    BY <1>0, <1>1, <1>5, <1>7, <1>9 DEF HandOnce
  <2> QED BY <2>1, <2>2 DEF HandOnce
<1>17. GotOnce'
  <2> SUFFICES ASSUME NEW r \in Receivers, NEW z \in Receivers,
                      NEW k \in DOMAIN got'[r], NEW l \in DOMAIN got'[z], got'[r][k] = got'[z][l]
               PROVE  r = z
    BY DEF GotOnce
  <2>1. CASE k \in DOMAIN got[r] /\ got'[r][k] = got[r][k]
    <3>1. CASE l \in DOMAIN got[z] /\ got'[z][l] = got[z][l]
      BY <1>0, <2>1, <3>1 DEF GotOnce
    <3>2. CASE z = t /\ got'[z][l] = v
      BY <1>5, <2>1, <3>2
    <3> QED BY <1>9, <3>1, <3>2
  <2>2. CASE r = t /\ got'[r][k] = v
    <3>1. CASE l \in DOMAIN got[z] /\ got'[z][l] = got[z][l]
      BY <1>5, <2>2, <3>1
    <3>2. CASE z = t
      BY <2>2, <3>2
    <3> QED BY <1>9, <3>1, <3>2
  <2> QED BY <1>9, <2>1, <2>2
<1>18. GotUp'
  <2> SUFFICES ASSUME NEW r \in Receivers, NEW k \in DOMAIN got'[r], NEW l \in DOMAIN got'[r], k < l
               PROVE  got'[r][k] < got'[r][l]
    BY DEF GotUp
  <2>1. CASE l \in DOMAIN got[r] /\ got'[r][l] = got[r][l]
    <3>1. ~(r = t /\ k = Len(got[t]) + 1)
      BY <1>a, <2>1
    <3> QED BY <1>0, <1>9, <2>1, <3>1 DEF GotUp
  <2>2. CASE r = t /\ l = Len(got[t]) + 1 /\ got'[r][l] = v
    <3>1. k # Len(got[t]) + 1
      BY <1>a, <2>2
    <3> QED BY <1>9, <1>4, <2>2, <3>1
  <2> QED BY <1>9, <2>1, <2>2
<1>19. Served'
  <2>1. Notifying' = Notifying
    BY <1>1 DEF Notifying
  <2>2. Cardinality(Notifying) \in Nat /\ Cardinality(Notified) \in Nat
    BY <1>0, FS_CardinalityType DEF Served
  <2>3. waiters' = <<>>
    BY <1>0, <1>1 DEF Served
  <2>4. \A r \in Threads : pc'[r] = "cv" => pc[r] = "cv"
    BY <1>3
  <2>5. Len(queue') = Len(queue) - 1
    BY <1>1, <1>2
  <2>6. CASE t \in Notified
    <3>1. Notified' = Notified \ {t}
      BY <1>3, <2>6 DEF Notified
    <3>2. IsFiniteSet(Notified') /\ Cardinality(Notified') = Cardinality(Notified) - 1
      BY <1>0, <2>6, <3>1, OneLess DEF Served
    <3> QED BY <1>0, <1>2, <2>1, <2>2, <2>3, <2>4, <2>5, <3>2 DEF Served
  <2>7. CASE t \notin Notified
    <3>1. Notified' = Notified
      BY <1>3, <2>7 DEF Notified
    <3> QED BY <1>0, <1>2, <2>1, <2>2, <2>3, <2>4, <2>5, <3>1 DEF Served
  <2> QED BY <2>6, <2>7
<1>20. Fits'
  <2> SUFFICES ASSUME NEW r \in Receivers, NEW k \in DOMAIN got'[r] PROVE k <= got'[r][k]
    BY DEF Fits
  <2>1. CASE k \in DOMAIN got[r] /\ got'[r][k] = got[r][k]
    BY <1>0, <2>1 DEF Fits
  <2>2. CASE k = Len(got[t]) + 1 /\ got'[r][k] = v
    <3>1. CASE Len(got[t]) = 0
      BY <1>t, <1>2, <2>2, <3>1
    <3>2. CASE Len(got[t]) # 0
      <4>1. Len(got[t]) \in DOMAIN got[t]
        BY <1>t, <1>a, <3>2
      <4>2. Len(got[t]) <= got[t][Len(got[t])] /\ got[t][Len(got[t])] < v
        BY <1>0, <1>2, <1>4, <4>1 DEF Fits
      <4> QED BY <1>t, <1>a, <1>2, <2>2, <4>1, <4>2
    <3> QED BY <3>1, <3>2
  <2> QED BY <1>9, <2>1, <2>2
<1> QED BY <1>6, <1>8, <1>11, <1>12, <1>13, <1>14, <1>15, <1>16, <1>17, <1>18, <1>19, <1>20
        DEF IInv, Order

LEMMA ParkTaskStep ==
  ASSUME Assumptions, IInv, NEW t \in Receivers, ParkTask(t)
  PROVE  IInv'
<1> USE CallerFacts
<1>0. /\ TypeOK /\ WaitersOK /\ GiversOK /\ Placed /\ Somewhere /\ Served
      /\ QueueUp /\ Newer /\ HandNewer /\ HandOnce /\ GotOnce /\ GotUp /\ Fits
  BY DEF IInv, Linked, Order
<1>1. /\ t \in Tasks /\ pc[t] = "idle" /\ queue = <<>> /\ waiters' = Append(waiters, t)
      /\ pc' = [pc EXCEPT ![t] = "parked"] /\ UNCHANGED <<sent, queue, got, out>>
  BY DEF ParkTask
<1>2. pc'[t] = "parked" /\ \A r \in Receivers : r # t => pc'[r] = pc[r]
  BY <1>0, <1>1 DEF TypeOK
<1>a. /\ waiters' \in Seq(Tasks) /\ Len(waiters) \in Nat
      /\ DOMAIN waiters' = DOMAIN waiters \cup {Len(waiters) + 1}
      /\ \A i \in DOMAIN waiters : waiters'[i] = waiters[i]
      /\ waiters'[Len(waiters) + 1] = t
  <2>1. waiters \in Seq(Tasks)
    BY <1>0 DEF TypeOK
  <2> QED BY <1>1, <2>1, OneAppended
<1>3. TypeOK'
  <2>1. pc' \in [Receivers -> {"idle", "parked", "cv", "notified"}]
    BY <1>0, <1>1 DEF TypeOK
  <2> QED BY <1>0, <1>1, <1>a, <2>1 DEF TypeOK
<1>4. /\ \A i \in DOMAIN waiters : waiters[i] # t
      /\ \A s \in Senders : Giving(s) => out[s].to # t
  BY <1>0, <1>1 DEF WaitersOK, GiversOK
<1>5. \A i \in DOMAIN waiters' : \/ i \in DOMAIN waiters /\ waiters'[i] = waiters[i]
                                 \/ i = Len(waiters) + 1 /\ waiters'[i] = t
  BY <1>a
<1>6. \A s \in Senders : Giving(s)' <=> Giving(s)
  BY <1>1 DEF Giving
<1>7. Linked'
  <2>1. \A i \in DOMAIN waiters' : pc'[waiters'[i]] = "parked"
    <3>1. \A i \in DOMAIN waiters : waiters[i] \in Receivers /\ pc[waiters[i]] = "parked"
      BY <1>0, TypeFacts DEF WaitersOK
    <3> QED BY <1>2, <1>4, <1>5, <3>1
  <2>2. \A i, j \in DOMAIN waiters' : waiters'[i] = waiters'[j] => i = j
    BY <1>0, <1>4, <1>5 DEF WaitersOK
  <2>3. GiversOK'
    BY <1>0, <1>1, <1>2, <1>4, <1>5, <1>6 DEF GiversOK
  <2> QED BY <2>1, <2>2, <2>3 DEF Linked, WaitersOK
<1>8. Placed' /\ Somewhere' /\ Order'
  <2>1. Placed'
    BY <1>0, <1>1, <1>6 DEF Placed
  <2>2. Somewhere'
    BY <1>0, <1>1, <1>6 DEF Somewhere
  <2>3. QueueUp' /\ Newer'
    BY <1>0, <1>1, <1>6 DEF QueueUp, Newer
  <2>4. HandNewer' /\ HandOnce'
    BY <1>0, <1>1, <1>6 DEF HandNewer, HandOnce
  <2>5. GotOnce' /\ GotUp' /\ Fits'
    BY <1>0, <1>1 DEF GotOnce, GotUp, Fits
  <2> QED BY <2>1, <2>2, <2>3, <2>4, <2>5 DEF Order
<1>9. Served'
  <2>1. Notifying' = Notifying /\ Notified' = Notified
    BY <1>1, <1>2 DEF Notifying, Notified
  <2>2. \A r \in Threads : pc'[r] = pc[r]
    BY <1>1, <1>2
  <2> QED BY <1>0, <1>1, <2>1, <2>2 DEF Served
<1> QED BY <1>3, <1>7, <1>8, <1>9 DEF IInv

LEMMA WaitThreadStep ==
  ASSUME Assumptions, IInv, NEW t \in Receivers, WaitThread(t)
  PROVE  IInv'
<1> USE CallerFacts
<1>0. /\ TypeOK /\ WaitersOK /\ GiversOK /\ Placed /\ Somewhere /\ Served
      /\ QueueUp /\ Newer /\ HandNewer /\ HandOnce /\ GotOnce /\ GotUp /\ Fits
  BY DEF IInv, Linked, Order
<1>1. /\ t \in Threads /\ pc[t] \in {"idle", "notified"} /\ queue = <<>>
      /\ pc' = [pc EXCEPT ![t] = "cv"] /\ UNCHANGED <<sent, queue, waiters, got, out>>
  BY DEF WaitThread
<1>2. pc'[t] = "cv" /\ \A r \in Receivers : r # t => pc'[r] = pc[r]
  BY <1>0, <1>1 DEF TypeOK
<1>3. TypeOK'
  <2>1. pc' \in [Receivers -> {"idle", "parked", "cv", "notified"}]
    BY <1>0, <1>1 DEF TypeOK
  <2> QED BY <1>0, <1>1, <2>1 DEF TypeOK
<1>4. \A s \in Senders : Giving(s)' <=> Giving(s)
  BY <1>1 DEF Giving
<1>5. Linked'
  <2>1. \A i \in DOMAIN waiters : waiters[i] \in Tasks
    BY <1>0, TypeFacts
  <2>2. \A r \in Tasks : pc'[r] = pc[r]
    BY <1>1, <1>2
  <2>3. WaitersOK'
    BY <1>0, <1>1, <2>1, <2>2 DEF WaitersOK
  <2>4. GiversOK'
    BY <1>0, <1>1, <1>4, <2>2 DEF GiversOK
  <2> QED BY <2>3, <2>4 DEF Linked
<1>6. Placed' /\ Somewhere' /\ Order'
  <2>1. Placed'
    BY <1>0, <1>1, <1>4 DEF Placed
  <2>2. Somewhere'
    BY <1>0, <1>1, <1>4 DEF Somewhere
  <2>3. QueueUp' /\ Newer'
    BY <1>0, <1>1, <1>4 DEF QueueUp, Newer
  <2>4. HandNewer' /\ HandOnce'
    BY <1>0, <1>1, <1>4 DEF HandNewer, HandOnce
  <2>5. GotOnce' /\ GotUp' /\ Fits'
    BY <1>0, <1>1 DEF GotOnce, GotUp, Fits
  <2> QED BY <2>1, <2>2, <2>3, <2>4, <2>5 DEF Order
<1>7. Served'
  <2>1. Notifying' = Notifying
    BY <1>1 DEF Notifying
  <2>2. Notified' = Notified \ {t}
    BY <1>2 DEF Notified
  <2>3. IsFiniteSet(Notified')
    BY <1>0, <2>2, FS_Difference DEF Served
  <2>4. Cardinality(Notifying) \in Nat /\ Cardinality(Notified') \in Nat
    BY <1>0, <2>3, FS_CardinalityType DEF Served
  <2>5. Len(queue') = 0
    BY <1>1, NoneQueued
  <2> QED BY <1>0, <1>1, <2>1, <2>3, <2>4, <2>5 DEF Served
<1> QED BY <1>3, <1>5, <1>6, <1>7 DEF IInv

LEMMA Invariance == ASSUME Assumptions PROVE Spec => []IInv
<1>1. Init => IInv
  BY InitInv
<1>2. IInv /\ [Next]_vars => IInv'
  <2> SUFFICES ASSUME IInv, [Next]_vars PROVE IInv'
    OBVIOUS
  <2>1. CASE \E s \in Senders : Send(s) \/ Finish(s)
    BY <2>1, SendToWaiterStep, SendToQueueStep, InjectStep, NotifyStep DEF Send, Finish
  <2>2. CASE \E r \in Receivers : Receive(r)
    BY <2>2, TakeValueStep, ParkTaskStep, WaitThreadStep DEF Receive
  <2>3. CASE UNCHANGED vars
    BY <2>3 DEF vars, IInv, TypeOK, Linked, WaitersOK, GiversOK, Placed, Somewhere, Order, QueueUp,
                Newer, HandNewer, HandOnce, GotOnce, GotUp, Fits, Served, Giving, Notifying, Notified
  <2> QED BY <2>1, <2>2, <2>3 DEF Next
<1> QED BY <1>1, <1>2, PTL DEF Spec

-----------------------------------------------------------------------------
(* What follows *)

\* Every variable of the channel keeps to its type.
THEOREM TypeCorrect == ASSUME Assumptions PROVE Spec => []TypeOK
<1>1. IInv => TypeOK
  BY DEF IInv
<1> QED BY <1>1, Invariance, PTL

\* Each receiver gets values in the order of the sends, and the hand-over to a
\* parked task never overtakes the queue (concurrency.rs:460-559).
THEOREM ReceivedInOrderOfSends ==
  ASSUME Assumptions
  PROVE  Spec => [](ReceivedInOrder /\ QueueIsNewest)
<1>1. IInv => ReceivedInOrder /\ QueueIsNewest
  BY DEF IInv, Order, GotUp, Newer, ReceivedInOrder, QueueIsNewest, Entries, Giving
<1> QED BY <1>1, Invariance, PTL

\* A task is not parked beside a queued value, nor are all threads asleep beside one
\* with no notification under way.
THEOREM NoValueIsMissed == ASSUME Assumptions PROVE Spec => []NoMissedValue
<1>1. IInv => NoMissedValue
  <2> SUFFICES ASSUME TypeOK, Served, queue # <<>>, \E r \in Threads : pc[r] = "cv"
               PROVE  (\E s \in Senders : out[s].pc = "notify") \/ (\E r \in Threads : pc[r] = "notified")
    BY DEF IInv, NoMissedValue, Served
  <2>1. Len(queue) > 0
    BY DEF TypeOK
  <2>2. CASE Notifying = {} /\ Notified = {}
    BY <2>1, <2>2, FS_EmptySet DEF Served, TypeOK
  <2>3. CASE Notifying # {} \/ Notified # {}
    BY <2>3 DEF Notifying, Notified
  <2> QED BY <2>2, <2>3
<1> QED BY <1>1, Invariance, PTL

\* A set with at most one element has the cardinality that says whether it has one.
LEMMA AtMostOne ==
  ASSUME NEW S, \A x, y \in S : x = y
  PROVE  /\ S = {} => Cardinality(S) = 0
         /\ S # {} => Cardinality(S) = 1
<1>1. S = {} => Cardinality(S) = 0
  BY FS_EmptySet
<1>2. ASSUME S # {} PROVE Cardinality(S) = 1
  <2>1. PICK x \in S : TRUE
    BY <1>2
  <2>2. S = {x}
    BY <2>1
  <2> QED BY <2>2, FS_Singleton
<1> QED BY <1>1, <1>2

\* Every value that was sent is in the queue, on its way to one task, or received
\* once; none is lost, none is delivered twice (concurrency.rs:460-559).
THEOREM DeliveredOnce == ASSUME Assumptions PROVE Spec => []ExactlyOnce
<1>1. IInv => ExactlyOnce
  <2> SUFFICES ASSUME IInv, NEW v \in Values
               PROVE  Occurrences(v) = IF v <= sent THEN 1 ELSE 0
    BY DEF ExactlyOnce
  <2>0. TypeOK /\ Placed /\ Somewhere /\ QueueUp /\ Newer /\ HandOnce /\ GotOnce /\ GotUp /\ Fits
    BY DEF IInv, Order
  <2>t. /\ sent \in Nat /\ sent <= MaxSends /\ v \in Nat /\ v >= 1
        /\ \A i \in DOMAIN queue : i \in Nat /\ queue[i] \in Nat
        /\ \A r \in Receivers : got[r] \in Seq(Values)
        /\ \A r \in Receivers : \A k \in DOMAIN got[r] : k \in Nat /\ got[r][k] \in Nat
    BY <2>0, TypeFacts DEF Values
  <2> DEFINE A == {i \in DOMAIN queue : queue[i] = v}
             B == {s \in Senders : out[s].pc = "wake" /\ out[s].val = v}
             C == {at \in Receivers \X Values : at[2] \in DOMAIN got[at[1]] /\ got[at[1]][at[2]] = v}
  <2>1. \A i, j \in A : i = j
    BY <2>0, <2>t DEF QueueUp
  <2>2. \A s, z \in B : s = z
    BY <2>0 DEF HandOnce, Giving
  <2>3. \A a, b \in C : a = b
    <3> SUFFICES ASSUME NEW a \in C, NEW b \in C PROVE a = b
      OBVIOUS
    <3>1. a[1] = b[1]
      BY <2>0 DEF GotOnce
    <3>2. a[2] = b[2]
      BY <2>0, <2>t, <3>1 DEF GotUp
    <3> QED BY <3>1, <3>2
  <2>4. A # {} => B = {} /\ C = {}
    <3>1. \A i \in A, s \in B : FALSE
      BY <2>0, <2>t DEF Newer, Giving
    <3>2. \A i \in A, a \in C : FALSE
      BY <2>0, <2>t DEF Newer
    <3> QED BY <3>1, <3>2
  <2>5. B # {} => C = {}
    <3>1. \A s \in B, a \in C : FALSE
      BY <2>0 DEF HandOnce, Giving
    <3> QED BY <3>1
  <2>6. v <= sent => A # {} \/ B # {} \/ C # {}
    <3> SUFFICES ASSUME v <= sent PROVE A # {} \/ B # {} \/ C # {}
      OBVIOUS
    <3>1. v \in 1 .. sent
      BY <2>t
    <3>2. CASE \E i \in DOMAIN queue : queue[i] = v
      BY <3>2
    <3>3. CASE \E s \in Senders : Giving(s) /\ out[s].val = v
      BY <3>3 DEF Giving
    <3>4. CASE \E r \in Receivers : \E k \in DOMAIN got[r] : got[r][k] = v
      <4>0. PICK r \in Receivers : \E k \in DOMAIN got[r] : got[r][k] = v
        BY <3>4
      <4>1. PICK k \in DOMAIN got[r] : got[r][k] = v
        BY <4>0
      <4>2. k \in Values
        BY <2>0, <2>t, <4>1 DEF Fits, Values, TypeOK, Assumptions, Placed
      <4>3. <<r, k>> \in C
        BY <4>1, <4>2
      <4> QED BY <4>3
    <3> QED BY <2>0, <3>1, <3>2, <3>3, <3>4 DEF Somewhere
  <2>7. A # {} \/ B # {} \/ C # {} => v <= sent
    BY <2>0, <2>t DEF Placed, Giving
  <2>8. Occurrences(v) = Cardinality(A) + Cardinality(B) + Cardinality(C)
    BY DEF Occurrences
  <2>9. /\ A = {} => Cardinality(A) = 0
        /\ A # {} => Cardinality(A) = 1
    BY <2>1, AtMostOne, Zenon
  <2>10. /\ B = {} => Cardinality(B) = 0
         /\ B # {} => Cardinality(B) = 1
    BY <2>2, AtMostOne, Zenon
  <2>11. /\ C = {} => Cardinality(C) = 0
         /\ C # {} => Cardinality(C) = 1
    BY <2>3, AtMostOne, Zenon
  <2> HIDE DEF A, B, C
  <2> QED BY <2>4, <2>5, <2>6, <2>7, <2>8, <2>9, <2>10, <2>11
<1> QED BY <1>1, Invariance, PTL
=============================================================================
