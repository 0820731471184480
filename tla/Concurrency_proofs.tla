-------------------------- MODULE Concurrency_proofs --------------------------
(***************************************************************************)
(* Theorems about the blocking objects side by side, for any sets of tasks *)
(* and threads and any bounds: each invariant that the runs check holds.   *)
(*                                                                         *)
(* A behaviour of Concurrency is a behaviour of each object (the ...Spec   *)
(* lemmas), so what is proved of the object holds here.  The proofs about  *)
(* Channel are in a module of their own, the others in this one.           *)
(***************************************************************************)
EXTENDS Concurrency, Integers, SequenceTheorems, FiniteSetTheorems, TLAPS

CP == INSTANCE Channel_proofs WITH
  sent <- ch_sent, queue <- ch_queue, waiters <- ch_waiters, pc <- ch_pc,
  got <- ch_got, out <- ch_out
-----------------------------------------------------------------------------
(* Semaphore.  That permits are conserved is not inductive: a wake-up overwrites *)
(* the place of the task it carries, so that task must be parked, not a holder,  *)
(* and there must not be two wake-ups for it (SemLinked).  The bounds on the     *)
(* permits left count callers, so the sets counted must stay finite, which they  *)
(* do without the sets of callers being so.                                      *)

\* The instance counts as the library of proved facts does.
LEMMA SemCardinality == \A S : Sem!Cardinality(S) = Cardinality(S)
BY Zenon DEF Sem!Cardinality, Cardinality

\* The queue holds parked tasks, each once.
SemQueueOK ==
  /\ \A i \in DOMAIN sem_waiters : sem_pc[sem_waiters[i]] = "parked"
  /\ \A i, j \in DOMAIN sem_waiters : sem_waiters[i] = sem_waiters[j] => i = j

\* A wake-up under way is for a parked task that has left the queue, and no two
\* are for the same task.
SemWakingOK ==
  /\ \A p \in Sem!Procs : sem_waking[p] # None => sem_pc[p] = "wake" /\ sem_pc[sem_waking[p]] = "parked"
  /\ \A p \in Sem!Procs, i \in DOMAIN sem_waiters : sem_waiters[i] # sem_waking[p]
  /\ \A p, q \in Sem!Procs : sem_waking[p] = sem_waking[q] /\ sem_waking[p] # None => p = q

\* Every parked task is queued or being woken.
SemParkedOK ==
  \A t \in Tasks : sem_pc[t] = "parked" =>
    \/ \E i \in DOMAIN sem_waiters : sem_waiters[i] = t
    \/ \E p \in Sem!Procs : sem_waking[p] = t

SemLinked == SemQueueOK /\ SemWakingOK

SemConserved == IsFiniteSet(Sem!Holders) /\ sem_count + Cardinality(Sem!Holders) = Permits

\* Tasks are not left behind; threads are not.
SemTasksOK   == IsFiniteSet(Sem!Coming) /\ Sem!NoTaskLeftBehind
SemThreadsOK == IsFiniteSet(Sem!ComingThreads) /\ Sem!NoThreadLeftBehind

SemIInv == Sem!TypeOK /\ SemLinked /\ SemParkedOK /\ SemConserved /\ SemTasksOK /\ SemThreadsOK

-----------------------------------------------------------------------------
(* Facts used in several steps: queues of tasks, sets of callers. *)

\* None is nobody, and tasks are callers.
LEMMA SemCallerFacts ==
  /\ None \notin Sem!Procs
  /\ Tasks \subseteq Sem!Procs /\ Threads \subseteq Sem!Procs
  /\ \A t \in Tasks : t \notin Threads
BY CallersAssumption DEF Sem!Procs

\* The head of a queue of tasks without repetitions is not in its tail.
LEMMA Dequeue ==
  ASSUME NEW s \in Seq(Tasks), s # <<>>,
         \A i, j \in DOMAIN s : s[i] = s[j] => i = j
  PROVE  /\ Head(s) \in Tasks /\ Head(s) = s[1] /\ 1 \in DOMAIN s
         /\ Tail(s) \in Seq(Tasks)
         /\ \A i \in DOMAIN Tail(s) : /\ i + 1 \in DOMAIN s
                                      /\ Tail(s)[i] = s[i + 1]
                                      /\ Tail(s)[i] # Head(s)
         /\ \A i, j \in DOMAIN Tail(s) : Tail(s)[i] = Tail(s)[j] => i = j
         /\ \A i \in DOMAIN s : i = 1 \/ (i - 1 \in DOMAIN Tail(s) /\ Tail(s)[i - 1] = s[i])
<1>1. /\ Head(s) \in Tasks /\ Head(s) = s[1] /\ 1 \in DOMAIN s
      /\ Tail(s) \in Seq(Tasks)
      /\ \A i \in DOMAIN Tail(s) : i \in Nat /\ i + 1 \in DOMAIN s /\ Tail(s)[i] = s[i + 1]
  OBVIOUS
<1>2. \A i \in DOMAIN Tail(s) : Tail(s)[i] # Head(s)
  <2> SUFFICES ASSUME NEW i \in DOMAIN Tail(s), s[i + 1] = s[1]
               PROVE  FALSE
    BY <1>1
  <2> i + 1 = 1 BY <1>1
  <2> QED BY <1>1, SMT
<1>3. ASSUME NEW i \in DOMAIN Tail(s), NEW j \in DOMAIN Tail(s), Tail(s)[i] = Tail(s)[j]
      PROVE  i = j
  <2> i + 1 = j + 1 BY <1>1, <1>3
  <2> QED BY <1>1
<1>4. ASSUME NEW i \in DOMAIN s, i # 1
      PROVE  i - 1 \in DOMAIN Tail(s) /\ Tail(s)[i - 1] = s[i]
  BY <1>4
<1> QED BY <1>1, <1>2, <1>3, <1>4

\* A new entry at the tail of such a queue.
LEMMA Enqueued ==
  ASSUME NEW s \in Seq(Tasks), NEW t \in Tasks,
         \A i, j \in DOMAIN s : s[i] = s[j] => i = j,
         \A i \in DOMAIN s : s[i] # t
  PROVE  /\ Append(s, t) \in Seq(Tasks) /\ Append(s, t) # <<>>
         /\ \A i \in DOMAIN Append(s, t) :
              \/ i \in DOMAIN s /\ Append(s, t)[i] = s[i]
              \/ i = Len(s) + 1 /\ Append(s, t)[i] = t
         /\ \A i \in DOMAIN s : i \in DOMAIN Append(s, t) /\ Append(s, t)[i] = s[i]
         /\ \E i \in DOMAIN Append(s, t) : Append(s, t)[i] = t
         /\ \A i, j \in DOMAIN Append(s, t) : Append(s, t)[i] = Append(s, t)[j] => i = j
<1>1. /\ Append(s, t) \in Seq(Tasks) /\ Append(s, t) # <<>>
      /\ \A i \in DOMAIN Append(s, t) :
              \/ i \in DOMAIN s /\ Append(s, t)[i] = s[i]
              \/ i = Len(s) + 1 /\ Append(s, t)[i] = t
      /\ \A i \in DOMAIN s : i \in DOMAIN Append(s, t) /\ Append(s, t)[i] = s[i]
  OBVIOUS
<1>2. \E i \in DOMAIN Append(s, t) : Append(s, t)[i] = t
  <2>1. Len(s) + 1 \in DOMAIN Append(s, t) /\ Append(s, t)[Len(s) + 1] = t
    OBVIOUS
  <2> QED BY <2>1
<1> QED BY <1>1, <1>2, Zenon

\* One more or one less in a finite set.
LEMMA OneMore ==
  ASSUME NEW S, IsFiniteSet(S), NEW x, x \notin S
  PROVE  IsFiniteSet(S \cup {x}) /\ Cardinality(S \cup {x}) = Cardinality(S) + 1
BY FS_AddElement

LEMMA OneLess ==
  ASSUME NEW S, IsFiniteSet(S), NEW x \in S
  PROVE  /\ IsFiniteSet(S \ {x})
         /\ Cardinality(S \ {x}) = Cardinality(S) - 1
         /\ Cardinality(S) \in Nat /\ Cardinality(S) > 0
BY FS_RemoveElement, FS_CardinalityType, FS_EmptySet

-----------------------------------------------------------------------------
(* The semaphore's invariant is inductive. *)

\* In the initial state every permit is left and nobody waits.
LEMMA SemInitInv == ASSUME Permits \in Nat, Sem!Init PROVE SemIInv
<1> USE SemCallerFacts
<1>1. Sem!TypeOK
  <2>1. sem_waiters \in Seq(Tasks) /\ sem_count \in Nat
    BY DEF Sem!Init
  <2>2. sem_pc \in [Sem!Procs -> Sem!Pcs] /\ sem_waking \in [Sem!Procs -> Tasks \cup {None}]
    BY DEF Sem!Init, Sem!Pcs
  <2> QED BY <2>1, <2>2 DEF Sem!TypeOK
<1>2. DOMAIN sem_waiters = {} /\ sem_waiters = <<>>
  BY DEF Sem!Init
<1>3. SemLinked /\ SemParkedOK
  BY <1>2 DEF Sem!Init, SemLinked, SemQueueOK, SemWakingOK, SemParkedOK
<1>4. Sem!Holders = {} /\ Sem!Coming = {} /\ Sem!ComingThreads = {}
  BY DEF Sem!Init, Sem!Holders, Sem!Coming, Sem!ComingThreads
<1>5. SemConserved
  BY <1>4, FS_EmptySet DEF Sem!Init, SemConserved
<1>6. SemTasksOK /\ SemThreadsOK
  BY SemCardinality, <1>2, <1>4, FS_EmptySet DEF Sem!Init, SemTasksOK, SemThreadsOK, Sem!NoTaskLeftBehind, Sem!NoThreadLeftBehind
<1> QED BY <1>1, <1>3, <1>5, <1>6 DEF SemIInv

\* Every step keeps the variables to their types.
LEMMA SemTypeStep == Sem!TypeOK /\ [Sem!Next]_(Sem!vars) => Sem!TypeOK'
<1> SUFFICES ASSUME Sem!TypeOK, [Sem!Next]_(Sem!vars) PROVE Sem!TypeOK'
  OBVIOUS
<1> USE SemCallerFacts
<1>1. ASSUME NEW p \in Sem!Procs, Sem!Acquire(p) PROVE Sem!TypeOK'
  BY <1>1 DEF Sem!Acquire, Sem!PermitLeft, Sem!TypeOK, Sem!Pcs
<1>2. ASSUME NEW p \in Sem!Procs, Sem!ParkTask(p) PROVE Sem!TypeOK'
  BY <1>2 DEF Sem!ParkTask, Sem!TypeOK, Sem!Pcs
<1>3. ASSUME NEW p \in Sem!Procs, Sem!WaitThread(p) PROVE Sem!TypeOK'
  BY <1>3 DEF Sem!WaitThread, Sem!TypeOK, Sem!Pcs
<1>4. ASSUME NEW p \in Sem!Procs, Sem!Release(p) PROVE Sem!TypeOK'
  <2>1. Sem!FirstWaiter \in Tasks \cup {None} /\ sem_waiters' \in Seq(Tasks)
    BY <1>4 DEF Sem!Release, Sem!FirstWaiter, Sem!TypeOK
  <2> QED BY <1>4, <2>1 DEF Sem!Release, Sem!TypeOK, Sem!Pcs
<1>5. ASSUME NEW p \in Sem!Procs, Sem!WakeTask(p) PROVE Sem!TypeOK'
  BY <1>5 DEF Sem!WakeTask, Sem!TypeOK, Sem!Pcs
<1>6. ASSUME NEW p \in Sem!Procs, Sem!NotifyOne(p) PROVE Sem!TypeOK'
  BY <1>6 DEF Sem!NotifyOne, Sem!TypeOK, Sem!Pcs
<1>7. CASE UNCHANGED Sem!vars
  BY <1>7 DEF Sem!vars, Sem!TypeOK
<1> QED BY <1>1, <1>2, <1>3, <1>4, <1>5, <1>6, <1>7 DEF Sem!Next, Sem!Step

\* What a step of semRelease does to the queue and the wake-ups.
LEMMA SemReleaseFacts ==
  ASSUME Sem!TypeOK, SemLinked, NEW p \in Sem!Procs, Sem!Release(p)
  PROVE  /\ sem_pc[p] = "holding" /\ sem_count' = sem_count + 1
         /\ sem_pc' = [sem_pc EXCEPT ![p] = "wake"]
         /\ sem_waking[p] = None
         /\ \/ sem_waiters = <<>> /\ sem_waiters' = <<>> /\ UNCHANGED sem_waking
            \/ /\ sem_waiters # <<>>
               /\ sem_waking' = [sem_waking EXCEPT ![p] = Head(sem_waiters)]
               /\ Head(sem_waiters) \in Tasks /\ sem_pc[Head(sem_waiters)] = "parked"
<1>1. /\ sem_pc[p] = "holding" /\ sem_count' = sem_count + 1
      /\ sem_pc' = [sem_pc EXCEPT ![p] = "wake"]
      /\ sem_waking' = [sem_waking EXCEPT ![p] = Sem!FirstWaiter]
  BY DEF Sem!Release
<1>2. sem_waking[p] = None
  BY <1>1 DEF SemLinked, SemWakingOK
<1>3. CASE sem_waiters = <<>>
  <2>1. sem_waiters' = <<>> /\ Sem!FirstWaiter = None
    BY <1>3 DEF Sem!Release, Sem!FirstWaiter
  <2>2. sem_waking' = sem_waking
    BY <1>1, <1>2, <2>1 DEF Sem!TypeOK
  <2> QED BY <1>1, <1>2, <1>3, <2>1, <2>2
<1>4. CASE sem_waiters # <<>>
  BY <1>1, <1>2, <1>4, Dequeue DEF Sem!FirstWaiter, Sem!TypeOK, SemLinked, SemQueueOK
<1> QED BY <1>3, <1>4

\* Every step keeps the queue and the wake-ups in order.
LEMMA SemLinkedStep == Sem!TypeOK /\ SemLinked /\ SemParkedOK /\ [Sem!Next]_(Sem!vars) => SemLinked' /\ SemParkedOK'
<1> SUFFICES ASSUME Sem!TypeOK, SemLinked, SemParkedOK, [Sem!Next]_(Sem!vars) PROVE SemLinked' /\ SemParkedOK'
  OBVIOUS
<1> USE SemCallerFacts DEF SemLinked, SemParkedOK
<1>1. ASSUME NEW p \in Sem!Procs, Sem!Acquire(p) PROVE SemLinked' /\ SemParkedOK'
  BY <1>1 DEF Sem!Acquire, Sem!Trying, Sem!TypeOK, SemQueueOK, SemWakingOK
<1>2. ASSUME NEW p \in Sem!Procs, Sem!ParkTask(p) PROVE SemLinked' /\ SemParkedOK'
  <2>1. /\ p \in Tasks /\ sem_pc[p] # "parked" /\ sem_pc[p] # "wake" /\ sem_waiters' = Append(sem_waiters, p)
        /\ sem_pc' = [sem_pc EXCEPT ![p] = "parked"] /\ UNCHANGED sem_waking
    BY <1>2 DEF Sem!ParkTask, Sem!Trying
  <2>2. \A i \in DOMAIN sem_waiters : sem_waiters[i] # p
    BY <2>1 DEF SemQueueOK
  <2>3. \A q \in Sem!Procs : sem_waking[q] # p
    BY <2>1 DEF SemWakingOK
  <2>4. /\ \A i \in DOMAIN sem_waiters' : \/ i \in DOMAIN sem_waiters /\ sem_waiters'[i] = sem_waiters[i]
                                      \/ sem_waiters'[i] = p
        /\ \A i \in DOMAIN sem_waiters : i \in DOMAIN sem_waiters' /\ sem_waiters'[i] = sem_waiters[i]
        /\ \E i \in DOMAIN sem_waiters' : sem_waiters'[i] = p
        /\ \A i, j \in DOMAIN sem_waiters' : sem_waiters'[i] = sem_waiters'[j] => i = j
    <3> HIDE DEF SemLinked, SemParkedOK
    <3>1. sem_waiters \in Seq(Tasks) /\ \A i, j \in DOMAIN sem_waiters : sem_waiters[i] = sem_waiters[j] => i = j
      BY DEF Sem!TypeOK, SemLinked, SemQueueOK
    <3>2. sem_waiters' = Append(sem_waiters, p) /\ p \in Tasks
      BY <2>1
    <3> DEFINE s == Append(sem_waiters, p)
    <3>3. /\ \A i \in DOMAIN s : \/ i \in DOMAIN sem_waiters /\ s[i] = sem_waiters[i]
                                 \/ s[i] = p
          /\ \A i \in DOMAIN sem_waiters : i \in DOMAIN s /\ s[i] = sem_waiters[i]
          /\ \E i \in DOMAIN s : s[i] = p
          /\ \A i, j \in DOMAIN s : s[i] = s[j] => i = j
      BY <2>2, <3>1, <3>2, Enqueued, Zenon
    <3> HIDE DEF s
    <3>4. sem_waiters' = s
      BY <3>2 DEF s
    <3> QED BY <3>3, <3>4, Zenon
  <2>5. SemQueueOK'
    BY <2>1, <2>4 DEF SemQueueOK, Sem!TypeOK
  <2>6. SemWakingOK'
    BY <2>1, <2>3, <2>4 DEF SemWakingOK, Sem!TypeOK
  <2>7. SemParkedOK'
    BY <2>1, <2>4 DEF Sem!TypeOK
  <2> QED BY <2>5, <2>6, <2>7
<1>3. ASSUME NEW p \in Sem!Procs, Sem!WaitThread(p) PROVE SemLinked' /\ SemParkedOK'
  BY <1>3 DEF Sem!WaitThread, Sem!Trying, Sem!TypeOK, SemQueueOK, SemWakingOK
<1>4. ASSUME NEW p \in Sem!Procs, Sem!Release(p) PROVE SemLinked' /\ SemParkedOK'
  <2>1. /\ sem_pc[p] = "holding" /\ sem_waking[p] = None
        /\ sem_pc' = [sem_pc EXCEPT ![p] = "wake"]
    BY <1>4, SemReleaseFacts
  <2>2. CASE sem_waiters = <<>>
    <3>1. sem_waiters' = <<>> /\ UNCHANGED sem_waking /\ DOMAIN sem_waiters' = {} /\ DOMAIN sem_waiters = {}
      BY <1>4, <2>2, SemReleaseFacts
    <3> QED BY <2>1, <3>1 DEF Sem!TypeOK, SemQueueOK, SemWakingOK
  <2>3. CASE sem_waiters # <<>>
    <3> DEFINE t == Head(sem_waiters)
    <3>1. /\ sem_waking' = [sem_waking EXCEPT ![p] = t] /\ t \in Tasks /\ sem_pc[t] = "parked"
          /\ sem_waiters' = Tail(sem_waiters)
      BY <1>4, <2>3, SemReleaseFacts DEF Sem!Release
    <3>2. /\ t = sem_waiters[1] /\ 1 \in DOMAIN sem_waiters
          /\ \A i \in DOMAIN sem_waiters' : /\ i + 1 \in DOMAIN sem_waiters
                                        /\ sem_waiters'[i] = sem_waiters[i + 1]
                                        /\ sem_waiters'[i] # t
          /\ \A i, j \in DOMAIN sem_waiters' : sem_waiters'[i] = sem_waiters'[j] => i = j
          /\ \A i \in DOMAIN sem_waiters :
               i = 1 \/ (i - 1 \in DOMAIN sem_waiters' /\ sem_waiters'[i - 1] = sem_waiters[i])
      BY <2>3, <3>1, Dequeue, Zenon DEF Sem!TypeOK, SemQueueOK
    <3> HIDE DEF t
    <3>3. \A i \in DOMAIN sem_waiters : sem_waiters[i] \in Tasks /\ sem_waiters[i] # p
      BY <2>1 DEF Sem!TypeOK, SemQueueOK
    <3>4. \A q \in Sem!Procs : sem_waking[q] # t
      BY <3>2 DEF SemWakingOK
    <3>5. SemQueueOK'
      BY <2>1, <3>2, <3>3 DEF Sem!TypeOK, SemQueueOK
    <3>6. \A q \in Sem!Procs : sem_waking'[q] = IF q = p THEN t ELSE sem_waking[q]
      BY <3>1 DEF Sem!TypeOK
    <3>7. \A q \in Sem!Procs : sem_waking[q] # p
      BY <2>1 DEF SemWakingOK
    <3>8. SemWakingOK'
      <4>1. \A q \in Sem!Procs : sem_waking'[q] # None => sem_pc'[q] = "wake" /\ sem_pc'[sem_waking'[q]] = "parked"
        BY <2>1, <3>1, <3>6, <3>7 DEF SemWakingOK, Sem!TypeOK
      <4>2. \A q \in Sem!Procs, i \in DOMAIN sem_waiters' : sem_waiters'[i] # sem_waking'[q]
        BY <3>2, <3>6 DEF SemWakingOK
      <4>3. \A q, r \in Sem!Procs : sem_waking'[q] = sem_waking'[r] /\ sem_waking'[q] # None => q = r
        BY <3>4, <3>6 DEF SemWakingOK
      <4> QED BY <4>1, <4>2, <4>3 DEF SemWakingOK
    <3>9. SemParkedOK'
      <4> SUFFICES ASSUME NEW u \in Tasks, sem_pc'[u] = "parked"
                   PROVE  \/ \E i \in DOMAIN sem_waiters' : sem_waiters'[i] = u
                          \/ \E q \in Sem!Procs : sem_waking'[q] = u
        OBVIOUS
      <4>1. sem_pc[u] = "parked"
        BY <2>1 DEF Sem!TypeOK
      <4>2. CASE \E i \in DOMAIN sem_waiters : sem_waiters[i] = u
        BY <3>2, <3>6, <4>2
      <4>3. CASE \E q \in Sem!Procs : sem_waking[q] = u
        <5> PICK q \in Sem!Procs : sem_waking[q] = u
          BY <4>3
        <5> QED BY <2>1, <3>6
      <4> QED BY <4>1, <4>2, <4>3
    <3> QED BY <3>5, <3>8, <3>9
  <2> QED BY <2>2, <2>3
<1>5. ASSUME NEW p \in Sem!Procs, Sem!WakeTask(p) PROVE SemLinked' /\ SemParkedOK'
  <2>1. /\ sem_pc[p] = "wake"
        /\ \A q \in Sem!Procs : sem_pc'[q] = IF q = p THEN "notify"
                                     ELSE IF q = sem_waking[p] THEN "woken" ELSE sem_pc[q]
        /\ \A q \in Sem!Procs : sem_waking'[q] = IF q = p THEN None ELSE sem_waking[q]
        /\ UNCHANGED sem_waiters
    BY <1>5 DEF Sem!WakeTask, Sem!TypeOK
  <2>2. \A i \in DOMAIN sem_waiters : sem_waiters[i] \in Tasks /\ sem_waiters[i] # p /\ sem_waiters[i] # sem_waking[p]
    BY <2>1 DEF SemQueueOK, SemWakingOK, Sem!TypeOK
  <2>3. SemQueueOK'
    BY <2>1, <2>2 DEF SemQueueOK
  <2>4. \A q \in Sem!Procs : sem_waking[q] # None => sem_waking[q] \in Sem!Procs /\ sem_waking[q] # p
    BY <2>1 DEF SemWakingOK, Sem!TypeOK
  <2>5. \A q \in Sem!Procs : sem_waking[q] # None /\ q # p => sem_waking[q] # sem_waking[p] /\ q # sem_waking[p]
    BY <2>1 DEF SemWakingOK
  <2>6. SemWakingOK'
    <3>1. \A q \in Sem!Procs : sem_waking'[q] # None => sem_pc'[q] = "wake" /\ sem_pc'[sem_waking'[q]] = "parked"
      BY <2>1, <2>4, <2>5 DEF SemWakingOK
    <3>2. \A i \in DOMAIN sem_waiters' : sem_waiters'[i] # None
      BY <2>1, <2>2
    <3>3. \A q \in Sem!Procs, i \in DOMAIN sem_waiters' : sem_waiters'[i] # sem_waking'[q]
      BY <2>1, <3>2 DEF SemWakingOK
    <3>4. \A q, r \in Sem!Procs : sem_waking'[q] = sem_waking'[r] /\ sem_waking'[q] # None => q = r
      BY <2>1 DEF SemWakingOK
    <3> QED BY <3>1, <3>3, <3>4 DEF SemWakingOK
  <2>7. SemParkedOK'
    <3> SUFFICES ASSUME NEW u \in Tasks, sem_pc'[u] = "parked"
                 PROVE  \/ \E i \in DOMAIN sem_waiters' : sem_waiters'[i] = u
                        \/ \E q \in Sem!Procs : sem_waking'[q] = u
      OBVIOUS
    <3>1. sem_pc[u] = "parked" /\ u # sem_waking[p]
      BY <2>1
    <3> QED BY <2>1, <3>1
  <2> QED BY <2>3, <2>6, <2>7
<1>6. ASSUME NEW p \in Sem!Procs, Sem!NotifyOne(p) PROVE SemLinked' /\ SemParkedOK'
  BY <1>6 DEF Sem!NotifyOne, Sem!Notified, Sem!TypeOK, SemQueueOK, SemWakingOK
<1>7. CASE UNCHANGED Sem!vars
  BY <1>7 DEF Sem!vars, SemQueueOK, SemWakingOK
<1> QED BY <1>1, <1>2, <1>3, <1>4, <1>5, <1>6, <1>7 DEF Sem!Next, Sem!Step
\* Every step keeps the permits: only Acquire takes one, and only Release gives
\* one back; a wake-up never overwrites a holder.
LEMMA SemConservedStep ==
  Sem!TypeOK /\ SemLinked /\ SemConserved /\ [Sem!Next]_(Sem!vars) => SemConserved'
<1> SUFFICES ASSUME Sem!TypeOK, SemLinked, SemConserved, [Sem!Next]_(Sem!vars) PROVE SemConserved'
  OBVIOUS
<1> USE SemCallerFacts
<1>0. /\ IsFiniteSet(Sem!Holders) /\ sem_count + Cardinality(Sem!Holders) = Permits
      /\ Cardinality(Sem!Holders) \in Nat /\ sem_count \in Nat
  BY FS_CardinalityType DEF SemConserved, Sem!TypeOK
<1>1. ASSUME Sem!Holders' = Sem!Holders, sem_count' = sem_count PROVE SemConserved'
  BY <1>0, <1>1 DEF SemConserved
<1>2. ASSUME NEW p \in Sem!Procs, Sem!Acquire(p) PROVE SemConserved'
  <2>1. p \notin Sem!Holders /\ sem_count' = sem_count - 1 /\ Sem!Holders' = Sem!Holders \cup {p}
    BY <1>2 DEF Sem!Acquire, Sem!Trying, Sem!Holders, Sem!TypeOK
  <2>2. IsFiniteSet(Sem!Holders') /\ Cardinality(Sem!Holders') = Cardinality(Sem!Holders) + 1
    BY <1>0, <2>1, OneMore
  <2> QED BY <1>0, <2>1, <2>2 DEF SemConserved
<1>3. ASSUME NEW p \in Sem!Procs, Sem!ParkTask(p) PROVE SemConserved'
  <2>1. Sem!Holders' = Sem!Holders /\ sem_count' = sem_count
    BY <1>3 DEF Sem!ParkTask, Sem!Trying, Sem!Holders, Sem!TypeOK
  <2> QED BY <1>1, <2>1
<1>4. ASSUME NEW p \in Sem!Procs, Sem!WaitThread(p) PROVE SemConserved'
  <2>1. Sem!Holders' = Sem!Holders /\ sem_count' = sem_count
    BY <1>4 DEF Sem!WaitThread, Sem!Trying, Sem!Holders, Sem!TypeOK
  <2> QED BY <1>1, <2>1
<1>5. ASSUME NEW p \in Sem!Procs, Sem!Release(p) PROVE SemConserved'
  <2>1. p \in Sem!Holders /\ sem_count' = sem_count + 1 /\ Sem!Holders' = Sem!Holders \ {p}
    BY <1>5 DEF Sem!Release, Sem!Holders, Sem!TypeOK
  <2>2. IsFiniteSet(Sem!Holders') /\ Cardinality(Sem!Holders') = Cardinality(Sem!Holders) - 1
    BY <1>0, <2>1, OneLess
  <2> QED BY <1>0, <2>1, <2>2 DEF SemConserved
<1>6. ASSUME NEW p \in Sem!Procs, Sem!WakeTask(p) PROVE SemConserved'
  <2>1. \A q \in Sem!Procs : q = p \/ q = sem_waking[p] => sem_pc[q] # "holding" /\ sem_pc'[q] # "holding"
    BY <1>6 DEF Sem!WakeTask, Sem!TypeOK, SemLinked, SemWakingOK
  <2>2. Sem!Holders' = Sem!Holders /\ sem_count' = sem_count
    BY <1>6, <2>1 DEF Sem!WakeTask, Sem!Holders, Sem!TypeOK
  <2> QED BY <1>1, <2>2
<1>7. ASSUME NEW p \in Sem!Procs, Sem!NotifyOne(p) PROVE SemConserved'
  <2>1. Sem!Holders' = Sem!Holders /\ sem_count' = sem_count
    BY <1>7 DEF Sem!NotifyOne, Sem!Notified, Sem!Holders, Sem!TypeOK
  <2> QED BY <1>1, <2>1
<1>8. CASE UNCHANGED Sem!vars
  <2>1. Sem!Holders' = Sem!Holders /\ sem_count' = sem_count
    BY <1>8 DEF Sem!vars, Sem!Holders
  <2> QED BY <1>1, <2>1
<1> QED BY <1>2, <1>3, <1>4, <1>5, <1>6, <1>7, <1>8 DEF Sem!Next, Sem!Step

\* Every step keeps each permit left matched by a task that is coming for it.
LEMMA SemTasksStep ==
  Sem!TypeOK /\ SemLinked /\ SemTasksOK /\ [Sem!Next]_(Sem!vars) => SemTasksOK'
<1> SUFFICES ASSUME Sem!TypeOK, SemLinked, SemTasksOK, [Sem!Next]_(Sem!vars) PROVE SemTasksOK'
  OBVIOUS
<1> USE SemCallerFacts
<1>0. /\ IsFiniteSet(Sem!Coming) /\ Cardinality(Sem!Coming) \in Nat /\ sem_count \in Nat
      /\ sem_waiters # <<>> => sem_count <= Cardinality(Sem!Coming)
  BY SemCardinality, FS_CardinalityType DEF SemTasksOK, Sem!NoTaskLeftBehind, Sem!TypeOK
<1>1. ASSUME Sem!Coming' = Sem!Coming, sem_count' = sem_count, sem_waiters' = sem_waiters PROVE SemTasksOK'
  BY SemCardinality, <1>0, <1>1 DEF SemTasksOK, Sem!NoTaskLeftBehind
<1>2. ASSUME NEW p \in Sem!Procs, Sem!Acquire(p) PROVE SemTasksOK'
  <2>1. sem_count > 0 /\ sem_count' = sem_count - 1 /\ sem_waiters' = sem_waiters
    BY <1>2 DEF Sem!Acquire, Sem!PermitLeft
  <2>2. CASE p \in Sem!Coming
    <3>1. Sem!Coming' = Sem!Coming \ {p}
      BY <1>2, <2>2 DEF Sem!Acquire, Sem!Trying, Sem!Coming, Sem!TypeOK
    <3>2. IsFiniteSet(Sem!Coming') /\ Cardinality(Sem!Coming') = Cardinality(Sem!Coming) - 1
      BY <1>0, <2>2, <3>1, OneLess
    <3> QED BY SemCardinality, <1>0, <2>1, <3>2 DEF SemTasksOK, Sem!NoTaskLeftBehind
  <2>3. CASE p \notin Sem!Coming
    <3>1. Sem!Coming' = Sem!Coming
      BY <1>2, <2>3 DEF Sem!Acquire, Sem!Trying, Sem!Coming, Sem!TypeOK
    <3> QED BY SemCardinality, <1>0, <2>1, <3>1 DEF SemTasksOK, Sem!NoTaskLeftBehind
  <2> QED BY <2>2, <2>3
<1>3. ASSUME NEW p \in Sem!Procs, Sem!ParkTask(p) PROVE SemTasksOK'
  <2>1. Sem!Coming' = Sem!Coming \ {p}
    BY <1>3 DEF Sem!ParkTask, Sem!Trying, Sem!Coming, Sem!TypeOK
  <2>2. IsFiniteSet(Sem!Coming')
    BY <1>0, <2>1, OneLess, FS_Subset
  <2>3. Cardinality(Sem!Coming') \in Nat
    BY <2>2, FS_CardinalityType
  <2>4. sem_count' = 0
    BY <1>0, <1>3 DEF Sem!ParkTask, Sem!PermitLeft
  <2> QED BY SemCardinality, <2>2, <2>3, <2>4 DEF SemTasksOK, Sem!NoTaskLeftBehind
<1>4. ASSUME NEW p \in Sem!Procs, Sem!WaitThread(p) PROVE SemTasksOK'
  <2>1. Sem!Coming' = Sem!Coming
    BY <1>4 DEF Sem!WaitThread, Sem!Trying, Sem!Coming, Sem!TypeOK
  <2> QED BY <1>1, <1>4, <2>1 DEF Sem!WaitThread
<1>5. ASSUME NEW p \in Sem!Procs, Sem!Release(p) PROVE SemTasksOK'
  <2>1. CASE sem_waiters = <<>>
    <3>1. Sem!Coming' = Sem!Coming /\ sem_waiters' = <<>>
      BY <1>5, <2>1, SemReleaseFacts DEF Sem!Coming, Sem!TypeOK
    <3> QED BY SemCardinality, <1>0, <3>1 DEF SemTasksOK, Sem!NoTaskLeftBehind
  <2>2. CASE sem_waiters # <<>>
    <3>1. /\ p \notin Sem!Coming /\ sem_count' = sem_count + 1
          /\ sem_pc' = [sem_pc EXCEPT ![p] = "wake"]
          /\ sem_waking' = [sem_waking EXCEPT ![p] = Head(sem_waiters)] /\ Head(sem_waiters) # None
      BY <1>5, <2>2, SemReleaseFacts DEF Sem!Coming, Sem!TypeOK
    <3>2. Sem!Coming' = Sem!Coming \cup {p}
      BY <3>1 DEF Sem!Coming, Sem!TypeOK
    <3>3. IsFiniteSet(Sem!Coming') /\ Cardinality(Sem!Coming') = Cardinality(Sem!Coming) + 1
      BY <1>0, <3>1, <3>2, OneMore
    <3> QED BY SemCardinality, <1>0, <2>2, <3>1, <3>3 DEF SemTasksOK, Sem!NoTaskLeftBehind
  <2> QED BY <2>1, <2>2
<1>6. ASSUME NEW p \in Sem!Procs, Sem!WakeTask(p) PROVE SemTasksOK'
  <2>1. /\ sem_pc[p] = "wake" /\ sem_count' = sem_count /\ sem_waiters' = sem_waiters
        /\ \A q \in Sem!Procs : sem_pc'[q] = IF q = p THEN "notify"
                                     ELSE IF q = sem_waking[p] THEN "woken" ELSE sem_pc[q]
        /\ \A q \in Sem!Procs : sem_waking'[q] = IF q = p THEN None ELSE sem_waking[q]
    BY <1>6 DEF Sem!WakeTask, Sem!TypeOK
  <2>2. CASE sem_waking[p] = None
    <3>1. Sem!Coming' = Sem!Coming
      BY <2>1, <2>2 DEF Sem!Coming
    <3> QED BY <1>1, <2>1, <3>1
  <2>3. CASE sem_waking[p] # None
    <3> DEFINE t == sem_waking[p]
    <3>1. t \in Tasks /\ sem_pc[t] = "parked" /\ p \in Sem!Coming /\ t \notin Sem!Coming
      BY <2>1, <2>3 DEF Sem!TypeOK, SemLinked, SemWakingOK, Sem!Coming
    <3>2. Sem!Coming' = (Sem!Coming \ {p}) \cup {t}
      BY <2>1, <2>3, <3>1 DEF Sem!Coming
    <3>3. IsFiniteSet(Sem!Coming \ {p}) /\ Cardinality(Sem!Coming \ {p}) = Cardinality(Sem!Coming) - 1
      BY <1>0, <3>1, OneLess
    <3>4. t \notin Sem!Coming \ {p}
      BY <3>1
    <3>5. IsFiniteSet(Sem!Coming') /\ Cardinality(Sem!Coming') = Cardinality(Sem!Coming \ {p}) + 1
      BY <3>2, <3>3, <3>4, OneMore
    <3> QED BY SemCardinality, <1>0, <2>1, <3>3, <3>5 DEF SemTasksOK, Sem!NoTaskLeftBehind
  <2> QED BY <2>2, <2>3
<1>7. ASSUME NEW p \in Sem!Procs, Sem!NotifyOne(p) PROVE SemTasksOK'
  <2>1. Sem!Coming' = Sem!Coming
    BY <1>7 DEF Sem!NotifyOne, Sem!Notified, Sem!Coming, Sem!TypeOK
  <2> QED BY <1>1, <1>7, <2>1 DEF Sem!NotifyOne
<1>8. CASE UNCHANGED Sem!vars
  <2>1. Sem!Coming' = Sem!Coming /\ sem_count' = sem_count /\ sem_waiters' = sem_waiters
    BY <1>8 DEF Sem!vars, Sem!Coming
  <2> QED BY <1>1, <2>1
<1> QED BY <1>2, <1>3, <1>4, <1>5, <1>6, <1>7, <1>8 DEF Sem!Next, Sem!Step
\* Every step keeps each permit left matched by a caller on its way, or a
\* notification, while a thread waits.
LEMMA SemThreadsStep ==
  Sem!TypeOK /\ SemLinked /\ SemTasksOK /\ SemThreadsOK /\ [Sem!Next]_(Sem!vars) => SemThreadsOK'
<1> SUFFICES ASSUME Sem!TypeOK, SemLinked, SemTasksOK, SemThreadsOK, [Sem!Next]_(Sem!vars) PROVE SemThreadsOK'
  OBVIOUS
<1> USE SemCallerFacts
<1> DEFINE OnCv == \E t \in Threads : sem_pc[t] = "cv"
           Left == Cardinality(Sem!Coming) + Cardinality(Sem!ComingThreads)
<1>0. /\ IsFiniteSet(Sem!Coming) /\ Cardinality(Sem!Coming) \in Nat /\ sem_count \in Nat
      /\ IsFiniteSet(Sem!ComingThreads) /\ Cardinality(Sem!ComingThreads) \in Nat
      /\ OnCv => sem_count <= Left
  BY SemCardinality, FS_CardinalityType DEF SemTasksOK, SemThreadsOK, Sem!NoThreadLeftBehind, Sem!TypeOK
<1>1. ASSUME IsFiniteSet(Sem!ComingThreads'), OnCv' => sem_count' <= Left'
      PROVE  SemThreadsOK'
  BY SemCardinality, <1>1 DEF SemThreadsOK, Sem!NoThreadLeftBehind
<1>2. ASSUME Sem!Coming' = Sem!Coming, Sem!ComingThreads' = Sem!ComingThreads, sem_count' = sem_count, OnCv' => OnCv
      PROVE  SemThreadsOK'
  BY SemCardinality, <1>0, <1>2 DEF SemThreadsOK, Sem!NoThreadLeftBehind
<1>3. ASSUME NEW p \in Sem!Procs, Sem!Acquire(p) PROVE SemThreadsOK'
  <2>1. sem_count > 0 /\ sem_count' = sem_count - 1 /\ (OnCv' => OnCv)
    BY <1>3 DEF Sem!Acquire, Sem!PermitLeft, Sem!TypeOK
  <2>2. CASE p \in Sem!Coming
    <3>1. p \in Tasks /\ Sem!Coming' = Sem!Coming \ {p} /\ Sem!ComingThreads' = Sem!ComingThreads
      BY <1>3, <2>2 DEF Sem!Acquire, Sem!Trying, Sem!Coming, Sem!ComingThreads, Sem!TypeOK
    <3>2. Cardinality(Sem!Coming') = Cardinality(Sem!Coming) - 1
      BY <1>0, <2>2, <3>1, OneLess
    <3> QED BY SemCardinality, <1>0, <2>1, <3>1, <3>2 DEF SemThreadsOK, Sem!NoThreadLeftBehind
  <2>3. CASE p \in Sem!ComingThreads
    <3>1. p \in Threads /\ Sem!Coming' = Sem!Coming /\ Sem!ComingThreads' = Sem!ComingThreads \ {p}
      BY <1>3, <2>3 DEF Sem!Acquire, Sem!Trying, Sem!Coming, Sem!ComingThreads, Sem!TypeOK
    <3>2. IsFiniteSet(Sem!ComingThreads') /\ Cardinality(Sem!ComingThreads') = Cardinality(Sem!ComingThreads) - 1
      BY <1>0, <2>3, <3>1, OneLess
    <3> QED BY SemCardinality, <1>0, <2>1, <3>1, <3>2 DEF SemThreadsOK, Sem!NoThreadLeftBehind
  <2>4. CASE p \notin Sem!Coming /\ p \notin Sem!ComingThreads
    <3>1. Sem!Coming' = Sem!Coming /\ Sem!ComingThreads' = Sem!ComingThreads
      BY <1>3, <2>4 DEF Sem!Acquire, Sem!Trying, Sem!Coming, Sem!ComingThreads, Sem!TypeOK
    <3> QED BY SemCardinality, <1>0, <2>1, <3>1 DEF SemThreadsOK, Sem!NoThreadLeftBehind
  <2> QED BY <2>2, <2>3, <2>4
<1>4. ASSUME NEW p \in Sem!Procs, Sem!ParkTask(p) \/ Sem!WaitThread(p) PROVE SemThreadsOK'
  <2>1. sem_count' = 0
    BY <1>0, <1>4 DEF Sem!ParkTask, Sem!WaitThread, Sem!PermitLeft
  <2>2. Sem!ComingThreads' = Sem!ComingThreads \ {p} /\ Sem!Coming' = Sem!Coming \ {p}
    BY <1>4 DEF Sem!ParkTask, Sem!WaitThread, Sem!Trying, Sem!Coming, Sem!ComingThreads, Sem!TypeOK
  <2>3. IsFiniteSet(Sem!ComingThreads') /\ IsFiniteSet(Sem!Coming')
    BY <1>0, <2>2, FS_Subset
  <2>4. Cardinality(Sem!ComingThreads') \in Nat /\ Cardinality(Sem!Coming') \in Nat
    BY <2>3, FS_CardinalityType
  <2>5. sem_count' <= Left'
    BY <2>1, <2>4
  <2> QED BY <1>1, <2>3, <2>5
<1>5. ASSUME NEW p \in Sem!Procs, Sem!Release(p) PROVE SemThreadsOK'
  <2>1. /\ sem_pc[p] = "holding" /\ sem_count' = sem_count + 1
        /\ sem_pc' = [sem_pc EXCEPT ![p] = "wake"] /\ sem_waking[p] = None
        /\ sem_waking' = sem_waking \/ (sem_waking' = [sem_waking EXCEPT ![p] = Head(sem_waiters)] /\ Head(sem_waiters) \in Tasks)
    BY <1>5, SemReleaseFacts
  <2>2. p \notin Sem!Coming /\ p \notin Sem!ComingThreads
    BY <2>1 DEF Sem!Coming, Sem!ComingThreads
  <2>3. Sem!ComingThreads' = Sem!ComingThreads \cup {p} /\ (OnCv' => OnCv)
    BY <2>1 DEF Sem!ComingThreads, Sem!TypeOK
  <2>4. IsFiniteSet(Sem!ComingThreads') /\ Cardinality(Sem!ComingThreads') = Cardinality(Sem!ComingThreads) + 1
    BY <1>0, <2>2, <2>3, OneMore
  <2>5. Sem!Coming' = Sem!Coming \/ Sem!Coming' = Sem!Coming \cup {p}
    BY <2>1 DEF Sem!Coming, Sem!TypeOK
  <2>6. Cardinality(Sem!Coming') \in Nat /\ Cardinality(Sem!Coming') >= Cardinality(Sem!Coming)
    BY <1>0, <2>2, <2>5, OneMore
  <2> QED BY SemCardinality, <1>0, <2>1, <2>3, <2>4, <2>6 DEF SemThreadsOK, Sem!NoThreadLeftBehind
<1>6. ASSUME NEW p \in Sem!Procs, Sem!WakeTask(p) PROVE SemThreadsOK'
  <2>1. /\ sem_pc[p] = "wake" /\ sem_count' = sem_count
        /\ \A q \in Sem!Procs : sem_pc'[q] = IF q = p THEN "notify"
                                     ELSE IF q = sem_waking[p] THEN "woken" ELSE sem_pc[q]
        /\ \A q \in Sem!Procs : sem_waking'[q] = IF q = p THEN None ELSE sem_waking[q]
        /\ sem_waking[p] # None => sem_waking[p] \in Tasks /\ sem_pc[sem_waking[p]] = "parked"
    BY <1>6 DEF Sem!WakeTask, Sem!TypeOK, SemLinked, SemWakingOK
  <2>2. Sem!ComingThreads' = Sem!ComingThreads /\ (OnCv' => OnCv)
    BY <2>1 DEF Sem!ComingThreads
  <2>3. CASE sem_waking[p] = None
    <3>1. Sem!Coming' = Sem!Coming
      BY <2>1, <2>3 DEF Sem!Coming
    <3> QED BY <1>2, <2>1, <2>2, <3>1
  <2>4. CASE sem_waking[p] # None
    <3> DEFINE t == sem_waking[p]
    <3>1. t \in Tasks /\ sem_pc[t] = "parked" /\ p \in Sem!Coming /\ t \notin Sem!Coming \ {p}
      BY <2>1, <2>4 DEF SemLinked, SemWakingOK, Sem!Coming
    <3>2. Sem!Coming' = (Sem!Coming \ {p}) \cup {t}
      BY <2>1, <2>4, <3>1 DEF Sem!Coming
    <3>3. IsFiniteSet(Sem!Coming \ {p}) /\ Cardinality(Sem!Coming \ {p}) = Cardinality(Sem!Coming) - 1
      BY <1>0, <3>1, OneLess
    <3>4. Cardinality(Sem!Coming') = Cardinality(Sem!Coming \ {p}) + 1
      BY <3>1, <3>2, <3>3, OneMore
    <3> QED BY SemCardinality, <1>0, <2>1, <2>2, <3>3, <3>4 DEF SemThreadsOK, Sem!NoThreadLeftBehind
  <2> QED BY <2>3, <2>4
<1>7. ASSUME NEW p \in Sem!Procs, Sem!NotifyOne(p) PROVE SemThreadsOK'
  <2>1. sem_pc[p] = "notify" /\ p \in Sem!ComingThreads /\ sem_count' = sem_count /\ sem_waking' = sem_waking
    BY <1>7 DEF Sem!NotifyOne, Sem!ComingThreads
  <2>2. IsFiniteSet(Sem!ComingThreads \ {p})
        /\ Cardinality(Sem!ComingThreads \ {p}) = Cardinality(Sem!ComingThreads) - 1
    BY <1>0, <2>1, OneLess
  <2>3. Sem!Coming' = Sem!Coming
    BY <1>7 DEF Sem!NotifyOne, Sem!Notified, Sem!Coming, Sem!TypeOK
  <2>4. CASE ~ OnCv
    <3>1. Sem!ComingThreads' = Sem!ComingThreads \ {p} /\ ~ OnCv'
      BY <1>7, <2>4 DEF Sem!NotifyOne, Sem!Notified, Sem!ComingThreads, Sem!TypeOK
    <3> QED BY <1>1, <2>2, <3>1
  <2>5. CASE OnCv
    <3>1. PICK q \in Threads : sem_pc[q] = "cv" /\ sem_pc' = [sem_pc EXCEPT ![p] = "idle", ![q] = "notified"]
      BY <1>7, <2>5 DEF Sem!NotifyOne, Sem!Notified
    <3>2. Sem!ComingThreads' = (Sem!ComingThreads \ {p}) \cup {q} /\ q \notin Sem!ComingThreads \ {p}
      BY <2>1, <3>1 DEF Sem!ComingThreads, Sem!TypeOK
    <3>3. IsFiniteSet(Sem!ComingThreads')
          /\ Cardinality(Sem!ComingThreads') = Cardinality(Sem!ComingThreads \ {p}) + 1
      BY <2>2, <3>2, OneMore
    <3> QED BY SemCardinality, <1>0, <2>1, <2>2, <2>3, <2>5, <3>3 DEF SemThreadsOK, Sem!NoThreadLeftBehind
  <2> QED BY <2>4, <2>5
<1>8. CASE UNCHANGED Sem!vars
  <2>1. Sem!Coming' = Sem!Coming /\ Sem!ComingThreads' = Sem!ComingThreads /\ sem_count' = sem_count /\ OnCv' = OnCv
    BY <1>8 DEF Sem!vars, Sem!Coming, Sem!ComingThreads
  <2> QED BY <1>2, <2>1
<1> QED BY <1>3, <1>4, <1>5, <1>6, <1>7, <1>8 DEF Sem!Next, Sem!Step

\* The invariant holds in every reachable state.
LEMMA SemInvariance == ASSUME Permits \in Nat PROVE Sem!Spec => []SemIInv
<1>1. Sem!Init => SemIInv
  BY SemInitInv
<1>2. SemIInv /\ [Sem!Next]_(Sem!vars) => SemIInv'
  BY SemTypeStep, SemLinkedStep, SemConservedStep, SemTasksStep, SemThreadsStep DEF SemIInv
<1> QED BY <1>1, <1>2, PTL DEF Sem!Spec

\* Every variable keeps to its type.
LEMMA SemTypeCorrect == ASSUME Permits \in Nat PROVE Sem!Spec => []Sem!TypeOK
<1>1. SemIInv => Sem!TypeOK
  BY DEF SemIInv
<1> QED BY <1>1, SemInvariance, PTL

\* Permits are neither lost nor created, so no more callers hold one than there are.
LEMMA SemConservation == ASSUME Permits \in Nat PROVE Sem!Spec => []Sem!PermitsConserved
<1>1. SemIInv => Sem!PermitsConserved
  BY SemCardinality, FS_CardinalityType DEF SemIInv, SemConserved, Sem!TypeOK, Sem!PermitsConserved
<1> QED BY <1>1, SemInvariance, PTL

\* No lost wake-up: while a task is queued, or a thread on cv, every permit left has
\* somebody on the way to it.
LEMMA SemNobodyLeftBehind ==
  ASSUME Permits \in Nat
  PROVE  Sem!Spec => [](Sem!NoTaskLeftBehind /\ Sem!NoThreadLeftBehind)
<1>1. SemIInv => Sem!NoTaskLeftBehind /\ Sem!NoThreadLeftBehind
  BY DEF SemIInv, SemTasksOK, SemThreadsOK
<1> QED BY <1>1, SemInvariance, PTL

\* A set with one element, and how many elements a set of at most one has.
LEMMA AtMostOneElement ==
  ASSUME NEW S, \A x, y \in S : x = y
  PROVE  Cardinality(S) = IF S = {} THEN 0 ELSE 1
<1>1. CASE S = {}
  BY <1>1, FS_EmptySet
<1>2. CASE S # {}
  <2> PICK x \in S : TRUE
    BY <1>2
  <2>1. S = {x}
    OBVIOUS
  <2> QED BY <1>2, <2>1, FS_Singleton
<1> QED BY <1>1, <1>2

\* A parked task is queued once or being woken by one caller, and nobody else is.
LEMMA SemParkedTasksAreKnown ==
  ASSUME Permits \in Nat
  PROVE  Sem!Spec => []Sem!WaitersAreParked
<1>1. SemIInv => Sem!WaitersAreParked
  <2> SUFFICES ASSUME Sem!TypeOK, SemLinked, SemParkedOK, NEW t \in Tasks
               PROVE  Cardinality({i \in DOMAIN sem_waiters : sem_waiters[i] = t})
                        + Cardinality({p \in Sem!Procs : sem_waking[p] = t})
                      = IF sem_pc[t] = "parked" THEN 1 ELSE 0
    BY SemCardinality DEF SemIInv, Sem!WaitersAreParked
  <2> DEFINE Q == {i \in DOMAIN sem_waiters : sem_waiters[i] = t}
             W == {p \in Sem!Procs : sem_waking[p] = t}
  <2>1. \A i, j \in Q : i = j
    BY DEF SemLinked, SemQueueOK
  <2>2. \A p, q \in W : p = q
    BY SemCallerFacts DEF SemLinked, SemWakingOK
  <2>3. Q = {} \/ W = {}
    BY DEF SemLinked, SemWakingOK
  <2>4. sem_pc[t] = "parked" <=> Q # {} \/ W # {}
    BY SemCallerFacts DEF SemLinked, SemQueueOK, SemWakingOK, SemParkedOK
  <2>5. Cardinality(Q) = IF Q = {} THEN 0 ELSE 1
    BY <2>1, AtMostOneElement
  <2>6. Cardinality(W) = IF W = {} THEN 0 ELSE 1
    BY <2>2, AtMostOneElement
  <2> HIDE DEF Q, W
  <2>7. Cardinality(Q) + Cardinality(W) = IF sem_pc[t] = "parked" THEN 1 ELSE 0
    BY <2>3, <2>4, <2>5, <2>6
  <2> QED BY <2>7 DEF Q, W
<1> QED BY <1>1, SemInvariance, PTL

-----------------------------------------------------------------------------
(* Mutex.  Mutual exclusion is not inductive: a hand-over makes a queued task    *)
(* the owner, and a wake-up makes the task it carries a holder, so the queue and *)
(* the wake-ups under way must refer to parked tasks, each once (MxLinked).      *)
(* That a holder is never parked then keeps a hand-over from meeting another.    *)

\* The queue holds parked tasks, each once.
MxQueueOK ==
  /\ \A i \in DOMAIN mu_waiters : mu_pc[mu_waiters[i]] = "parked"
  /\ \A i, j \in DOMAIN mu_waiters : mu_waiters[i] = mu_waiters[j] => i = j

\* A hand-over under way is to a parked task that has left the queue, and no two
\* are to the same task.
MxWakingOK ==
  /\ \A p \in Mx!Procs : mu_pc[p] = "wake" <=> mu_waking[p] # None
  /\ \A p \in Mx!Procs : mu_waking[p] # None => mu_pc[mu_waking[p]] = "parked"
  /\ \A p \in Mx!Procs, i \in DOMAIN mu_waiters : mu_waiters[i] # mu_waking[p]
  /\ \A p, q \in Mx!Procs : mu_waking[p] = mu_waking[q] /\ mu_waking[p] # None => p = q

MxLinked == MxQueueOK /\ MxWakingOK

MxIInv == Mx!TypeOK /\ MxLinked /\ Mx!MutualExclusion /\ Mx!NobodyWaitsForFreeLock

-----------------------------------------------------------------------------
(* The mutex's callers. *)

\* None is nobody, and tasks are callers.
LEMMA MxCallerFacts ==
  /\ None \notin Mx!Procs
  /\ Tasks \subseteq Mx!Procs /\ Threads \subseteq Mx!Procs
  /\ \A t \in Tasks : t \notin Threads
BY CallersAssumption DEF Mx!Procs


-----------------------------------------------------------------------------
(* The mutex's invariant is inductive. *)

\* In the initial state nobody holds, waits for or hands over the lock.
LEMMA MxInitInv == Mx!Init => MxIInv
<1> SUFFICES ASSUME Mx!Init PROVE MxIInv
  OBVIOUS
<1> USE MxCallerFacts
<1>1. Mx!TypeOK
  <2>1. mu_held \in BOOLEAN /\ mu_waiters \in Seq(Tasks)
    <3>1. mu_held \in BOOLEAN
      BY Zenon DEF Mx!Init
    <3>2. mu_waiters \in Seq(Tasks)
      BY DEF Mx!Init
    <3> QED BY <3>1, <3>2
  <2>2. mu_pc \in [Mx!Procs -> Mx!Pcs] /\ mu_waking \in [Mx!Procs -> Tasks \cup {None}]
    BY DEF Mx!Init, Mx!Pcs
  <2> QED BY <2>1, <2>2 DEF Mx!TypeOK
<1>2. DOMAIN mu_waiters = {}
  BY DEF Mx!Init
<1>3. MxQueueOK /\ MxWakingOK
  BY <1>2 DEF Mx!Init, MxQueueOK, MxWakingOK
<1>4. Mx!MutualExclusion /\ Mx!NobodyWaitsForFreeLock
  BY DEF Mx!Init, Mx!MutualExclusion, Mx!Owns, Mx!NobodyWaitsForFreeLock
<1> QED BY <1>1, <1>3, <1>4 DEF MxIInv, MxLinked

\* Every step keeps the variables to their types.
LEMMA MxTypeStep == Mx!TypeOK /\ MxQueueOK /\ [Mx!Next]_(Mx!vars) => Mx!TypeOK'
<1> SUFFICES ASSUME Mx!TypeOK, MxQueueOK, [Mx!Next]_(Mx!vars) PROVE Mx!TypeOK'
  OBVIOUS
<1> USE MxCallerFacts
<1>1. ASSUME NEW p \in Mx!Procs, Mx!Lock(p) PROVE Mx!TypeOK'
  BY <1>1 DEF Mx!Lock, Mx!TypeOK, Mx!Pcs
<1>2. ASSUME NEW p \in Mx!Procs, Mx!ParkTask(p) PROVE Mx!TypeOK'
  BY <1>2 DEF Mx!ParkTask, Mx!TypeOK, Mx!Pcs
<1>3. ASSUME NEW p \in Mx!Procs, Mx!WaitThread(p) PROVE Mx!TypeOK'
  BY <1>3 DEF Mx!WaitThread, Mx!TypeOK, Mx!Pcs
<1>4. ASSUME NEW p \in Mx!Procs, Mx!HandOver(p) PROVE Mx!TypeOK'
  <2>1. Head(mu_waiters) \in Tasks /\ Tail(mu_waiters) \in Seq(Tasks)
    BY <1>4 DEF Mx!HandOver, Mx!TypeOK
  <2> QED BY <1>4, <2>1 DEF Mx!HandOver, Mx!TypeOK, Mx!Pcs
<1>5. ASSUME NEW p \in Mx!Procs, Mx!WakeOwner(p) PROVE Mx!TypeOK'
  BY <1>5 DEF Mx!WakeOwner, Mx!TypeOK, Mx!Pcs
<1>6. ASSUME NEW p \in Mx!Procs, Mx!Free(p) PROVE Mx!TypeOK'
  BY <1>6 DEF Mx!Free, Mx!TypeOK, Mx!Pcs
<1>7. ASSUME NEW p \in Mx!Procs, Mx!NotifyOne(p) PROVE Mx!TypeOK'
  BY <1>7 DEF Mx!NotifyOne, Mx!TypeOK, Mx!Pcs
<1>8. CASE UNCHANGED Mx!vars
  BY <1>8 DEF Mx!vars, Mx!TypeOK
<1> QED BY <1>1, <1>2, <1>3, <1>4, <1>5, <1>6, <1>7, <1>8 DEF Mx!Next, Mx!Step

\* Nobody is being handed the lock while somebody holds it.
LEMMA MxHolderAlone ==
  ASSUME Mx!TypeOK, MxLinked, Mx!MutualExclusion, NEW p \in Mx!Procs, mu_pc[p] = "holding"
  PROVE  /\ \A q \in Mx!Procs : mu_waking[q] = None
         /\ \A q \in Mx!Procs : mu_pc[q] = "holding" => q = p
<1>1. ASSUME NEW q \in Mx!Procs, mu_waking[q] # None PROVE FALSE
  <2>1. mu_waking[q] \in Mx!Procs /\ mu_pc[mu_waking[q]] = "parked"
    BY <1>1, MxCallerFacts DEF Mx!TypeOK, MxLinked, MxWakingOK
  <2>2. mu_waking[q] = p
    BY <2>1 DEF Mx!MutualExclusion, Mx!Owns
  <2> QED BY <2>1, <2>2
<1> QED BY <1>1 DEF Mx!MutualExclusion, Mx!Owns

\* Every step keeps the queue and the hand-overs in order.
LEMMA MxLinkedStep == Mx!TypeOK /\ MxLinked /\ Mx!MutualExclusion /\ [Mx!Next]_(Mx!vars) => MxLinked'
<1> SUFFICES ASSUME Mx!TypeOK, MxLinked, Mx!MutualExclusion, [Mx!Next]_(Mx!vars) PROVE MxLinked'
  OBVIOUS
<1> USE MxCallerFacts DEF MxLinked
<1>1. ASSUME NEW p \in Mx!Procs, Mx!Lock(p) PROVE MxLinked'
  BY <1>1 DEF Mx!Lock, Mx!TypeOK, MxQueueOK, MxWakingOK
<1>2. ASSUME NEW p \in Mx!Procs, Mx!ParkTask(p) PROVE MxLinked'
  <2>1. p \in Tasks /\ mu_pc[p] = "idle" /\ mu_waiters' = Append(mu_waiters, p)
        /\ mu_pc' = [mu_pc EXCEPT ![p] = "parked"] /\ UNCHANGED mu_waking
    BY <1>2 DEF Mx!ParkTask
  <2>2. \A i \in DOMAIN mu_waiters : mu_waiters[i] # p
    BY <2>1 DEF MxQueueOK
  <2>3. \A q \in Mx!Procs : mu_waking[q] # p
    BY <2>1 DEF MxWakingOK
  <2>4. /\ \A i \in DOMAIN mu_waiters' : \/ i \in DOMAIN mu_waiters /\ mu_waiters'[i] = mu_waiters[i]
                                      \/ mu_waiters'[i] = p
        /\ \A i, j \in DOMAIN mu_waiters' : mu_waiters'[i] = mu_waiters'[j] => i = j
    BY <2>1, <2>2, Enqueued, Zenon DEF Mx!TypeOK, MxQueueOK
  <2>5. MxQueueOK'
    BY <2>1, <2>4 DEF MxQueueOK, Mx!TypeOK
  <2>6. MxWakingOK'
    BY <2>1, <2>3, <2>4 DEF MxWakingOK, Mx!TypeOK
  <2> QED BY <2>5, <2>6
<1>3. ASSUME NEW p \in Mx!Procs, Mx!WaitThread(p) PROVE MxLinked'
  BY <1>3 DEF Mx!WaitThread, Mx!TypeOK, MxQueueOK, MxWakingOK
<1>4. ASSUME NEW p \in Mx!Procs, Mx!HandOver(p) PROVE MxLinked'
  <2> DEFINE t == Head(mu_waiters)
  <2>1. /\ mu_pc[p] = "holding" /\ mu_waiters # <<>>
        /\ mu_waking' = [mu_waking EXCEPT ![p] = t]
        /\ mu_waiters' = Tail(mu_waiters)
        /\ mu_pc' = [mu_pc EXCEPT ![p] = "wake"]
    BY <1>4 DEF Mx!HandOver
  <2>2. /\ t \in Tasks /\ mu_pc[t] = "parked"
        /\ \A i \in DOMAIN mu_waiters' : /\ i + 1 \in DOMAIN mu_waiters
                                      /\ mu_waiters'[i] = mu_waiters[i + 1]
                                      /\ mu_waiters'[i] # t
        /\ \A i, j \in DOMAIN mu_waiters' : mu_waiters'[i] = mu_waiters'[j] => i = j
    BY <2>1, Dequeue, Zenon DEF Mx!TypeOK, MxQueueOK
  <2>3. \A q \in Mx!Procs : mu_waking[q] = None
    BY <2>1, MxHolderAlone
  <2> HIDE DEF t
  <2>4. MxQueueOK'
    <3>1. \A i \in DOMAIN mu_waiters' : mu_pc[mu_waiters'[i]] = "parked" /\ mu_waiters'[i] # p
      BY <2>1, <2>2 DEF MxQueueOK
    <3>2. \A i \in DOMAIN mu_waiters' : mu_pc'[mu_waiters'[i]] = "parked"
      BY <2>1, <3>1 DEF Mx!TypeOK
    <3> QED BY <2>2, <3>2 DEF MxQueueOK
  <2>5. MxWakingOK'
    <3>1. \A q \in Mx!Procs : mu_waking'[q] = IF q = p THEN t ELSE None
      BY <2>1, <2>3 DEF Mx!TypeOK
    <3>2. \A q \in Mx!Procs : mu_pc[q] # "wake"
      BY <2>3 DEF MxWakingOK
    <3>3. t # p /\ t # None /\ mu_pc'[t] = "parked"
      BY <2>1, <2>2 DEF Mx!TypeOK
    <3>4. \A i \in DOMAIN mu_waiters' : mu_waiters'[i] # None
      <4>1. \A i \in DOMAIN mu_waiters : mu_waiters[i] \in Tasks
        BY DEF Mx!TypeOK
      <4> QED BY <4>1, <2>2
    <3> QED BY <2>1, <2>2, <3>1, <3>2, <3>3, <3>4 DEF MxWakingOK, Mx!TypeOK
  <2> QED BY <2>4, <2>5
<1>5. ASSUME NEW p \in Mx!Procs, Mx!WakeOwner(p) PROVE MxLinked'
  <2> DEFINE t == mu_waking[p]
  <2>1. /\ mu_pc[p] = "wake"
        /\ mu_pc' = [mu_pc EXCEPT ![p] = "idle", ![t] = "holding"]
        /\ mu_waking' = [mu_waking EXCEPT ![p] = None]
        /\ UNCHANGED mu_waiters
    BY <1>5 DEF Mx!WakeOwner
  <2>2. t \in Tasks /\ t # p /\ mu_pc[t] = "parked"
    BY <2>1 DEF MxWakingOK, Mx!TypeOK
  <2>3. /\ \A i \in DOMAIN mu_waiters : mu_waiters[i] # t /\ mu_waiters[i] # p
        /\ \A q \in Mx!Procs : mu_waking[q] # p /\ (mu_waking[q] = t => q = p)
    BY <2>1, <2>2 DEF MxQueueOK, MxWakingOK
  <2> HIDE DEF t
  <2>4. /\ \A q \in Mx!Procs : mu_pc'[q] = IF q = t THEN "holding"
                                     ELSE IF q = p THEN "idle" ELSE mu_pc[q]
        /\ \A q \in Mx!Procs : mu_waking'[q] = IF q = p THEN None ELSE mu_waking[q]
    BY <2>1, <2>2 DEF Mx!TypeOK
  <2>5. MxQueueOK'
    <3>1. \A i \in DOMAIN mu_waiters : mu_waiters[i] \in Mx!Procs
      BY DEF Mx!TypeOK
    <3>2. \A i \in DOMAIN mu_waiters : mu_pc'[mu_waiters[i]] = mu_pc[mu_waiters[i]]
      BY <2>3, <2>4, <3>1
    <3>3. mu_waiters' = mu_waiters
      BY <2>1
    <3> QED BY <3>2, <3>3, Zenon DEF MxQueueOK
  <2>6. MxWakingOK'
    <3>1. \A q \in Mx!Procs : mu_waking[q] # None => mu_waking[q] \in Mx!Procs
      BY DEF Mx!TypeOK
    <3>2. \A i \in DOMAIN mu_waiters : mu_waiters[i] # None
      BY DEF Mx!TypeOK
    <3>3. ASSUME NEW q \in Mx!Procs PROVE mu_pc'[q] = "wake" <=> mu_waking'[q] # None
      <4>1. CASE q = p
        BY <4>1, <2>2, <2>4
      <4>2. CASE q = t
        BY <4>2, <2>2, <2>4 DEF MxWakingOK
      <4>3. CASE q # p /\ q # t
        BY <4>3, <2>4 DEF MxWakingOK
      <4> QED BY <4>1, <4>2, <4>3
    <3>4. \A q \in Mx!Procs : mu_waking'[q] # None => mu_pc'[mu_waking'[q]] = "parked"
      BY <2>3, <2>4, <3>1 DEF MxWakingOK
    <3>5. \A q \in Mx!Procs, i \in DOMAIN mu_waiters' : mu_waiters'[i] # mu_waking'[q]
      BY <2>1, <2>4, <3>2 DEF MxWakingOK
    <3>6. \A q, r \in Mx!Procs : mu_waking'[q] = mu_waking'[r] /\ mu_waking'[q] # None => q = r
      BY <2>4 DEF MxWakingOK
    <3> QED BY <3>3, <3>4, <3>5, <3>6 DEF MxWakingOK
  <2> QED BY <2>5, <2>6
<1>6. ASSUME NEW p \in Mx!Procs, Mx!Free(p) PROVE MxLinked'
  BY <1>6 DEF Mx!Free, Mx!TypeOK, MxQueueOK, MxWakingOK
<1>7. ASSUME NEW p \in Mx!Procs, Mx!NotifyOne(p) PROVE MxLinked'
  BY <1>7 DEF Mx!NotifyOne, Mx!TypeOK, MxQueueOK, MxWakingOK
<1>8. CASE UNCHANGED Mx!vars
  BY <1>8 DEF Mx!vars, MxQueueOK, MxWakingOK
<1> QED BY <1>1, <1>2, <1>3, <1>4, <1>5, <1>6, <1>7, <1>8 DEF Mx!Next, Mx!Step

\* Every step keeps the lock to one owner.
LEMMA MxExclusionStep ==
  Mx!TypeOK /\ MxLinked /\ Mx!MutualExclusion /\ [Mx!Next]_(Mx!vars) => Mx!MutualExclusion'
<1> SUFFICES ASSUME Mx!TypeOK, MxLinked, Mx!MutualExclusion, [Mx!Next]_(Mx!vars)
             PROVE  Mx!MutualExclusion'
  OBVIOUS
<1> USE MxCallerFacts
<1>1. ASSUME NEW p \in Mx!Procs, Mx!Lock(p) PROVE Mx!MutualExclusion'
  <2>1. \A q \in Mx!Procs : ~ Mx!Owns(q)
    BY <1>1 DEF Mx!Lock, Mx!MutualExclusion
  <2>2. mu_held' /\ \A q \in Mx!Procs : Mx!Owns(q)' <=> q = p
    BY <1>1, <2>1 DEF Mx!Lock, Mx!Owns, Mx!TypeOK
  <2> QED BY <2>2 DEF Mx!MutualExclusion
<1>2. ASSUME NEW p \in Mx!Procs, Mx!ParkTask(p) PROVE Mx!MutualExclusion'
  BY <1>2 DEF Mx!ParkTask, Mx!MutualExclusion, Mx!Owns, Mx!TypeOK
<1>3. ASSUME NEW p \in Mx!Procs, Mx!WaitThread(p) PROVE Mx!MutualExclusion'
  BY <1>3 DEF Mx!WaitThread, Mx!MutualExclusion, Mx!Owns, Mx!TypeOK
<1>4. ASSUME NEW p \in Mx!Procs, Mx!HandOver(p) PROVE Mx!MutualExclusion'
  <2>1. /\ mu_pc[p] = "holding"
        /\ mu_waking' = [mu_waking EXCEPT ![p] = Head(mu_waiters)]
        /\ mu_pc' = [mu_pc EXCEPT ![p] = "wake"]
        /\ UNCHANGED mu_held
    BY <1>4 DEF Mx!HandOver
  <2>2. Head(mu_waiters) \in Tasks
    BY <1>4 DEF Mx!HandOver, Mx!TypeOK
  <2>3. \A q \in Mx!Procs : mu_waking[q] = None /\ (mu_pc[q] = "holding" => q = p)
    BY <2>1, MxHolderAlone
  <2>4. mu_held
    BY <2>1 DEF Mx!MutualExclusion, Mx!Owns
  <2>5. \A q \in Mx!Procs : Mx!Owns(q)' <=> q = Head(mu_waiters)
    BY <2>1, <2>2, <2>3 DEF Mx!Owns, Mx!TypeOK
  <2> QED BY <2>1, <2>2, <2>4, <2>5 DEF Mx!MutualExclusion
<1>5. ASSUME NEW p \in Mx!Procs, Mx!WakeOwner(p) PROVE Mx!MutualExclusion'
  <2> DEFINE t == mu_waking[p]
  <2>1. /\ mu_pc[p] = "wake"
        /\ mu_pc' = [mu_pc EXCEPT ![p] = "idle", ![t] = "holding"]
        /\ mu_waking' = [mu_waking EXCEPT ![p] = None]
        /\ UNCHANGED mu_held
    BY <1>5 DEF Mx!WakeOwner
  <2>2. t \in Mx!Procs /\ mu_pc[t] = "parked"
    BY <2>1 DEF MxLinked, MxWakingOK, Mx!TypeOK
  <2>3. Mx!Owns(t) /\ mu_held /\ \A q \in Mx!Procs : Mx!Owns(q) => q = t
    BY <2>2 DEF Mx!Owns, Mx!MutualExclusion
  <2>4. \A q \in Mx!Procs : Mx!Owns(q)' <=> q = t
    BY <2>1, <2>2, <2>3 DEF Mx!Owns, Mx!TypeOK
  <2> QED BY <2>1, <2>2, <2>3, <2>4 DEF Mx!MutualExclusion
<1>6. ASSUME NEW p \in Mx!Procs, Mx!Free(p) PROVE Mx!MutualExclusion'
  <2>1. \A q \in Mx!Procs : mu_waking[q] = None /\ (mu_pc[q] = "holding" => q = p)
    BY <1>6, MxHolderAlone DEF Mx!Free
  <2>2. ~ mu_held' /\ \A q \in Mx!Procs : ~ Mx!Owns(q)'
    BY <1>6, <2>1 DEF Mx!Free, Mx!Owns, Mx!TypeOK
  <2> QED BY <2>2 DEF Mx!MutualExclusion
<1>7. ASSUME NEW p \in Mx!Procs, Mx!NotifyOne(p) PROVE Mx!MutualExclusion'
  BY <1>7 DEF Mx!NotifyOne, Mx!MutualExclusion, Mx!Owns, Mx!TypeOK
<1>8. CASE UNCHANGED Mx!vars
  BY <1>8 DEF Mx!vars, Mx!MutualExclusion, Mx!Owns
<1> QED BY <1>1, <1>2, <1>3, <1>4, <1>5, <1>6, <1>7, <1>8 DEF Mx!Next, Mx!Step

\* No step leaves a task, or a thread nobody is notifying, with a free lock.
LEMMA MxFreeStep ==
  Mx!TypeOK /\ MxLinked /\ Mx!NobodyWaitsForFreeLock /\ [Mx!Next]_(Mx!vars)
    => Mx!NobodyWaitsForFreeLock'
<1> SUFFICES ASSUME Mx!TypeOK, MxLinked, Mx!NobodyWaitsForFreeLock, [Mx!Next]_(Mx!vars)
             PROVE  Mx!NobodyWaitsForFreeLock'
  OBVIOUS
<1> USE MxCallerFacts DEF Mx!NobodyWaitsForFreeLock
<1>1. ASSUME NEW p \in Mx!Procs, Mx!Lock(p) PROVE Mx!NobodyWaitsForFreeLock'
  BY <1>1 DEF Mx!Lock
<1>2. ASSUME NEW p \in Mx!Procs, Mx!ParkTask(p) PROVE Mx!NobodyWaitsForFreeLock'
  BY <1>2 DEF Mx!ParkTask
<1>3. ASSUME NEW p \in Mx!Procs, Mx!WaitThread(p) PROVE Mx!NobodyWaitsForFreeLock'
  BY <1>3 DEF Mx!WaitThread
<1>4. ASSUME NEW p \in Mx!Procs, Mx!HandOver(p) PROVE Mx!NobodyWaitsForFreeLock'
  BY <1>4 DEF Mx!HandOver, Mx!TypeOK
<1>5. ASSUME NEW p \in Mx!Procs, Mx!WakeOwner(p) PROVE Mx!NobodyWaitsForFreeLock'
  <2> DEFINE t == mu_waking[p]
  <2>1. mu_pc[p] = "wake" /\ t \in Tasks /\ mu_pc[t] = "parked"
    BY <1>5 DEF Mx!WakeOwner, MxLinked, MxWakingOK, Mx!TypeOK
  <2>2. \A q \in Mx!Procs : mu_pc'[q] = IF q = t THEN "holding"
                                 ELSE IF q = p THEN "idle" ELSE mu_pc[q]
    BY <1>5, <2>1 DEF Mx!WakeOwner, Mx!TypeOK
  <2> SUFFICES ASSUME ~ mu_held', \E r \in Threads : mu_pc'[r] = "cv"
               PROVE  \E q \in Mx!Procs : mu_pc'[q] \in {"notify", "notified"}
    BY <1>5 DEF Mx!WakeOwner
  <2>3. \E r \in Threads : mu_pc[r] = "cv"
    BY <2>2
  <2>4. PICK q \in Mx!Procs : mu_pc[q] \in {"notify", "notified"}
    BY <1>5, <2>3 DEF Mx!WakeOwner
  <2>5. mu_pc'[q] = mu_pc[q]
    BY <2>1, <2>2, <2>4
  <2> QED BY <2>4, <2>5
<1>6. ASSUME NEW p \in Mx!Procs, Mx!Free(p) PROVE Mx!NobodyWaitsForFreeLock'
  BY <1>6 DEF Mx!Free, Mx!TypeOK
<1>7. ASSUME NEW p \in Mx!Procs, Mx!NotifyOne(p) PROVE Mx!NobodyWaitsForFreeLock'
  BY <1>7 DEF Mx!NotifyOne, Mx!TypeOK
<1>8. CASE UNCHANGED Mx!vars
  BY <1>8 DEF Mx!vars
<1> QED BY <1>1, <1>2, <1>3, <1>4, <1>5, <1>6, <1>7, <1>8 DEF Mx!Next, Mx!Step

\* The invariant holds in every reachable state.
LEMMA MxInvariance == Mx!Spec => []MxIInv
<1>1. Mx!Init => MxIInv
  BY MxInitInv
<1>2. MxIInv /\ [Mx!Next]_(Mx!vars) => MxIInv'
  BY MxTypeStep, MxLinkedStep, MxExclusionStep, MxFreeStep DEF MxIInv, MxLinked
<1> QED BY <1>1, <1>2, PTL DEF Mx!Spec

\* Every variable keeps to its type.
LEMMA MxTypeCorrect == Mx!Spec => []Mx!TypeOK
<1>1. MxIInv => Mx!TypeOK
  BY DEF MxIInv
<1> QED BY <1>1, MxInvariance, PTL

\* lock and unlock by any tasks and threads: at most one owner across hand-overs,
\* and `held` is true exactly while there is one.
LEMMA MxExclusion == Mx!Spec => []Mx!MutualExclusion
<1>1. MxIInv => Mx!MutualExclusion
  BY DEF MxIInv
<1> QED BY <1>1, MxInvariance, PTL

\* A free lock has no task queued for it, and no thread that nobody has notified.
LEMMA MxNobodyForgotten == Mx!Spec => []Mx!NobodyWaitsForFreeLock
<1>1. MxIInv => Mx!NobodyWaitsForFreeLock
  BY DEF MxIInv
<1> QED BY <1>1, MxInvariance, PTL

-----------------------------------------------------------------------------
(* The mutex implements AbstractLock. *)

\* Whoever owns the lock is TheOwner.
LEMMA MxOwnerIs ==
  ASSUME Mx!MutualExclusion, NEW p \in Mx!Procs, Mx!Owns(p)
  PROVE  Mx!TheOwner = p
BY DEF Mx!TheOwner, Mx!MutualExclusion

\* A lock that nobody owns has no TheOwner.
LEMMA MxOwnerIsNone ==
  ASSUME \A p \in Mx!Procs : ~ Mx!Owns(p)
  PROVE  Mx!TheOwner = None
BY DEF Mx!TheOwner

\* If the owners stay the same, so does TheOwner.
LEMMA MxSameOwner ==
  ASSUME Mx!MutualExclusion, Mx!MutualExclusion', \A q \in Mx!Procs : Mx!Owns(q)' <=> Mx!Owns(q)
  PROVE  Mx!TheOwner' = Mx!TheOwner
<1>1. CASE \E p \in Mx!Procs : Mx!Owns(p)
  <2> PICK p \in Mx!Procs : Mx!Owns(p)
    BY <1>1
  <2>1. Mx!TheOwner = p
    BY MxOwnerIs
  <2>2. Mx!TheOwner' = p
    BY DEF Mx!TheOwner, Mx!MutualExclusion
  <2> QED BY <2>1, <2>2
<1>2. CASE \A p \in Mx!Procs : ~ Mx!Owns(p)
  BY <1>2 DEF Mx!TheOwner
<1> QED BY <1>1, <1>2

\* Every step acquires, frees or hands over the abstract lock, or leaves it alone.
LEMMA MxStepRefines == MxIInv /\ MxIInv' /\ [Mx!Next]_(Mx!vars) => [Mx!Abstract!Next]_(Mx!TheOwner)
<1> SUFFICES ASSUME MxIInv, MxIInv', [Mx!Next]_(Mx!vars) PROVE [Mx!Abstract!Next]_(Mx!TheOwner)
  OBVIOUS
<1> USE MxCallerFacts
<1>0. /\ Mx!TypeOK /\ MxLinked /\ Mx!MutualExclusion /\ Mx!MutualExclusion'
  BY DEF MxIInv
<1>1. ASSUME NEW p \in Mx!Procs, Mx!Lock(p) PROVE Mx!Abstract!Next
  <2>1. \A q \in Mx!Procs : ~ Mx!Owns(q)
    BY <1>0, <1>1 DEF Mx!Lock, Mx!MutualExclusion
  <2>2. Mx!TheOwner = None
    BY <2>1, MxOwnerIsNone
  <2>3. Mx!Owns(p)'
    BY <1>0, <1>1 DEF Mx!Lock, Mx!Owns, Mx!TypeOK
  <2>4. Mx!TheOwner' = p
    BY <1>0, <2>3 DEF Mx!TheOwner, Mx!MutualExclusion
  <2> QED BY <2>2, <2>4 DEF Mx!Abstract!Next, Mx!Abstract!Acquire, Mx!Abstract!Procs, Mx!Procs
<1>2. ASSUME NEW p \in Mx!Procs, Mx!ParkTask(p) PROVE Mx!TheOwner' = Mx!TheOwner
  <2>1. \A q \in Mx!Procs : Mx!Owns(q)' <=> Mx!Owns(q)
    BY <1>0, <1>2 DEF Mx!ParkTask, Mx!Owns, Mx!TypeOK
  <2> QED BY <1>0, <2>1, MxSameOwner
<1>3. ASSUME NEW p \in Mx!Procs, Mx!WaitThread(p) PROVE Mx!TheOwner' = Mx!TheOwner
  <2>1. \A q \in Mx!Procs : Mx!Owns(q)' <=> Mx!Owns(q)
    BY <1>0, <1>3 DEF Mx!WaitThread, Mx!Owns, Mx!TypeOK
  <2> QED BY <1>0, <2>1, MxSameOwner
<1>4. ASSUME NEW p \in Mx!Procs, Mx!HandOver(p) PROVE Mx!Abstract!Next
  <2>1. Mx!TheOwner = p
    BY <1>0, <1>4, MxOwnerIs DEF Mx!HandOver, Mx!Owns
  <2>2. PICK t \in Tasks : t = Head(mu_waiters)
    BY <1>0, <1>4 DEF Mx!HandOver, Mx!TypeOK
  <2>3. mu_waking'[p] = t
    BY <1>0, <1>4, <2>2 DEF Mx!HandOver, Mx!TypeOK
  <2>4. Mx!TheOwner' = t
    BY <1>0, <2>3 DEF Mx!TheOwner, Mx!Owns, Mx!MutualExclusion
  <2> QED BY <2>1, <2>4 DEF Mx!Abstract!Next, Mx!Abstract!HandOver, Mx!Abstract!Procs, Mx!Procs
<1>5. ASSUME NEW p \in Mx!Procs, Mx!WakeOwner(p) PROVE Mx!TheOwner' = Mx!TheOwner
  <2>1. PICK t \in Mx!Procs : t = mu_waking[p] /\ Mx!Owns(t)
    BY <1>0, <1>5 DEF Mx!WakeOwner, MxLinked, MxWakingOK, Mx!TypeOK, Mx!Owns
  <2>2. mu_pc'[t] = "holding"
    BY <1>0, <1>5, <2>1 DEF Mx!WakeOwner, Mx!TypeOK
  <2>3. Mx!TheOwner = t
    BY <1>0, <2>1, MxOwnerIs
  <2>4. Mx!TheOwner' = t
    BY <1>0, <2>2 DEF Mx!TheOwner, Mx!Owns, Mx!MutualExclusion
  <2> QED BY <2>3, <2>4
<1>6. ASSUME NEW p \in Mx!Procs, Mx!Free(p) PROVE Mx!Abstract!Next
  <2>1. Mx!TheOwner = p
    BY <1>0, <1>6, MxOwnerIs DEF Mx!Free, Mx!Owns
  <2>2. \A q \in Mx!Procs : ~ Mx!Owns(q)'
    BY <1>0, <1>6 DEF Mx!Free, Mx!MutualExclusion
  <2>3. Mx!TheOwner' = None
    BY <2>2 DEF Mx!TheOwner
  <2> QED BY <2>1, <2>3 DEF Mx!Abstract!Next, Mx!Abstract!Release, Mx!Abstract!Procs, Mx!Procs
<1>7. ASSUME NEW p \in Mx!Procs, Mx!NotifyOne(p) PROVE Mx!TheOwner' = Mx!TheOwner
  <2>1. \A q \in Mx!Procs : Mx!Owns(q)' <=> Mx!Owns(q)
    BY <1>0, <1>7 DEF Mx!NotifyOne, Mx!Owns, Mx!TypeOK
  <2> QED BY <1>0, <2>1, MxSameOwner
<1>8. CASE UNCHANGED Mx!vars
  BY <1>8 DEF Mx!vars, Mx!TheOwner, Mx!Owns
<1> QED BY <1>1, <1>2, <1>3, <1>4, <1>5, <1>6, <1>7, <1>8 DEF Mx!Next, Mx!Step

\* MutexT implements the lock its comment promises (AbstractLock), under the
\* mapping that takes the holder, or the task a hand-over is under way to, for
\* the owner.
LEMMA MxRefinement == Mx!Spec => Mx!ImplementsLock
<1>1. Mx!Init => Mx!Abstract!Init
  <2>1. Mx!Init => \A p \in Mx!Procs : ~ Mx!Owns(p)
    BY MxCallerFacts DEF Mx!Init, Mx!Owns
  <2> QED BY <2>1, MxOwnerIsNone DEF Mx!Abstract!Init
<1>2. MxIInv /\ MxIInv' /\ [Mx!Next]_(Mx!vars) => [Mx!Abstract!Next]_(Mx!TheOwner)
  BY MxStepRefines
<1> QED BY <1>1, <1>2, MxInvariance, PTL DEF Mx!Spec, Mx!ImplementsLock, Mx!Abstract!Spec

-----------------------------------------------------------------------------
(* Read-write lock.  The counts are exact only if an admission counts tasks that *)
(* do not hold the lock yet, each once; so the invariant adds that the queue     *)
(* holds parked tasks without repetition (RwQueueOK).  The sets counted stay     *)
(* finite whatever the sets of callers are.                                      *)

\* The instance counts as the library of proved facts does.
LEMMA RwCardinality == \A S : Rw!Cardinality(S) = Cardinality(S)
BY Zenon DEF Rw!Cardinality, Cardinality

\* The queue holds parked tasks, each once.
RwQueueOK ==
  /\ \A i \in DOMAIN rw_waiters : rw_pc[rw_waiters[i].task] = "parked"
  /\ \A i, j \in DOMAIN rw_waiters : rw_waiters[i].task = rw_waiters[j].task => i = j

\* Only threads wait on cv.
RwOnCvOK == \A t \in Tasks : rw_pc[t] \notin {"cv r", "cv w", "notified r", "notified w"}

\* The holders are those the state counts.
RwHoldersOK ==
  /\ IsFiniteSet(Rw!Reading) /\ rw_readers = Cardinality(Rw!Reading)
  /\ rw_writer <=> Rw!Writing # {}
  /\ \A p, q \in Rw!Writing : p = q
  /\ Rw!Writing # {} => Rw!Reading = {}

RwWritersOK == IsFiniteSet(Rw!WaitingThreads("write")) /\ Rw!WritersAreCounted

RwIInv == Rw!TypeOK /\ RwQueueOK /\ RwOnCvOK /\ RwHoldersOK /\ RwWritersOK /\ Rw!NobodyIsStranded

-----------------------------------------------------------------------------
(* Facts used in several steps *)

\* Tasks and threads are callers, and different ones.
LEMMA RwCallerFacts ==
  /\ Tasks \subseteq Rw!Procs /\ Threads \subseteq Rw!Procs
  /\ \A t \in Tasks : t \notin Threads
BY CallersAssumption DEF Rw!Procs

\* A set of natural numbers that is not empty has a least element.
LEMMA RwLeastNumber ==
  ASSUME NEW T \in SUBSET Nat, T # {}
  PROVE  \E m \in T : \A k \in T : m <= k
<1> DEFINE R == {xy \in Nat \X Nat : xy[1] < xy[2]}
<1>1. IsWellFoundedOn(R, Nat)
  BY NatLessThanWellFounded DEF OpToRel
<1>2. \A x, y \in Nat : <<y, x>> \in R <=> y < x
  OBVIOUS
<1> HIDE DEF R
<1>3. PICK x \in T : \A y \in T : ~ (<<y, x>> \in R)
  BY <1>1, WFMin, Zenon
<1>4. \A y \in T : x <= y
  <2> TAKE y \in T
  <2>1. x \in Nat /\ y \in Nat
    OBVIOUS
  <2>2. ~ (<<y, x>> \in R)
    BY <1>3
  <2>3. ~ (y < x)
    BY <1>2, <2>1, <2>2, Zenon
  <2> QED BY <2>1, <2>3
<1> QED BY <1>4

\* Two sets of which one is the other moved by n have as many elements.
LEMMA RwShifted ==
  ASSUME NEW S \in SUBSET Nat, IsFiniteSet(S), NEW n \in Nat, NEW T \in SUBSET Nat,
         \A i \in S : i >= n /\ i - n \in T,
         \A j \in T : j + n \in S
  PROVE  IsFiniteSet(T) /\ Cardinality(T) = Cardinality(S)
<1> DEFINE f == [i \in S |-> i - n]
<1>1. f \in [S -> T]
  OBVIOUS
<1>2. \A i, j \in S : f[i] = f[j] => i = j
  OBVIOUS
<1>3. \A j \in T : \E i \in S : f[i] = j
  <2> TAKE j \in T
  <2>1. j + n \in S /\ f[j + n] = j
    OBVIOUS
  <2> QED BY <2>1
<1>4. f \in Bijection(S, T)
  <2> HIDE DEF f
  <2> QED BY <1>1, <1>2, <1>3 DEF Bijection, Injection, Surjection, IsInjective
<1> QED BY <1>4, FS_Bijection DEF ExistsBijection

\* admit finds how many readers are at the front of the queue.
LEMMA RwLeadingReadersExist ==
  ASSUME NEW q \in Seq(Rw!Waiter)
  PROVE  /\ Rw!LeadingReaders(q) \in 0 .. Len(q)
         /\ \A i \in 1 .. Rw!LeadingReaders(q) : q[i].mode = "read"
         /\ Rw!LeadingReaders(q) < Len(q) => q[Rw!LeadingReaders(q) + 1].mode = "write"
<1> DEFINE Good(n) == /\ \A i \in 1 .. n : q[i].mode = "read"
                      /\ n < Len(q) => q[n + 1].mode = "write"
           W == {i \in 1 .. Len(q) : q[i].mode = "write"}
<1>1. Len(q) \in Nat /\ \A i \in 1 .. Len(q) : q[i].mode \in {"read", "write"}
  <2>1. \A i \in 1 .. Len(q) : q[i] \in Rw!Waiter
    OBVIOUS
  <2> QED BY <2>1 DEF Rw!Waiter
<1>2. \E n \in 0 .. Len(q) : Good(n)
  <2>1. CASE W = {}
    <3>1. Good(Len(q)) /\ Len(q) \in 0 .. Len(q)
      BY <1>1, <2>1
    <3> QED BY <3>1
  <2>2. CASE W # {}
    <3>1. PICK m \in W : \A k \in W : m <= k
      <4>1. W \in SUBSET Nat
        OBVIOUS
      <4> HIDE DEF W
      <4> QED BY <2>2, <4>1, RwLeastNumber, Zenon
    <3>2. \A i \in 1 .. m - 1 : q[i].mode = "read"
      BY <1>1, <3>1
    <3>3. m - 1 \in 0 .. Len(q) /\ Good(m - 1)
      BY <1>1, <3>1, <3>2
    <3> HIDE DEF Good
    <3> QED BY <3>3
  <2> QED BY <2>1, <2>2
<1>3. Rw!LeadingReaders(q) = CHOOSE n \in 0 .. Len(q) : Good(n)
  BY DEF Rw!LeadingReaders
<1>4. Rw!LeadingReaders(q) \in 0 .. Len(q) /\ Good(Rw!LeadingReaders(q))
  <2> HIDE DEF Good
  <2> QED BY <1>2, <1>3
<1> QED BY <1>4

\* How many tasks admit lets in, and which.
LEMMA RwAdmittedFacts ==
  ASSUME NEW q \in Seq(Rw!Waiter), NEW r \in Nat
  PROVE  \E n \in 0 .. Len(q) :
           /\ n = Rw!Admitted(q, r, FALSE)
           /\ \/ \A i \in 1 .. n : q[i].mode = "read"
              \/ n = 1 /\ q[1].mode = "write" /\ r = 0
           /\ q # <<>> /\ n = 0 => r > 0
<1> DEFINE P(n) == /\ n \in 0 .. Len(q)
                   /\ \/ \A i \in 1 .. n : q[i].mode = "read"
                      \/ n = 1 /\ q[1].mode = "write" /\ r = 0
                   /\ q # <<>> /\ n = 0 => r > 0
<1>0. q # <<>> => Head(q) = q[1] /\ Len(q) >= 1 /\ Len(q) \in Nat
  OBVIOUS
<1>1. CASE q = <<>>
  <2>1. Rw!Admitted(q, r, FALSE) = 0
    BY <1>1 DEF Rw!Admitted
  <2>2. P(0)
    BY <1>1
  <2> QED BY <2>1, <2>2
<1>2. CASE q # <<>> /\ Head(q).mode = "write" /\ r = 0
  <2>1. Rw!Admitted(q, r, FALSE) = 1
    BY <1>2 DEF Rw!Admitted
  <2>2. P(1)
    BY <1>0, <1>2
  <2> HIDE DEF P
  <2>3. 1 \in 0 .. Len(q)
    BY <1>0, <1>2
  <2>4. \E n \in 0 .. Len(q) : n = Rw!Admitted(q, r, FALSE) /\ P(n)
    BY <2>1, <2>2, <2>3, Zenon
  <2> QED BY <2>4, Zenon DEF P
<1>3. CASE q # <<>> /\ Head(q).mode = "write" /\ r # 0
  <2>1. Rw!Admitted(q, r, FALSE) = 0
    BY <1>3 DEF Rw!Admitted
  <2>2. P(0) /\ 0 \in 0 .. Len(q)
    BY <1>0, <1>3
  <2> HIDE DEF P
  <2>3. \E n \in 0 .. Len(q) : n = Rw!Admitted(q, r, FALSE) /\ P(n)
    BY <2>1, <2>2, Zenon
  <2> QED BY <2>3, Zenon DEF P
<1>4. CASE q # <<>> /\ Head(q).mode # "write"
  <2> DEFINE m == Rw!LeadingReaders(q)
  <2>1. m = Rw!Admitted(q, r, FALSE)
    BY <1>4 DEF Rw!Admitted
  <2>2. q[1].mode # "write"
    BY <1>0, <1>4
  <2>3. /\ m \in 0 .. Len(q) /\ \A i \in 1 .. m : q[i].mode = "read"
        /\ m < Len(q) => q[m + 1].mode = "write"
    BY RwLeadingReadersExist
  <2>4. m # 0
    <3> HIDE DEF m
    <3> SUFFICES ASSUME m = 0 PROVE FALSE
      OBVIOUS
    <3>1. m + 1 = 1 /\ m < Len(q)
      BY <1>0, <1>4
    <3> QED BY <2>2, <2>3, <3>1
  <2> HIDE DEF m
  <2>5. P(m)
    BY <2>3, <2>4
  <2> HIDE DEF P
  <2>6. \E n \in 0 .. Len(q) : n = Rw!Admitted(q, r, FALSE) /\ P(n)
    BY <2>1, <2>3, <2>5, Zenon
  <2> QED BY <2>6, Zenon DEF P
<1> QED BY <1>1, <1>2, <1>3, <1>4

\* Those of the first n tasks of the queue that wait for the lock in a mode.
RwIn(n, mode) == {rw_waiters[i].task : i \in {j \in 1 .. n : rw_waiters[j].mode = mode}}

\* What the entries of the queue are.
LEMMA RwQueueFacts ==
  ASSUME Rw!TypeOK
  PROVE  /\ Len(rw_waiters) \in Nat /\ DOMAIN rw_waiters = 1 .. Len(rw_waiters)
         /\ \A i \in DOMAIN rw_waiters : /\ rw_waiters[i] \in Rw!Waiter
                                      /\ rw_waiters[i].task \in Tasks
                                      /\ rw_waiters[i].mode \in {"read", "write"}
<1>1. /\ Len(rw_waiters) \in Nat /\ DOMAIN rw_waiters = 1 .. Len(rw_waiters)
      /\ \A i \in DOMAIN rw_waiters : rw_waiters[i] \in Rw!Waiter
  BY DEF Rw!TypeOK
<1> QED BY <1>1 DEF Rw!Waiter

\* What is left of the queue when its first n tasks are gone.
LEMMA RwRemainder ==
  ASSUME Rw!TypeOK, NEW n \in 0 .. Len(rw_waiters), NEW s, s = SubSeq(rw_waiters, n + 1, Len(rw_waiters))
  PROVE  /\ s \in Seq(Rw!Waiter) /\ DOMAIN s = 1 .. Len(rw_waiters) - n
         /\ \A i \in DOMAIN s : i + n \in DOMAIN rw_waiters /\ s[i] = rw_waiters[i + n]
<1>1. /\ Len(rw_waiters) \in Nat /\ DOMAIN rw_waiters = 1 .. Len(rw_waiters) /\ n \in Nat
      /\ \A i \in n + 1 .. Len(rw_waiters) : rw_waiters[i] \in Rw!Waiter
  BY RwQueueFacts
<1>2. n + 1 \in Int /\ Len(rw_waiters) \in Int
  BY <1>1
<1>3. /\ s \in Seq(Rw!Waiter)
      /\ Len(s) = IF n + 1 <= Len(rw_waiters) THEN Len(rw_waiters) - (n + 1) + 1 ELSE 0
      /\ \A i \in 1 .. Len(rw_waiters) - (n + 1) + 1 : s[i] = rw_waiters[n + 1 + i - 1]
  BY <1>1, <1>2, SubSeqProperties
<1>4. Len(s) = Len(rw_waiters) - n
  <2>1. n \in Nat /\ Len(rw_waiters) \in Nat /\ n <= Len(rw_waiters)
    BY <1>1
  <2>2. Len(s) = IF n + 1 <= Len(rw_waiters) THEN Len(rw_waiters) - (n + 1) + 1 ELSE 0
    BY <1>3
  <2> DEFINE L == Len(rw_waiters)
             K == Len(s)
  <2>3. L \in Nat /\ n \in Nat /\ n <= L /\ K = IF n + 1 <= L THEN L - (n + 1) + 1 ELSE 0
    BY <2>1, <2>2
  <2> HIDE DEF L, K
  <2>4. K = L - n
    BY <2>3
  <2> QED BY <2>4 DEF L, K
<1>5. DOMAIN s = 1 .. Len(rw_waiters) - n
  BY <1>3, <1>4
<1>6. ASSUME NEW i \in DOMAIN s PROVE i + n \in DOMAIN rw_waiters /\ s[i] = rw_waiters[i + n]
  <2>1. i \in 1 .. Len(rw_waiters) - (n + 1) + 1 /\ n + 1 + i - 1 = i + n
    BY <1>1, <1>5
  <2> QED BY <1>1, <1>3, <2>1
<1> QED BY <1>3, <1>5, <1>6

\* What p's leaving the lock with r readers does if it lets in n waiting tasks.
RwReleased(p, r, n) ==
  /\ rw_readers' = r + Cardinality(RwIn(n, "read"))
  /\ rw_writer' = (RwIn(n, "write") # {})
  /\ rw_writer_waiting' = rw_writer_waiting - Cardinality(RwIn(n, "write"))
  /\ rw_waiters' = SubSeq(rw_waiters, n + 1, Len(rw_waiters))
  /\ rw_pc' = [q \in Rw!Procs |-> rw_pc'[q]]
  /\ \A q \in Rw!Procs : rw_pc'[q] = IF q = p THEN "notify"
                               ELSE IF q \in RwIn(n, "read") THEN "reading"
                               ELSE IF q \in RwIn(n, "write") THEN "writing" ELSE rw_pc[q]
  /\ IsFiniteSet(RwIn(n, "read"))
  /\ \A mode \in {"read", "write"} : \A t \in RwIn(n, mode) : t \in Tasks /\ rw_pc[t] = "parked"
  /\ \/ RwIn(n, "write") = {} /\ \A i \in 1 .. n : rw_waiters[i].mode = "read"
     \/ /\ n = 1 /\ r = 0 /\ rw_waiters[1].mode = "write"
        /\ RwIn(n, "read") = {} /\ RwIn(n, "write") = {rw_waiters[1].task}
  /\ rw_waiters # <<>> /\ n = 0 => r > 0
  /\ rw_waiters # <<>> /\ n # 0 => RwIn(n, "read") # {} \/ RwIn(n, "write") # {}

\* A release lets in n tasks off the front of the queue: readers, or one writer.
LEMMA RwReleaseFacts ==
  ASSUME Rw!TypeOK, RwQueueOK, NEW p \in Rw!Procs, rw_pc[p] # "parked", NEW r \in Nat, Rw!Release(p, r)
  PROVE  \E n \in 0 .. Len(rw_waiters) : RwReleased(p, r, n)
<1> DEFINE n == Rw!Admitted(rw_waiters, r, FALSE)
           won == SubSeq(rw_waiters, 1, n)
           in(mode) == {won[i].task : i \in {j \in 1 .. n : won[j].mode = mode}}
<1>1. /\ n \in 0 .. Len(rw_waiters)
      /\ \/ \A i \in 1 .. n : rw_waiters[i].mode = "read"
         \/ n = 1 /\ rw_waiters[1].mode = "write" /\ r = 0
      /\ rw_waiters # <<>> /\ n = 0 => r > 0
  <2>1. rw_waiters \in Seq(Rw!Waiter)
    BY DEF Rw!TypeOK
  <2>2. \E k \in 0 .. Len(rw_waiters) :
          /\ k = n
          /\ \/ \A i \in 1 .. k : rw_waiters[i].mode = "read"
             \/ k = 1 /\ rw_waiters[1].mode = "write" /\ r = 0
          /\ rw_waiters # <<>> /\ k = 0 => r > 0
    BY <2>1, RwAdmittedFacts, Zenon
  <2> HIDE DEF n
  <2> QED BY <2>2
<1>2. /\ rw_readers' = r + Cardinality(in("read"))
      /\ rw_writer' = (in("write") # {})
      /\ rw_writer_waiting' = rw_writer_waiting - Cardinality(in("write"))
      /\ rw_waiters' = SubSeq(rw_waiters, n + 1, Len(rw_waiters))
      /\ rw_pc' = [q \in Rw!Procs |->
                  CASE q = p -> "notify"
                    [] q \in in("read") -> "reading"
                    [] q \in in("write") -> "writing"
                    [] OTHER -> rw_pc[q]]
  BY RwCardinality DEF Rw!Release, Rw!Registered
<1> HIDE DEF n
<1>3. \A i \in 1 .. n : i \in DOMAIN rw_waiters /\ won[i] = rw_waiters[i]
  BY <1>1, RwQueueFacts
<1> HIDE DEF won
<1>4. \A mode \in {"read", "write"} : in(mode) = RwIn(n, mode)
  BY <1>3 DEF RwIn
<1> HIDE DEF in
<1>5. \A mode \in {"read", "write"} : \A t \in RwIn(n, mode) : t \in Tasks /\ rw_pc[t] = "parked"
  BY <1>3, RwQueueFacts DEF RwIn, RwQueueOK
<1>6. IsFiniteSet(RwIn(n, "read"))
  <2> DEFINE S == {j \in 1 .. n : rw_waiters[j].mode = "read"}
             f == [i \in S |-> rw_waiters[i].task]
  <2>1. IsFiniteSet(1 .. n)
    <3>1. 1 \in Int /\ n \in Int
      BY <1>1
    <3> QED BY <3>1, FS_Interval
  <2>2. IsFiniteSet(S)
    BY <2>1, FS_Subset
  <2>3. f \in Surjection(S, RwIn(n, "read"))
    BY DEF Surjection, RwIn
  <2> HIDE DEF f, S
  <2> QED BY <2>2, <2>3, FS_Surjection
<1>7. \/ RwIn(n, "write") = {} /\ \A i \in 1 .. n : rw_waiters[i].mode = "read"
      \/ /\ n = 1 /\ r = 0 /\ rw_waiters[1].mode = "write"
         /\ RwIn(n, "read") = {} /\ RwIn(n, "write") = {rw_waiters[1].task}
  BY <1>1 DEF RwIn
<1>11. \A q \in Rw!Procs : rw_pc'[q] = IF q = p THEN "notify"
                                ELSE IF q \in RwIn(n, "read") THEN "reading"
                                ELSE IF q \in RwIn(n, "write") THEN "writing" ELSE rw_pc[q]
  <2> TAKE q \in Rw!Procs
  <2>1. rw_pc'[q] = CASE q = p -> "notify"
                   [] q \in in("read") -> "reading"
                   [] q \in in("write") -> "writing"
                   [] OTHER -> rw_pc[q]
    BY <1>2
  <2>2. in("read") = RwIn(n, "read") /\ in("write") = RwIn(n, "write")
    BY <1>4
  <2>3. /\ q = p => q \notin RwIn(n, "read") /\ q \notin RwIn(n, "write")
        /\ ~ (q \in RwIn(n, "read") /\ q \in RwIn(n, "write"))
    BY <1>5, <1>7
  <2> QED BY <2>1, <2>2, <2>3
<1>8. rw_waiters # <<>> /\ n # 0 => RwIn(n, "read") # {} \/ RwIn(n, "write") # {}
  <2> SUFFICES ASSUME n # 0 PROVE RwIn(n, "read") # {} \/ RwIn(n, "write") # {}
    OBVIOUS
  <2>1. 1 \in 1 .. n /\ rw_waiters[1].mode \in {"read", "write"}
    BY <1>1, <1>3, RwQueueFacts
  <2> QED BY <2>1 DEF RwIn
<1>9. rw_pc' = [q \in Rw!Procs |-> rw_pc'[q]]
  BY <1>2
<1>10. /\ rw_readers' = r + Cardinality(RwIn(n, "read"))
       /\ rw_writer' = (RwIn(n, "write") # {})
       /\ rw_writer_waiting' = rw_writer_waiting - Cardinality(RwIn(n, "write"))
       /\ rw_waiters' = SubSeq(rw_waiters, n + 1, Len(rw_waiters))
  BY <1>2, <1>4
<1> HIDE DEF RwIn
<1> HIDE DEF n
<1>12. RwReleased(p, r, n)
  BY <1>1, <1>5, <1>6, <1>7, <1>8, <1>9, <1>10, <1>11, Zenon DEF RwReleased
<1> QED BY <1>1, <1>12
-----------------------------------------------------------------------------
(* The invariant is inductive *)

\* In the initial state nobody holds the lock or waits for it.
LEMMA RwInitInv == Rw!Init => RwIInv
<1> SUFFICES ASSUME Rw!Init PROVE RwIInv
  OBVIOUS
<1> USE RwCallerFacts
<1>1. rw_waiters = <<>> /\ DOMAIN rw_waiters = {}
  BY DEF Rw!Init
<1>2. Rw!TypeOK
  <2>1. rw_readers \in Nat /\ rw_writer_waiting \in Nat /\ rw_waiters \in Seq(Rw!Waiter)
    BY DEF Rw!Init
  <2>2. rw_pc \in [Rw!Procs -> Rw!Pcs]
    BY DEF Rw!Init, Rw!Pcs
  <2>3. rw_writer \in BOOLEAN
    BY Zenon DEF Rw!Init
  <2> QED BY <2>1, <2>2, <2>3 DEF Rw!TypeOK
<1>3. RwQueueOK /\ RwOnCvOK
  BY <1>1 DEF Rw!Init, RwQueueOK, RwOnCvOK
<1>4. Rw!Reading = {} /\ Rw!Writing = {} /\ Rw!QueuedWriters = {} /\ Rw!WaitingThreads("write") = {}
  BY <1>1 DEF Rw!Init, Rw!Reading, Rw!Writing, Rw!QueuedWriters, Rw!WaitingThreads
<1>5. RwHoldersOK
  BY <1>4, FS_EmptySet DEF Rw!Init, RwHoldersOK
<1>6. RwWritersOK
  BY RwCardinality, <1>4, FS_EmptySet DEF Rw!Init, RwWritersOK, Rw!WritersAreCounted
<1>7. Rw!NobodyIsStranded
  BY <1>1 DEF Rw!Init, Rw!NobodyIsStranded
<1> QED BY <1>2, <1>3, <1>5, <1>6, <1>7 DEF RwIInv

\* A holder that leaves is no longer counted, and was no waiting task.
LEMMA RwHolderLeaves ==
  ASSUME Rw!TypeOK, RwHoldersOK, NEW p \in Rw!Procs, Rw!ReadUnlock(p) \/ Rw!WriteUnlock(p)
  PROVE  \E r \in Nat :
           /\ Rw!Release(p, r)
           /\ rw_pc[p] \in {"reading", "writing"}
           /\ IsFiniteSet(Rw!Reading \ {p}) /\ r = Cardinality(Rw!Reading \ {p})
           /\ Rw!Writing \ {p} = {}
<1>0. IsFiniteSet(Rw!Reading) /\ rw_readers = Cardinality(Rw!Reading) /\ rw_readers \in Nat
  BY DEF RwHoldersOK, Rw!TypeOK
<1>1. CASE Rw!ReadUnlock(p)
  <2>1. p \in Rw!Reading /\ rw_pc[p] = "reading" /\ Rw!Release(p, rw_readers - 1)
    BY <1>1 DEF Rw!ReadUnlock, Rw!Reading
  <2>2. /\ IsFiniteSet(Rw!Reading \ {p}) /\ Cardinality(Rw!Reading \ {p}) = rw_readers - 1
        /\ Cardinality(Rw!Reading \ {p}) \in Nat
    BY <1>0, <2>1, FS_RemoveElement, FS_CardinalityType
  <2>3. Rw!Writing = {}
    BY <2>1 DEF RwHoldersOK
  <2> QED BY <2>1, <2>2, <2>3
<1>2. CASE Rw!WriteUnlock(p)
  <2>1. p \in Rw!Writing /\ rw_pc[p] = "writing" /\ Rw!Release(p, rw_readers)
    BY <1>2 DEF Rw!WriteUnlock, Rw!Writing
  <2>2. Rw!Reading = {} /\ Rw!Reading \ {p} = Rw!Reading /\ Rw!Writing \ {p} = {}
    BY <2>1 DEF RwHoldersOK
  <2> QED BY <1>0, <2>1, <2>2
<1> QED BY <1>1, <1>2

\* Every step keeps parked tasks in the queue, each once.
LEMMA RwQueueStep == Rw!TypeOK /\ RwQueueOK /\ RwHoldersOK /\ [Rw!Next]_(Rw!vars) => RwQueueOK'
<1> SUFFICES ASSUME Rw!TypeOK, RwQueueOK, RwHoldersOK, [Rw!Next]_(Rw!vars) PROVE RwQueueOK'
  OBVIOUS
<1> USE RwCallerFacts
<1>0. /\ Len(rw_waiters) \in Nat /\ DOMAIN rw_waiters = 1 .. Len(rw_waiters)
      /\ \A i \in DOMAIN rw_waiters : rw_waiters[i] \in Rw!Waiter /\ rw_waiters[i].task \in Rw!Procs
  BY RwQueueFacts
<1>1. ASSUME UNCHANGED rw_waiters, \A q \in Rw!Procs : rw_pc[q] = "parked" => rw_pc'[q] = "parked"
      PROVE  RwQueueOK'
  BY <1>0, <1>1 DEF RwQueueOK
<1>2. ASSUME NEW p \in Tasks, NEW mode \in {"read", "write"}, rw_pc[p] = "idle",
             rw_waiters' = Append(rw_waiters, [task |-> p, mode |-> mode]),
             rw_pc' = [rw_pc EXCEPT ![p] = "parked"]
      PROVE  RwQueueOK'
  <2> DEFINE x == [task |-> p, mode |-> mode]
  <2>1. x \in Rw!Waiter /\ x.task = p
    BY DEF Rw!Waiter
  <2> HIDE DEF x
  <2>2. /\ DOMAIN rw_waiters' = 1 .. Len(rw_waiters) + 1
        /\ \A i \in DOMAIN rw_waiters : rw_waiters'[i] = rw_waiters[i]
        /\ rw_waiters'[Len(rw_waiters) + 1] = x
    BY <1>2, <2>1 DEF Rw!TypeOK, x
  <2>3. \A i \in DOMAIN rw_waiters : rw_waiters[i].task # p
    BY <1>2 DEF RwQueueOK
  <2>4. \A q \in Rw!Procs : rw_pc'[q] = IF q = p THEN "parked" ELSE rw_pc[q]
    BY <1>2 DEF Rw!TypeOK
  <2>5. \A i \in DOMAIN rw_waiters' : i \in DOMAIN rw_waiters \/ i = Len(rw_waiters) + 1
    BY <1>0, <2>2
  <2>6. \A i \in DOMAIN rw_waiters' : rw_pc'[rw_waiters'[i].task] = "parked"
    BY <1>0, <2>1, <2>2, <2>3, <2>4, <2>5 DEF RwQueueOK
  <2>7. \A i, j \in DOMAIN rw_waiters' : rw_waiters'[i].task = rw_waiters'[j].task => i = j
    BY <2>1, <2>2, <2>3, <2>5 DEF RwQueueOK
  <2> QED BY <2>6, <2>7 DEF RwQueueOK
<1>3. ASSUME NEW p \in Rw!Procs, Rw!ReadUnlock(p) \/ Rw!WriteUnlock(p) PROVE RwQueueOK'
  <2>1. PICK r \in Nat : Rw!Release(p, r) /\ rw_pc[p] # "parked"
    BY <1>3, RwHolderLeaves
  <2>0. PICK n \in 0 .. Len(rw_waiters) : RwReleased(p, r, n)
    BY <2>1, RwReleaseFacts
  <2>2. /\ rw_waiters' = SubSeq(rw_waiters, n + 1, Len(rw_waiters))
        /\ \A mode \in {"read", "write"} : \A t \in RwIn(n, mode) : t \in Tasks
        /\ \A q \in Rw!Procs : rw_pc'[q] = IF q = p THEN "notify"
                                     ELSE IF q \in RwIn(n, "read") THEN "reading"
                                     ELSE IF q \in RwIn(n, "write") THEN "writing" ELSE rw_pc[q]
    BY <2>0, Zenon DEF RwReleased
  <2>3. /\ DOMAIN rw_waiters' = 1 .. Len(rw_waiters) - n
        /\ \A i \in DOMAIN rw_waiters' : i + n \in DOMAIN rw_waiters /\ rw_waiters'[i] = rw_waiters[i + n]
    BY <2>2, RwRemainder
  <2>4. ASSUME NEW i \in DOMAIN rw_waiters' PROVE rw_pc'[rw_waiters'[i].task] = "parked"
    <3>1. \A j \in 1 .. n : j \in DOMAIN rw_waiters /\ j # i + n
      BY <1>0, <2>3
    <3>2. \A j \in 1 .. n : rw_waiters[j].task # rw_waiters[i + n].task
      BY <2>3, <3>1 DEF RwQueueOK
    <3>3. \A mode \in {"read", "write"} : rw_waiters[i + n].task \notin RwIn(n, mode)
      BY <3>2 DEF RwIn
    <3>4. rw_pc[rw_waiters[i + n].task] = "parked" /\ rw_waiters[i + n].task \in Rw!Procs
      BY <1>0, <2>3 DEF RwQueueOK
    <3> QED BY <2>1, <2>2, <2>3, <3>3, <3>4
  <2>5. ASSUME NEW i \in DOMAIN rw_waiters', NEW j \in DOMAIN rw_waiters', rw_waiters'[i].task = rw_waiters'[j].task
        PROVE  i = j
    <3>1. i + n = j + n
      BY <2>3, <2>5 DEF RwQueueOK
    <3> QED BY <2>3, <3>1
  <2> QED BY <2>4, <2>5 DEF RwQueueOK
<1>4. ASSUME NEW p \in Rw!Procs, Rw!ReadLock(p) \/ Rw!WaitReader(p) \/ Rw!WriteLock(p)
               \/ Rw!WriteLockAfterWait(p) \/ Rw!WaitWriter(p) \/ Rw!NotifyAll(p)
      PROVE  RwQueueOK'
  <2>1. UNCHANGED rw_waiters
    BY <1>4 DEF Rw!ReadLock, Rw!WaitReader, Rw!WriteLock, Rw!WriteLockAfterWait, Rw!WaitWriter, Rw!NotifyAll
  <2>2. \A q \in Rw!Procs : rw_pc[q] = "parked" => rw_pc'[q] = "parked"
    BY <1>4 DEF Rw!ReadLock, Rw!WaitReader, Rw!WriteLock, Rw!WriteLockAfterWait, Rw!WaitWriter, Rw!NotifyAll, Rw!TypeOK
  <2> QED BY <1>1, <2>1, <2>2
<1>5. ASSUME NEW p \in Rw!Procs, Rw!ParkReader(p) \/ Rw!ParkWriter(p) PROVE RwQueueOK'
  BY <1>2, <1>5 DEF Rw!ParkReader, Rw!ParkWriter
<1>6. CASE UNCHANGED Rw!vars
  BY <1>1, <1>6 DEF Rw!vars
<1> QED BY <1>3, <1>4, <1>5, <1>6 DEF Rw!Next, Rw!Step
\* Every step keeps the tasks off cv.
LEMMA RwOnCvStep == Rw!TypeOK /\ RwQueueOK /\ RwHoldersOK /\ RwOnCvOK /\ [Rw!Next]_(Rw!vars) => RwOnCvOK'
<1> SUFFICES ASSUME Rw!TypeOK, RwQueueOK, RwHoldersOK, RwOnCvOK, [Rw!Next]_(Rw!vars) PROVE RwOnCvOK'
  OBVIOUS
<1> USE RwCallerFacts DEF RwOnCvOK
<1>1. ASSUME NEW p \in Rw!Procs, Rw!ReadUnlock(p) \/ Rw!WriteUnlock(p) PROVE RwOnCvOK'
  <2>1. PICK r \in Nat : Rw!Release(p, r) /\ rw_pc[p] # "parked"
    BY <1>1, RwHolderLeaves
  <2>2. PICK n \in 0 .. Len(rw_waiters) : RwReleased(p, r, n)
    BY <2>1, RwReleaseFacts
  <2>3. \A q \in Rw!Procs : rw_pc'[q] \in {"notify", "reading", "writing", rw_pc[q]}
    BY <2>2 DEF RwReleased
  <2> QED BY <2>3
<1>2. ASSUME NEW p \in Rw!Procs, Rw!ReadLock(p) \/ Rw!WriteLock(p) \/ Rw!WriteLockAfterWait(p)
               \/ Rw!ParkReader(p) \/ Rw!ParkWriter(p) \/ Rw!WaitReader(p) \/ Rw!WaitWriter(p) \/ Rw!NotifyAll(p)
      PROVE  RwOnCvOK'
  BY <1>2 DEF Rw!ReadLock, Rw!WriteLock, Rw!WriteLockAfterWait, Rw!ParkReader, Rw!ParkWriter, Rw!WaitReader,
              Rw!WaitWriter, Rw!NotifyAll, Rw!TypeOK
<1>3. CASE UNCHANGED Rw!vars
  BY <1>3 DEF Rw!vars
<1> QED BY <1>1, <1>2, <1>3 DEF Rw!Next, Rw!Step

\* Every step keeps the counts of the holders, and readers or one writer.
LEMMA RwHoldersStep == Rw!TypeOK /\ RwQueueOK /\ RwHoldersOK /\ [Rw!Next]_(Rw!vars) => RwHoldersOK'
<1> SUFFICES ASSUME Rw!TypeOK, RwQueueOK, RwHoldersOK, [Rw!Next]_(Rw!vars) PROVE RwHoldersOK'
  OBVIOUS
<1> USE RwCallerFacts
<1>0. IsFiniteSet(Rw!Reading) /\ rw_readers = Cardinality(Rw!Reading) /\ rw_readers \in Nat
  BY DEF RwHoldersOK, Rw!TypeOK
<1>1. ASSUME Rw!Reading' = Rw!Reading, Rw!Writing' = Rw!Writing, rw_readers' = rw_readers, rw_writer' = rw_writer
      PROVE  RwHoldersOK'
  BY <1>1 DEF RwHoldersOK
<1>2. ASSUME NEW p \in Rw!Procs, Rw!ReadLock(p) PROVE RwHoldersOK'
  <2>1. /\ p \notin Rw!Reading /\ Rw!Reading' = Rw!Reading \cup {p} /\ Rw!Writing' = Rw!Writing
        /\ rw_readers' = rw_readers + 1 /\ rw_writer' = rw_writer /\ ~rw_writer
    BY <1>2 DEF Rw!ReadLock, Rw!ReaderMayEnter, Rw!Reading, Rw!Writing, Rw!TypeOK
  <2>2. IsFiniteSet(Rw!Reading') /\ Cardinality(Rw!Reading') = Cardinality(Rw!Reading) + 1
    BY <1>0, <2>1, FS_AddElement
  <2> QED BY <1>0, <2>1, <2>2 DEF RwHoldersOK
<1>3. ASSUME NEW p \in Rw!Procs, Rw!WriteLock(p) \/ Rw!WriteLockAfterWait(p) PROVE RwHoldersOK'
  <2>1. /\ Rw!Reading' = Rw!Reading /\ Rw!Writing' = Rw!Writing \cup {p}
        /\ rw_readers' = rw_readers /\ rw_readers = 0 /\ rw_writer' = TRUE /\ ~rw_writer
    BY <1>3 DEF Rw!WriteLock, Rw!WriteLockAfterWait, Rw!WriterMayEnter, Rw!Reading, Rw!Writing, Rw!TypeOK
  <2>2. Rw!Reading = {}
    BY <1>0, <2>1, FS_EmptySet
  <2>3. Rw!Writing' = {p}
    BY <2>1 DEF RwHoldersOK
  <2> QED BY <1>0, <2>1, <2>2, <2>3 DEF RwHoldersOK
<1>4. ASSUME NEW p \in Rw!Procs,
             Rw!ParkReader(p) \/ Rw!WaitReader(p) \/ Rw!ParkWriter(p) \/ Rw!WaitWriter(p) \/ Rw!NotifyAll(p)
      PROVE  RwHoldersOK'
  <2>1. rw_readers' = rw_readers /\ rw_writer' = rw_writer
    BY <1>4 DEF Rw!ParkReader, Rw!WaitReader, Rw!ParkWriter, Rw!WaitWriter, Rw!NotifyAll
  <2>2. Rw!Reading' = Rw!Reading /\ Rw!Writing' = Rw!Writing
    BY <1>4 DEF Rw!ParkReader, Rw!WaitReader, Rw!ParkWriter, Rw!WaitWriter, Rw!NotifyAll, Rw!Reading, Rw!Writing, Rw!TypeOK
  <2> QED BY <1>1, <2>1, <2>2
<1>5. ASSUME NEW p \in Rw!Procs, Rw!ReadUnlock(p) \/ Rw!WriteUnlock(p) PROVE RwHoldersOK'
  <2>1. PICK r \in Nat :
          /\ Rw!Release(p, r) /\ rw_pc[p] # "parked"
          /\ IsFiniteSet(Rw!Reading \ {p}) /\ r = Cardinality(Rw!Reading \ {p})
          /\ Rw!Writing \ {p} = {}
    BY <1>5, RwHolderLeaves
  <2>0. PICK n \in 0 .. Len(rw_waiters) : RwReleased(p, r, n)
    BY <2>1, RwReleaseFacts
  <2>2. /\ rw_readers' = r + Cardinality(RwIn(n, "read"))
        /\ rw_writer' = (RwIn(n, "write") # {})
        /\ \A q \in Rw!Procs : rw_pc'[q] = IF q = p THEN "notify"
                                     ELSE IF q \in RwIn(n, "read") THEN "reading"
                                     ELSE IF q \in RwIn(n, "write") THEN "writing" ELSE rw_pc[q]
        /\ IsFiniteSet(RwIn(n, "read"))
        /\ \A mode \in {"read", "write"} : \A t \in RwIn(n, mode) : t \in Tasks /\ rw_pc[t] = "parked"
        /\ \/ RwIn(n, "write") = {} /\ \A i \in 1 .. n : rw_waiters[i].mode = "read"
           \/ /\ n = 1 /\ r = 0 /\ rw_waiters[1].mode = "write"
              /\ RwIn(n, "read") = {} /\ RwIn(n, "write") = {rw_waiters[1].task}
    BY <2>0, Zenon DEF RwReleased
  <2> DEFINE R == RwIn(n, "read")
             W == RwIn(n, "write")
  <2>3. /\ R \subseteq Rw!Procs /\ W \subseteq Rw!Procs /\ p \notin R /\ p \notin W
        /\ \A t \in R \cup W : rw_pc[t] = "parked"
    BY <2>1, <2>2
  <2>4. W = {} \/ (r = 0 /\ R = {} /\ W = {rw_waiters[1].task})
    BY <2>2
  <2>5. /\ rw_readers' = r + Cardinality(R) /\ rw_writer' = (W # {}) /\ IsFiniteSet(R)
        /\ \A q \in Rw!Procs : rw_pc'[q] = IF q = p THEN "notify"
                                     ELSE IF q \in R THEN "reading"
                                     ELSE IF q \in W THEN "writing" ELSE rw_pc[q]
    BY <2>2
  <2> HIDE DEF R, W
  <2>6. Rw!Reading' = (Rw!Reading \ {p}) \cup R /\ (Rw!Reading \ {p}) \cap R = {}
    BY <2>3, <2>4, <2>5 DEF Rw!Reading
  <2>7. Rw!Writing' = W
    BY <2>1, <2>3, <2>4, <2>5 DEF Rw!Writing
  <2>8. IsFiniteSet(Rw!Reading') /\ Cardinality(Rw!Reading') = r + Cardinality(R)
    <3>1. /\ IsFiniteSet(Rw!Reading')
          /\ Cardinality(Rw!Reading') = r + Cardinality(R) - Cardinality((Rw!Reading \ {p}) \cap R)
      BY <2>1, <2>5, <2>6, FS_Union
    <3>2. Cardinality((Rw!Reading \ {p}) \cap R) = 0 /\ Cardinality(R) \in Nat
      BY <2>5, <2>6, FS_EmptySet, FS_CardinalityType
    <3> QED BY <3>1, <3>2
  <2>9. Rw!Writing' # {} => Rw!Reading' = {}
    <3> SUFFICES ASSUME W # {} PROVE Rw!Reading' = {}
      BY <2>7
    <3>1. r = 0 /\ R = {}
      BY <2>4
    <3>2. Rw!Reading \ {p} = {}
      BY <2>1, <3>1, FS_EmptySet
    <3> QED BY <2>6, <3>1, <3>2
  <2>10. \A q, s \in Rw!Writing' : q = s
    BY <2>4, <2>7
  <2> QED BY <2>5, <2>7, <2>8, <2>9, <2>10 DEF RwHoldersOK
<1>6. CASE UNCHANGED Rw!vars
  <2>1. Rw!Reading' = Rw!Reading /\ Rw!Writing' = Rw!Writing /\ rw_readers' = rw_readers /\ rw_writer' = rw_writer
    BY <1>6 DEF Rw!vars, Rw!Reading, Rw!Writing
  <2> QED BY <1>1, <2>1
<1> QED BY <1>2, <1>3, <1>4, <1>5, <1>6 DEF Rw!Next, Rw!Step

\* The queued writers are finitely many, whatever the queue.
LEMMA RwQueuedWritersFinite ==
  ASSUME Rw!TypeOK PROVE Rw!QueuedWriters \in SUBSET Nat /\ IsFiniteSet(Rw!QueuedWriters)
<1>1. Rw!QueuedWriters \in SUBSET (1 .. Len(rw_waiters)) /\ Len(rw_waiters) \in Nat
  BY RwQueueFacts DEF Rw!QueuedWriters
<1>2. IsFiniteSet(1 .. Len(rw_waiters))
  <2>1. 1 \in Int /\ Len(rw_waiters) \in Int
    BY <1>1
  <2> QED BY <2>1, FS_Interval
<1>3. IsFiniteSet(Rw!QueuedWriters)
  BY <1>1, <1>2, FS_Subset, Zenon
<1> QED BY <1>1, <1>3

\* Every step keeps the count of the waiting writers, in the queue and on cv.
LEMMA RwWritersStep ==
  Rw!TypeOK /\ RwQueueOK /\ RwOnCvOK /\ RwHoldersOK /\ RwWritersOK /\ [Rw!Next]_(Rw!vars) => RwWritersOK'
<1> SUFFICES ASSUME Rw!TypeOK, RwQueueOK, RwOnCvOK, RwHoldersOK, RwWritersOK, [Rw!Next]_(Rw!vars) PROVE RwWritersOK'
  OBVIOUS
<1> USE RwCallerFacts
<1> DEFINE Q == Rw!QueuedWriters
           T == Rw!WaitingThreads("write")
<1>0. /\ IsFiniteSet(T) /\ IsFiniteSet(Q) /\ Q \in SUBSET Nat
      /\ rw_writer_waiting = Cardinality(Q) + Cardinality(T)
      /\ Cardinality(Q) \in Nat /\ Cardinality(T) \in Nat /\ rw_writer_waiting \in Nat
  BY RwCardinality, RwQueuedWritersFinite, FS_CardinalityType DEF RwWritersOK, Rw!WritersAreCounted, Rw!TypeOK
<1>1. ASSUME IsFiniteSet(T'), rw_writer_waiting' = Cardinality(Q') + Cardinality(T') PROVE RwWritersOK'
  BY RwCardinality, <1>1 DEF RwWritersOK, Rw!WritersAreCounted
<1>2. T = {p \in Threads : rw_pc[p] \in {"cv w", "notified w"}}
      /\ T' = {p \in Threads : rw_pc'[p] \in {"cv w", "notified w"}}
  BY DEF Rw!WaitingThreads
<1>3. UNCHANGED rw_waiters => Q' = Q
  BY DEF Rw!QueuedWriters
<1> HIDE DEF T
<1>4. ASSUME NEW p \in Tasks, NEW mode \in {"read", "write"},
             rw_waiters' = Append(rw_waiters, [task |-> p, mode |-> mode])
      PROVE  IF mode = "read" THEN Q' = Q
             ELSE Q' = Q \cup {Len(rw_waiters) + 1} /\ Len(rw_waiters) + 1 \notin Q
  <2> DEFINE x == [task |-> p, mode |-> mode]
  <2>1. x \in Rw!Waiter /\ x.mode = mode
    BY DEF Rw!Waiter
  <2> HIDE DEF x
  <2>2. /\ DOMAIN rw_waiters' = 1 .. Len(rw_waiters) + 1
        /\ \A i \in DOMAIN rw_waiters : rw_waiters'[i] = rw_waiters[i]
        /\ rw_waiters'[Len(rw_waiters) + 1] = x
    BY <1>4, <2>1 DEF Rw!TypeOK, x
  <2>3. /\ Len(rw_waiters) \in Nat /\ DOMAIN rw_waiters = 1 .. Len(rw_waiters)
    BY RwQueueFacts
  <2>4. \A i : i \in DOMAIN rw_waiters' <=> i \in DOMAIN rw_waiters \/ i = Len(rw_waiters) + 1
    BY <2>2, <2>3
  <2>5. Len(rw_waiters) + 1 \notin DOMAIN rw_waiters
    BY <2>3
  <2> QED BY <2>1, <2>2, <2>4, <2>5 DEF Rw!QueuedWriters
<1>5. ASSUME NEW p \in Rw!Procs, Rw!ReadLock(p) \/ Rw!WaitReader(p) \/ Rw!WriteLock(p) \/ Rw!NotifyAll(p)
      PROVE  RwWritersOK'
  <2>1. T' = T
    BY <1>2, <1>5 DEF Rw!ReadLock, Rw!WaitReader, Rw!WriteLock, Rw!NotifyAll, Rw!TypeOK
  <2>2. rw_writer_waiting' = rw_writer_waiting /\ Q' = Q
    BY <1>3, <1>5 DEF Rw!ReadLock, Rw!WaitReader, Rw!WriteLock, Rw!NotifyAll
  <2> QED BY <1>0, <1>1, <2>1, <2>2
<1>6. ASSUME NEW p \in Rw!Procs, Rw!WriteLockAfterWait(p) PROVE RwWritersOK'
  <2>1. rw_writer_waiting' = rw_writer_waiting - 1 /\ Q' = Q
    BY <1>3, <1>6 DEF Rw!WriteLockAfterWait
  <2>2. rw_pc[p] = "notified w" /\ rw_pc' = [rw_pc EXCEPT ![p] = "writing"]
    BY <1>6 DEF Rw!WriteLockAfterWait
  <2>3. p \in T /\ T' = T \ {p}
    BY <1>2, <2>2 DEF Rw!TypeOK, RwOnCvOK, Rw!Procs
  <2>4. IsFiniteSet(T') /\ Cardinality(T') = Cardinality(T) - 1
    BY <1>0, <2>3, FS_RemoveElement
  <2> QED BY <1>0, <1>1, <2>1, <2>4
<1>7. ASSUME NEW p \in Rw!Procs, Rw!ParkReader(p) PROVE RwWritersOK'
  <2>1. Q' = Q /\ rw_writer_waiting' = rw_writer_waiting
    BY <1>4, <1>7 DEF Rw!ParkReader
  <2>2. T' = T
    BY <1>2, <1>7 DEF Rw!ParkReader, Rw!TypeOK
  <2> QED BY <1>0, <1>1, <2>1, <2>2
<1>8. ASSUME NEW p \in Rw!Procs, Rw!ParkWriter(p) PROVE RwWritersOK'
  <2>1. /\ Q' = Q \cup {Len(rw_waiters) + 1} /\ Len(rw_waiters) + 1 \notin Q
        /\ rw_writer_waiting' = rw_writer_waiting + 1
    BY <1>4, <1>8 DEF Rw!ParkWriter
  <2>2. T' = T
    BY <1>2, <1>8 DEF Rw!ParkWriter, Rw!TypeOK
  <2>3. Cardinality(Q') = Cardinality(Q) + 1
    BY <1>0, <2>1, FS_AddElement
  <2> QED BY <1>0, <1>1, <2>1, <2>2, <2>3
<1>9. ASSUME NEW p \in Rw!Procs, Rw!WaitWriter(p) PROVE RwWritersOK'
  <2>1. Q' = Q /\ p \in Threads /\ rw_pc' = [rw_pc EXCEPT ![p] = "cv w"]
    BY <1>3, <1>9 DEF Rw!WaitWriter
  <2>2. CASE rw_pc[p] = "idle"
    <3>1. p \notin T /\ T' = T \cup {p} /\ rw_writer_waiting' = rw_writer_waiting + 1
      BY <1>2, <1>9, <2>1, <2>2 DEF Rw!WaitWriter, Rw!TypeOK
    <3>2. IsFiniteSet(T') /\ Cardinality(T') = Cardinality(T) + 1
      BY <1>0, <3>1, FS_AddElement
    <3>3. Cardinality(Q') = Cardinality(Q)
      BY <2>1
    <3> HIDE DEF Q
    <3>4. rw_writer_waiting' = Cardinality(Q') + Cardinality(T')
      BY <1>0, <3>1, <3>2, <3>3
    <3> QED BY <1>1, <3>2, <3>4
  <2>3. CASE rw_pc[p] # "idle"
    <3>1. T' = T /\ rw_writer_waiting' = rw_writer_waiting
      BY <1>2, <1>9, <2>1, <2>3 DEF Rw!WaitWriter, Rw!TypeOK
    <3> QED BY <1>0, <1>1, <2>1, <3>1
  <2> QED BY <2>2, <2>3
<1>10. ASSUME NEW p \in Rw!Procs, Rw!ReadUnlock(p) \/ Rw!WriteUnlock(p) PROVE RwWritersOK'
  <2>1. PICK r \in Nat : Rw!Release(p, r) /\ rw_pc[p] \in {"reading", "writing"}
    BY <1>10, RwHolderLeaves
  <2>2. PICK n \in 0 .. Len(rw_waiters) : RwReleased(p, r, n)
    BY <2>1, RwReleaseFacts
  <2>3. T' = T
    <3>1. \A q \in Threads : rw_pc'[q] = IF q = p THEN "notify" ELSE rw_pc[q]
      BY <2>2 DEF RwReleased
    <3> QED BY <1>2, <2>1, <3>1
  <2>4. /\ rw_waiters' = SubSeq(rw_waiters, n + 1, Len(rw_waiters))
        /\ rw_writer_waiting' = rw_writer_waiting - Cardinality(RwIn(n, "write"))
    BY <2>2 DEF RwReleased
  <2>5. /\ DOMAIN rw_waiters' = 1 .. Len(rw_waiters) - n
        /\ \A i \in DOMAIN rw_waiters' : i + n \in DOMAIN rw_waiters /\ rw_waiters'[i] = rw_waiters[i + n]
    BY <2>4, RwRemainder
  <2>6. Len(rw_waiters) \in Nat /\ DOMAIN rw_waiters = 1 .. Len(rw_waiters) /\ n \in Nat
    BY RwQueueFacts
  <2> DEFINE S == {i \in Q : i > n}
  <2>7. IsFiniteSet(Q') /\ Cardinality(Q') = Cardinality(S)
    <3>1. S \in SUBSET Nat /\ S \in SUBSET Q
      BY <1>0
    <3>2. IsFiniteSet(S)
      BY <1>0, <3>1, FS_Subset, Zenon
    <3>3. Q' \in SUBSET Nat
      BY <2>5, <2>6 DEF Rw!QueuedWriters
    <3>4. ASSUME NEW i \in S PROVE i >= n /\ i - n \in Q'
      <4>1. /\ i \in DOMAIN rw_waiters /\ i > n /\ rw_waiters[i].mode = "write"
        BY DEF Rw!QueuedWriters
      <4>2. i - n \in DOMAIN rw_waiters' /\ (i - n) + n = i
        BY <2>5, <2>6, <4>1
      <4>3. rw_waiters'[i - n] = rw_waiters[i]
        BY <2>5, <4>2
      <4> QED BY <2>6, <4>1, <4>2, <4>3 DEF Rw!QueuedWriters
    <3>5. ASSUME NEW j \in Q' PROVE j + n \in S
      <4>1. j \in DOMAIN rw_waiters' /\ rw_waiters'[j].mode = "write"
        BY DEF Rw!QueuedWriters
      <4>2. j + n \in DOMAIN rw_waiters /\ rw_waiters[j + n].mode = "write" /\ j + n > n
        BY <2>5, <2>6, <4>1
      <4> QED BY <4>2 DEF Rw!QueuedWriters
    <3> HIDE DEF S
    <3> QED BY <2>6, <3>1, <3>2, <3>3, <3>4, <3>5, RwShifted
  <2>8. CASE RwIn(n, "write") = {} /\ \A i \in 1 .. n : rw_waiters[i].mode = "read"
    <3>1. S = Q
      BY <2>6, <2>8 DEF Rw!QueuedWriters
    <3>2. rw_writer_waiting' = rw_writer_waiting
      <4>1. Cardinality(RwIn(n, "write")) = 0
        BY <2>8, FS_EmptySet
      <4> QED BY <1>0, <2>4, <4>1
    <3> QED BY <1>0, <1>1, <2>3, <2>7, <3>1, <3>2
  <2>9. CASE /\ n = 1 /\ rw_waiters[1].mode = "write"
             /\ RwIn(n, "write") = {rw_waiters[1].task}
    <3>1. 1 \in Q /\ S = Q \ {1}
      BY <1>0, <2>6, <2>9 DEF Rw!QueuedWriters
    <3> HIDE DEF S, Q
    <3>2. Cardinality(S) = Cardinality(Q) - 1
      <4>1. Cardinality(Q \ {1}) = Cardinality(Q) - 1
        BY <1>0, <3>1, FS_RemoveElement
      <4> QED BY <3>1, <4>1
    <3>3. rw_writer_waiting' = rw_writer_waiting - 1
      BY <2>4, <2>9, FS_Singleton
    <3> QED BY <1>0, <1>1, <2>3, <2>7, <3>2, <3>3
  <2> QED BY <2>2, <2>8, <2>9 DEF RwReleased
<1>11. CASE UNCHANGED Rw!vars
  <2>1. Q' = Q /\ T' = T /\ rw_writer_waiting' = rw_writer_waiting
    BY <1>2, <1>3, <1>11 DEF Rw!vars
  <2> QED BY <1>0, <1>1, <2>1
<1> QED BY <1>5, <1>6, <1>7, <1>8, <1>9, <1>10, <1>11 DEF Rw!Next, Rw!Step
\* Every step keeps the variables to their types; that the counts, u32 in the code,
\* do not drop below zero follows from their being exact.
LEMMA RwTypeStep ==
  Rw!TypeOK /\ RwQueueOK /\ RwHoldersOK /\ RwHoldersOK' /\ RwWritersOK' /\ [Rw!Next]_(Rw!vars) => Rw!TypeOK'
<1> SUFFICES ASSUME Rw!TypeOK, RwQueueOK, RwHoldersOK, RwHoldersOK', RwWritersOK', [Rw!Next]_(Rw!vars) PROVE Rw!TypeOK'
  OBVIOUS
<1> USE RwCallerFacts
<1>1. ASSUME rw_waiters' \in Seq(Rw!Waiter), rw_pc' \in [Rw!Procs -> Rw!Pcs], rw_writer' \in BOOLEAN PROVE Rw!TypeOK'
  <2>1. rw_readers' \in Nat
    BY FS_CardinalityType DEF RwHoldersOK
  <2>2. Rw!QueuedWriters' \in SUBSET (1 .. Len(rw_waiters'))
    BY <1>1 DEF Rw!QueuedWriters
  <2>3. IsFiniteSet(1 .. Len(rw_waiters'))
    <3>1. 1 \in Int /\ Len(rw_waiters') \in Int
      BY <1>1
    <3> QED BY <3>1, FS_Interval
  <2>4. IsFiniteSet(Rw!QueuedWriters')
    BY <2>2, <2>3, FS_Subset, Zenon
  <2>5. Cardinality(Rw!QueuedWriters') \in Nat /\ Cardinality(Rw!WaitingThreads("write")') \in Nat
    BY <2>4, FS_CardinalityType DEF RwWritersOK
  <2>6. rw_writer_waiting' \in Nat
    BY RwCardinality, <2>5 DEF RwWritersOK, Rw!WritersAreCounted
  <2> QED BY <1>1, <2>1, <2>6 DEF Rw!TypeOK
<1>2. ASSUME NEW p \in Rw!Procs, Rw!ReadUnlock(p) \/ Rw!WriteUnlock(p) PROVE Rw!TypeOK'
  <2>1. PICK r \in Nat : Rw!Release(p, r) /\ rw_pc[p] # "parked"
    BY <1>2, RwHolderLeaves
  <2>2. PICK n \in 0 .. Len(rw_waiters) : RwReleased(p, r, n)
    BY <2>1, RwReleaseFacts
  <2>3. rw_waiters' \in Seq(Rw!Waiter)
    BY <2>2, RwRemainder DEF RwReleased
  <2>4. \A q \in Rw!Procs : rw_pc'[q] \in Rw!Pcs
    <3>1. \A q \in Rw!Procs : rw_pc'[q] \in {"notify", "reading", "writing", rw_pc[q]}
      BY <2>2 DEF RwReleased
    <3> QED BY <3>1 DEF Rw!TypeOK, Rw!Pcs
  <2>5. rw_pc' = [q \in Rw!Procs |-> rw_pc'[q]]
    BY <2>2 DEF RwReleased
  <2>6. rw_pc' \in [Rw!Procs -> Rw!Pcs]
    BY <2>4, <2>5
  <2>7. rw_writer' \in BOOLEAN
    BY <2>2, Zenon DEF RwReleased
  <2> QED BY <1>1, <2>3, <2>6, <2>7
<1>3. ASSUME NEW p \in Rw!Procs, Rw!ReadLock(p) \/ Rw!WriteLock(p) \/ Rw!WriteLockAfterWait(p)
               \/ Rw!WaitReader(p) \/ Rw!WaitWriter(p) \/ Rw!NotifyAll(p)
      PROVE  Rw!TypeOK'
  <2>1. UNCHANGED rw_waiters /\ (rw_writer' = rw_writer \/ rw_writer' = TRUE)
    BY <1>3 DEF Rw!ReadLock, Rw!WriteLock, Rw!WriteLockAfterWait, Rw!WaitReader, Rw!WaitWriter, Rw!NotifyAll
  <2>2. rw_pc' \in [Rw!Procs -> Rw!Pcs]
    BY <1>3 DEF Rw!ReadLock, Rw!WriteLock, Rw!WriteLockAfterWait, Rw!WaitReader, Rw!WaitWriter, Rw!NotifyAll, Rw!TypeOK, Rw!Pcs
  <2>3. rw_writer' \in BOOLEAN
    BY <2>1 DEF Rw!TypeOK
  <2> QED BY <1>1, <2>1, <2>2, <2>3 DEF Rw!TypeOK
<1>4. ASSUME NEW p \in Rw!Procs, Rw!ParkReader(p) \/ Rw!ParkWriter(p) PROVE Rw!TypeOK'
  <2>1. /\ rw_pc' = [rw_pc EXCEPT ![p] = "parked"] /\ rw_writer' = rw_writer /\ p \in Tasks
        /\ \E mode \in {"read", "write"} : rw_waiters' = Append(rw_waiters, [task |-> p, mode |-> mode])
    BY <1>4 DEF Rw!ParkReader, Rw!ParkWriter
  <2>2. \A mode \in {"read", "write"} : [task |-> p, mode |-> mode] \in Rw!Waiter
    BY <2>1 DEF Rw!Waiter
  <2>3. rw_waiters' \in Seq(Rw!Waiter)
    BY <2>1, <2>2 DEF Rw!TypeOK
  <2>4. rw_pc' \in [Rw!Procs -> Rw!Pcs]
    BY <2>1 DEF Rw!TypeOK, Rw!Pcs
  <2>5. rw_writer' \in BOOLEAN
    BY <2>1 DEF Rw!TypeOK
  <2> QED BY <1>1, <2>3, <2>4, <2>5
<1>5. CASE UNCHANGED Rw!vars
  BY <1>1, <1>5 DEF Rw!vars, Rw!TypeOK
<1> QED BY <1>2, <1>3, <1>4, <1>5 DEF Rw!Next, Rw!Step

\* Every step leaves nobody behind: whoever releases admits all it can and then
\* notifies, and whoever starts to wait has somebody to wait for.
LEMMA RwStrandedStep == RwIInv /\ [Rw!Next]_(Rw!vars) => Rw!NobodyIsStranded'
<1> SUFFICES ASSUME RwIInv, [Rw!Next]_(Rw!vars) PROVE Rw!NobodyIsStranded'
  OBVIOUS
<1> USE RwCallerFacts
<1>0. Rw!TypeOK /\ RwQueueOK /\ RwOnCvOK /\ RwHoldersOK /\ RwWritersOK /\ Rw!NobodyIsStranded
  BY DEF RwIInv
<1> DEFINE T == Rw!WaitingThreads("write")
           Queue == rw_readers = 0 /\ ~rw_writer /\ rw_waiters # <<>> =>
                      T # {} /\ \A i \in DOMAIN rw_waiters : rw_waiters[i].mode = "read"
           Cv == \/ \E p \in Rw!Procs : rw_pc[p] = "notify"
                 \/ /\ Rw!WriterMayEnter => \A p \in Threads : rw_pc[p] # "cv w"
                    /\ Rw!ReaderMayEnter => \A p \in Threads : rw_pc[p] # "cv r"
<1>1. /\ Rw!NobodyIsStranded <=> Queue /\ Cv
      /\ Rw!NobodyIsStranded' <=> Queue' /\ Cv'
  BY DEF Rw!NobodyIsStranded
<1>2. /\ T = {p \in Threads : rw_pc[p] \in {"cv w", "notified w"}}
      /\ T' = {p \in Threads : rw_pc'[p] \in {"cv w", "notified w"}}
  BY DEF Rw!WaitingThreads
<1>3. rw_readers \in Nat /\ rw_writer_waiting \in Nat
  BY <1>0 DEF Rw!TypeOK
<1> HIDE DEF T
<1>4. ASSUME NEW p \in Rw!Procs, Rw!ReadLock(p) PROVE Queue' /\ Cv'
  <2>1. rw_readers' = rw_readers + 1 /\ rw_writer_waiting' = rw_writer_waiting /\ rw_writer' = rw_writer
        /\ Rw!ReaderMayEnter /\ rw_pc' = [rw_pc EXCEPT ![p] = "reading"]
        /\ rw_pc[p] # "notify"
    BY <1>4 DEF Rw!ReadLock
  <2>2. rw_readers' # 0
    BY <1>3, <2>1
  <2>3. Cv'
    BY <1>0, <1>1, <2>1, <2>2 DEF Rw!TypeOK, Rw!WriterMayEnter, Rw!ReaderMayEnter
  <2> QED BY <2>2, <2>3
<1>5. ASSUME NEW p \in Rw!Procs, Rw!WriteLock(p) \/ Rw!WriteLockAfterWait(p) PROVE Queue' /\ Cv'
  <2>1. rw_writer' = TRUE
    BY <1>5 DEF Rw!WriteLock, Rw!WriteLockAfterWait
  <2> QED BY <2>1 DEF Rw!WriterMayEnter, Rw!ReaderMayEnter
<1>6. ASSUME NEW p \in Rw!Procs, Rw!ParkReader(p) PROVE Queue' /\ Cv'
  <2>1. /\ p \in Tasks /\ rw_pc[p] = "idle" /\ ~Rw!ReaderMayEnter
        /\ rw_waiters' = Append(rw_waiters, [task |-> p, mode |-> "read"])
        /\ rw_pc' = [rw_pc EXCEPT ![p] = "parked"]
        /\ UNCHANGED <<rw_readers, rw_writer, rw_writer_waiting>>
    BY <1>6 DEF Rw!ParkReader
  <2>2. Cv'
    BY <1>0, <1>1, <2>1 DEF Rw!TypeOK, Rw!WriterMayEnter, Rw!ReaderMayEnter
  <2>3. T' = T
    BY <1>0, <1>2, <2>1 DEF Rw!TypeOK
  <2>4. ASSUME rw_readers = 0, ~rw_writer
        PROVE  T # {} /\ \A i \in DOMAIN rw_waiters : rw_waiters[i].mode = "read"
    <3>1. rw_writer_waiting # 0
      BY <2>1, <2>4 DEF Rw!ReaderMayEnter
    <3>2. CASE rw_waiters = <<>>
      <4>1. Rw!QueuedWriters = {}
        BY <3>2 DEF Rw!QueuedWriters
      <4>2. Cardinality(Rw!QueuedWriters) = 0
        BY <4>1, FS_EmptySet
      <4>3. Cardinality(T) # 0
        <5>1. rw_writer_waiting = Cardinality(Rw!QueuedWriters) + Cardinality(T)
          BY RwCardinality, <1>0 DEF RwWritersOK, Rw!WritersAreCounted, T
        <5>2. Cardinality(T) \in Nat
          BY <1>0, FS_CardinalityType DEF RwWritersOK, T
        <5> QED BY <3>1, <4>2, <5>1, <5>2
      <4>4. T # {}
        BY <4>3, FS_EmptySet
      <4> QED BY <3>2, <4>4
    <3>3. CASE rw_waiters # <<>>
      BY <1>0, <1>1, <2>4, <3>3
    <3> QED BY <3>2, <3>3
  <2>5. ASSUME \A i \in DOMAIN rw_waiters : rw_waiters[i].mode = "read"
        PROVE  \A i \in DOMAIN rw_waiters' : rw_waiters'[i].mode = "read"
    <3> DEFINE x == [task |-> p, mode |-> "read"]
    <3>1. x.mode = "read" /\ x \in Rw!Waiter
      BY <2>1 DEF Rw!Waiter
    <3> HIDE DEF x
    <3>2. rw_waiters' = Append(rw_waiters, x) /\ rw_waiters \in Seq(Rw!Waiter)
      BY <1>0, <2>1 DEF x, Rw!TypeOK
    <3>3. \A i \in DOMAIN rw_waiters' :
            (i \in DOMAIN rw_waiters /\ rw_waiters'[i] = rw_waiters[i]) \/ rw_waiters'[i] = x
      BY <3>1, <3>2
    <3> QED BY <2>5, <3>1, <3>3
  <2>6. Queue'
    BY <2>1, <2>3, <2>4, <2>5
  <2> QED BY <2>2, <2>6
<1>7. ASSUME NEW p \in Rw!Procs, Rw!WaitReader(p) PROVE Queue' /\ Cv'
  <2>1. /\ p \in Threads /\ rw_pc[p] \in {"idle", "notified r"} /\ ~Rw!ReaderMayEnter
        /\ rw_pc' = [rw_pc EXCEPT ![p] = "cv r"]
        /\ UNCHANGED <<rw_readers, rw_writer, rw_writer_waiting, rw_waiters>>
    BY <1>7 DEF Rw!WaitReader
  <2>2. Cv'
    BY <1>0, <1>1, <2>1 DEF Rw!TypeOK, Rw!WriterMayEnter, Rw!ReaderMayEnter
  <2>3. T' = T
    BY <1>0, <1>2, <2>1 DEF Rw!TypeOK
  <2> QED BY <1>0, <1>1, <2>1, <2>2, <2>3
<1>8. ASSUME NEW p \in Rw!Procs, Rw!ParkWriter(p) \/ Rw!WaitWriter(p) PROVE Queue' /\ Cv'
  <2>1. /\ rw_pc[p] # "notify" /\ ~Rw!WriterMayEnter
        /\ \E x \in {"parked", "cv w"} : rw_pc' = [rw_pc EXCEPT ![p] = x]
        /\ UNCHANGED <<rw_readers, rw_writer>>
        /\ rw_writer_waiting' = rw_writer_waiting + 1 \/ rw_writer_waiting' = rw_writer_waiting
    BY <1>8 DEF Rw!ParkWriter, Rw!WaitWriter
  <2>2. Queue'
    BY <2>1 DEF Rw!WriterMayEnter
  <2>3. Rw!ReaderMayEnter' => Rw!ReaderMayEnter
    <3>0. rw_writer_waiting' = rw_writer_waiting + 1 \/ rw_writer_waiting' = rw_writer_waiting
      BY <2>1, Zenon
    <3>1. rw_writer_waiting' = 0 => rw_writer_waiting = 0
      BY <1>3, <3>0
    <3> QED BY <2>1, <3>1, Zenon DEF Rw!ReaderMayEnter
  <2>4. ~Rw!WriterMayEnter'
    BY <2>1 DEF Rw!WriterMayEnter
  <2>5. \A q \in Rw!Procs : rw_pc'[q] = "cv r" => rw_pc[q] = "cv r"
    BY <1>0, <2>1 DEF Rw!TypeOK
  <2>6. \A q \in Rw!Procs : rw_pc[q] = "notify" => rw_pc'[q] = "notify"
    BY <1>0, <2>1 DEF Rw!TypeOK
  <2>7. Cv'
    <3>1. CASE \E q \in Rw!Procs : rw_pc[q] = "notify"
      BY <2>6, <3>1
    <3>2. CASE ~\E q \in Rw!Procs : rw_pc[q] = "notify"
      <4>1. Rw!ReaderMayEnter' => \A q \in Threads : rw_pc'[q] # "cv r"
        BY <1>0, <1>1, <2>3, <2>5, <3>2
      <4> QED BY <2>4, <4>1
    <3> QED BY <3>1, <3>2
  <2> QED BY <2>2, <2>7
<1>9. ASSUME NEW p \in Rw!Procs, Rw!NotifyAll(p) PROVE Queue' /\ Cv'
  <2>1. /\ UNCHANGED <<rw_readers, rw_writer, rw_writer_waiting, rw_waiters>>
        /\ rw_pc[p] = "notify"
        /\ \A q \in Rw!Procs : rw_pc'[q] = CASE q = p -> "idle"
                                       [] rw_pc[q] = "cv r" -> "notified r"
                                       [] rw_pc[q] = "cv w" -> "notified w"
                                       [] OTHER -> rw_pc[q]
    BY <1>9 DEF Rw!NotifyAll
  <2>2. \A q \in Threads : rw_pc'[q] # "cv w" /\ rw_pc'[q] # "cv r"
    BY <2>1
  <2>3. T' = T
    BY <1>2, <2>1
  <2> QED BY <1>0, <1>1, <2>1, <2>2, <2>3
<1>10. ASSUME NEW p \in Rw!Procs, Rw!ReadUnlock(p) \/ Rw!WriteUnlock(p) PROVE Queue' /\ Cv'
  <2>1. PICK r \in Nat : Rw!Release(p, r) /\ rw_pc[p] # "parked"
    BY <1>0, <1>10, RwHolderLeaves
  <2>2. PICK n \in 0 .. Len(rw_waiters) : RwReleased(p, r, n)
    BY <1>0, <2>1, RwReleaseFacts
  <2>3. rw_pc'[p] = "notify"
    BY <2>2 DEF RwReleased
  <2>4. Queue'
    <3> SUFFICES ASSUME rw_readers' = 0, ~rw_writer', rw_waiters' # <<>> PROVE FALSE
      OBVIOUS
    <3>1. /\ rw_readers' = r + Cardinality(RwIn(n, "read")) /\ IsFiniteSet(RwIn(n, "read"))
          /\ rw_writer' = (RwIn(n, "write") # {})
          /\ rw_waiters' = SubSeq(rw_waiters, n + 1, Len(rw_waiters))
          /\ rw_waiters # <<>> /\ n = 0 => r > 0
          /\ rw_waiters # <<>> /\ n # 0 => RwIn(n, "read") # {} \/ RwIn(n, "write") # {}
      BY <2>2 DEF RwReleased
    <3>2. rw_waiters # <<>>
      <4> SUFFICES ASSUME rw_waiters = <<>> PROVE rw_waiters' = <<>>
        OBVIOUS
      <4>1. Len(rw_waiters) = 0 /\ n = 0
        OBVIOUS
      <4>2. rw_waiters' = SubSeq(rw_waiters, 1, 0)
        BY <3>1, <4>1
      <4> QED BY <4>2, SubSeqEmpty
    <3>3. Cardinality(RwIn(n, "read")) \in Nat
      BY <3>1, FS_CardinalityType
    <3>4. r = 0 /\ Cardinality(RwIn(n, "read")) = 0
      BY <3>1, <3>3
    <3>5. RwIn(n, "read") = {} /\ RwIn(n, "write") = {}
      BY <3>1, <3>4, FS_EmptySet
    <3> QED BY <3>1, <3>2, <3>4, <3>5
  <2>5. Cv'
    BY <2>3
  <2> QED BY <2>4, <2>5
<1>11. CASE UNCHANGED Rw!vars
  <2>1. T' = T
    BY <1>2, <1>11 DEF Rw!vars
  <2> QED BY <1>0, <1>1, <1>11, <2>1 DEF Rw!vars, Rw!WriterMayEnter, Rw!ReaderMayEnter
<1> HIDE DEF Queue, Cv
<1> QED BY <1>1, <1>4, <1>5, <1>6, <1>7, <1>8, <1>9, <1>10, <1>11 DEF Rw!Next, Rw!Step

\* The invariant holds in every reachable state.
LEMMA RwInvariance == Rw!Spec => []RwIInv
<1>1. Rw!Init => RwIInv
  BY RwInitInv
<1>2. RwIInv /\ [Rw!Next]_(Rw!vars) => RwIInv'
  BY RwTypeStep, RwQueueStep, RwOnCvStep, RwHoldersStep, RwWritersStep, RwStrandedStep DEF RwIInv
<1> QED BY <1>1, <1>2, PTL DEF Rw!Spec

\* Every variable keeps to its type.
LEMMA RwTypeCorrect == Rw!Spec => []Rw!TypeOK
<1>1. RwIInv => Rw!TypeOK
  BY DEF RwIInv
<1> QED BY <1>1, RwInvariance, PTL

\* Readers or one writer hold the lock, and RWState counts them exactly.
LEMMA RwExclusion == Rw!Spec => []Rw!ReadersOrWriter
<1>1. RwIInv => Rw!ReadersOrWriter
  <2> SUFFICES ASSUME RwHoldersOK PROVE Rw!ReadersOrWriter
    BY DEF RwIInv
  <2>1. Cardinality(Rw!Writing) <= 1
    <3>1. CASE Rw!Writing = {}
      BY <3>1, FS_EmptySet
    <3>2. CASE Rw!Writing # {}
      <4> PICK p \in Rw!Writing : TRUE
        BY <3>2
      <4>1. Rw!Writing = {p}
        BY DEF RwHoldersOK
      <4>2. Cardinality(Rw!Writing) = 1
        BY <4>1, FS_Singleton, Zenon
      <4> QED BY <4>2
    <3> QED BY <3>1, <3>2
  <2> QED BY RwCardinality, <2>1 DEF RwHoldersOK, Rw!ReadersOrWriter
<1> QED BY <1>1, RwInvariance, PTL

\* writer_waiting counts the queued writers and the writers on cv, each once.
LEMMA RwWritersCounted == Rw!Spec => []Rw!WritersAreCounted
<1>1. RwIInv => Rw!WritersAreCounted
  BY DEF RwIInv, RwWritersOK
<1> QED BY <1>1, RwInvariance, PTL

\* Nobody waits for a lock that nobody is going to release or pass on.
LEMMA RwNobodyLeftBehind == Rw!Spec => []Rw!NobodyIsStranded
<1>1. RwIInv => Rw!NobodyIsStranded
  BY DEF RwIInv
<1> QED BY <1>1, RwInvariance, PTL

-----------------------------------------------------------------------------
(* Blocking pool.  ExactlyOnePlace counts places and is not inductive: that the  *)
(* queue, a thread, an answer and the dropped jobs exclude one another, and that *)
(* each entry is the CURRENT call of a task that waits for it (BpQueuedOK,       *)
(* BpRunningOK, BpAnsweredOK, BpDroppedOK), is what the steps keep.              *)

\* The instance counts as the library of proved facts does.
LEMMA BpCardinality == \A S : Bp!Cardinality(S) = Cardinality(S)
BY Zenon DEF Bp!Cardinality, Cardinality

\* The bound is a natural number, the pool is finite and None is no number of a call.
BpAssumptions == MaxCalls \in Nat /\ IsFiniteSet(PoolThreads) /\ None \notin 1 .. MaxCalls

\* pool is a function on the pool threads.
BpPoolOK == bp_pool = [w \in PoolThreads |-> bp_pool[w]]

BpDoing(w) == bp_pool[w].pc = "job"

\* A queued, a running, an answered and a dropped call are the current call of a
\* task that waits for it, and each of these excludes the others.
BpQueuedOK ==
  /\ \A i \in DOMAIN bp_jobs :
       /\ bp_jobs[i] = Bp!Current(bp_jobs[i].task) /\ bp_tpc[bp_jobs[i].task] # "runs"
       /\ bp_answer[bp_jobs[i].task] = None /\ bp_jobs[i] \notin bp_dropped
  /\ \A i, j \in DOMAIN bp_jobs : bp_jobs[i].task = bp_jobs[j].task => i = j
BpRunningOK ==
  /\ \A w \in PoolThreads : BpDoing(w) =>
       /\ bp_pool[w].job = Bp!Current(bp_pool[w].job.task) /\ bp_tpc[bp_pool[w].job.task] # "runs"
       /\ bp_answer[bp_pool[w].job.task] = None /\ bp_pool[w].job \notin bp_dropped
  /\ \A w, x \in PoolThreads : BpDoing(w) /\ BpDoing(x) /\ bp_pool[w].job.task = bp_pool[x].job.task => w = x
  /\ \A w \in PoolThreads, i \in DOMAIN bp_jobs : BpDoing(w) => bp_jobs[i].task # bp_pool[w].job.task
BpAnsweredOK ==
  \A t \in Offloaders : bp_answer[t] # None =>
    /\ bp_answer[t] = bp_calls[t] /\ bp_tpc[t] # "runs" /\ Bp!Current(t) \notin bp_dropped
BpDroppedOK == \A d \in bp_dropped : d = Bp!Current(d.task) /\ bp_tpc[d.task] # "runs"

\* No call is lost.
BpSomewhere ==
  \A t \in Offloaders : bp_tpc[t] # "runs" =>
    \/ \E i \in DOMAIN bp_jobs : bp_jobs[i].task = t
    \/ \E w \in PoolThreads : BpDoing(w) /\ bp_pool[w].job.task = t
    \/ bp_answer[t] # None
    \/ Bp!Current(t) \in bp_dropped

\* While a thread sleeps, every queued job has a notification to come or a thread awake.
BpNotifiers == {t \in Offloaders : bp_tpc[t] = "notifies"}
BpAwake     == {w \in PoolThreads : bp_pool[w].pc # "cv"}
BpServed ==
  /\ IsFiniteSet(BpNotifiers)
  /\ (\E w \in PoolThreads : bp_pool[w].pc = "cv") => Len(bp_jobs) <= Cardinality(BpNotifiers) + Cardinality(BpAwake)

BpIInv == Bp!TypeOK /\ BpPoolOK /\ BpQueuedOK /\ BpRunningOK /\ BpAnsweredOK /\ BpDroppedOK /\ BpSomewhere /\ BpServed
-----------------------------------------------------------------------------
(* Facts used in several steps *)

LEMMA BpTypeFacts ==
  ASSUME Bp!TypeOK
  PROVE  /\ bp_jobs \in Seq(Bp!Job) /\ Len(bp_jobs) \in Nat
         /\ \A i \in DOMAIN bp_jobs : bp_jobs[i] \in Bp!Job /\ bp_jobs[i].task \in Offloaders
         /\ \A w \in PoolThreads : BpDoing(w) => bp_pool[w].job \in Bp!Job /\ bp_pool[w].job.task \in Offloaders
         /\ \A d \in bp_dropped : d \in Bp!Job /\ d.task \in Offloaders
<1>1. \A j \in Bp!Job : j.task \in Offloaders
  BY DEF Bp!Job
<1>2. bp_jobs \in Seq(Bp!Job) /\ Len(bp_jobs) \in Nat /\ \A i \in DOMAIN bp_jobs : bp_jobs[i] \in Bp!Job
  BY DEF Bp!TypeOK
<1>3. \A w \in PoolThreads : BpDoing(w) => bp_pool[w].job \in Bp!Job
  BY DEF Bp!TypeOK, BpDoing
<1>4. \A d \in bp_dropped : d \in Bp!Job
  BY DEF Bp!TypeOK
<1> QED BY <1>1, <1>2, <1>3, <1>4

LEMMA BpOneAppended ==
  ASSUME NEW S, NEW q \in Seq(S), NEW x \in S
  PROVE  /\ Append(q, x) \in Seq(S) /\ Append(q, x) # <<>>
         /\ Len(q) \in Nat /\ Len(Append(q, x)) = Len(q) + 1
         /\ DOMAIN Append(q, x) = DOMAIN q \cup {Len(q) + 1}
         /\ \A i \in DOMAIN q : Append(q, x)[i] = q[i] /\ i # Len(q) + 1
         /\ Append(q, x)[Len(q) + 1] = x
OBVIOUS

LEMMA BpHeadAndTail ==
  ASSUME NEW S, NEW q \in Seq(S), q # <<>>
  PROVE  /\ Head(q) \in S /\ Head(q) = q[1] /\ 1 \in DOMAIN q
         /\ Tail(q) \in Seq(S) /\ Len(q) \in Nat /\ Len(Tail(q)) = Len(q) - 1
         /\ \A i \in DOMAIN Tail(q) : i + 1 \in DOMAIN q /\ i \in Nat /\ i + 1 # 1 /\ Tail(q)[i] = q[i + 1]
         /\ \A i \in DOMAIN q : i = 1 \/ (i - 1 \in DOMAIN Tail(q) /\ Tail(q)[i - 1] = q[i])
OBVIOUS

LEMMA BpInitInv == ASSUME BpAssumptions, Bp!Init PROVE BpIInv
<1>1. bp_jobs = <<>> /\ DOMAIN bp_jobs = {} /\ Len(bp_jobs) = 0
  BY DEF Bp!Init
<1>2. \A w \in PoolThreads : bp_pool[w].pc = "loop" /\ bp_pool[w].job = None /\ ~BpDoing(w)
  BY DEF Bp!Init, Bp!Free, BpDoing
<1>3. \A t \in Offloaders : bp_tpc[t] = "runs" /\ bp_answer[t] = None
  BY DEF Bp!Init
<1>4. Bp!TypeOK
  BY <1>1, <1>2 DEF Bp!Init, Bp!TypeOK, BpAssumptions
<1>5. BpPoolOK
  BY DEF Bp!Init, BpPoolOK
<1>6. BpQueuedOK
  BY <1>1 DEF BpQueuedOK
<1>7. BpRunningOK
  BY <1>2 DEF BpRunningOK
<1>8. BpAnsweredOK /\ BpSomewhere
  BY <1>3 DEF BpAnsweredOK, BpSomewhere
<1>9. BpDroppedOK
  BY DEF BpDroppedOK, Bp!Init
<1>10. BpServed
  <2>1. BpNotifiers = {}
    BY <1>3 DEF BpNotifiers
  <2> QED BY <1>2, <2>1, FS_EmptySet DEF BpServed
<1> QED BY <1>4, <1>5, <1>6, <1>7, <1>8, <1>9, <1>10 DEF BpIInv

-----------------------------------------------------------------------------
(* Every step keeps the invariant *)

LEMMA BpOffloadStep ==
  ASSUME BpAssumptions, BpIInv, NEW t \in Offloaders, Bp!Offload(t)
  PROVE  BpIInv'
<1>0. /\ Bp!TypeOK /\ BpPoolOK /\ BpQueuedOK /\ BpRunningOK /\ BpAnsweredOK /\ BpDroppedOK /\ BpSomewhere
      /\ BpServed
  BY DEF BpIInv
<1>t. /\ bp_jobs \in Seq(Bp!Job) /\ \A i \in DOMAIN bp_jobs : bp_jobs[i] \in Bp!Job /\ bp_jobs[i].task \in Offloaders
      /\ \A u \in PoolThreads : BpDoing(u) => bp_pool[u].job \in Bp!Job /\ bp_pool[u].job.task \in Offloaders
  BY <1>0, BpTypeFacts
<1> DEFINE c == bp_calls[t] + 1
           j == [task |-> t, call |-> c]
<1>1. /\ bp_tpc[t] = "runs" /\ bp_calls[t] < MaxCalls /\ bp_calls' = [bp_calls EXCEPT ![t] = c]
      /\ bp_jobs' = Append(bp_jobs, j) /\ bp_tpc' = [bp_tpc EXCEPT ![t] = "notifies"]
      /\ UNCHANGED <<bp_answer, bp_pool, bp_dropped>>
  BY <1>0 DEF Bp!Offload, Bp!TypeOK
<1>2. bp_calls[t] \in Nat /\ c \in 1 .. MaxCalls /\ c # bp_calls[t]
  BY <1>0, <1>1 DEF Bp!TypeOK, BpAssumptions
<1>3. j \in Bp!Job /\ j.task = t /\ j = [task |-> t, call |-> c]
  BY <1>2 DEF Bp!Job
<1>4. /\ bp_calls'[t] = c /\ bp_tpc'[t] = "notifies"
      /\ \A z \in Offloaders : z # t => bp_calls'[z] = bp_calls[z] /\ bp_tpc'[z] = bp_tpc[z]
  BY <1>0, <1>1 DEF Bp!TypeOK
<1>5. Bp!Current(t)' = j /\ \A z \in Offloaders : z # t => Bp!Current(z)' = Bp!Current(z)
  BY <1>4 DEF Bp!Current
<1>6. bp_calls' \in [Offloaders -> 0 .. MaxCalls]
  BY <1>0, <1>1, <1>2 DEF Bp!TypeOK, BpAssumptions
<1> HIDE DEF c, j
<1>a. /\ bp_jobs' \in Seq(Bp!Job) /\ Len(bp_jobs) \in Nat /\ Len(bp_jobs') = Len(bp_jobs) + 1
      /\ DOMAIN bp_jobs' = DOMAIN bp_jobs \cup {Len(bp_jobs) + 1}
      /\ \A i \in DOMAIN bp_jobs : bp_jobs'[i] = bp_jobs[i] /\ i # Len(bp_jobs) + 1
      /\ bp_jobs'[Len(bp_jobs) + 1] = j
  BY <1>t, <1>1, <1>3, BpOneAppended
<1>7. Bp!TypeOK'
  <2>1. bp_tpc' \in [Offloaders -> {"runs", "notifies", "waits"}]
    BY <1>0, <1>1 DEF Bp!TypeOK
  <2> QED BY <1>0, <1>1, <1>6, <1>a, <2>1 DEF Bp!TypeOK
<1>8. \A w \in PoolThreads : BpDoing(w)' <=> BpDoing(w)
  BY <1>1 DEF BpDoing
\* The task has nothing anywhere while it runs.
<1>9. /\ \A i \in DOMAIN bp_jobs : bp_jobs[i].task # t
      /\ \A w \in PoolThreads : BpDoing(w) => bp_pool[w].job.task # t
      /\ bp_answer[t] = None
      /\ \A d \in bp_dropped : d.task # t
  BY <1>0, <1>1 DEF BpQueuedOK, BpRunningOK, BpAnsweredOK, BpDroppedOK
<1>10. \A i \in DOMAIN bp_jobs' : \/ i \in DOMAIN bp_jobs /\ bp_jobs'[i] = bp_jobs[i]
                                  \/ i = Len(bp_jobs) + 1 /\ bp_jobs'[i] = j
  BY <1>a
<1>11. j \notin bp_dropped
  BY <1>3, <1>9
<1>12. BpQueuedOK'
  <2>1. ASSUME NEW i \in DOMAIN bp_jobs'
        PROVE  /\ bp_jobs'[i] = [task |-> bp_jobs'[i].task, call |-> bp_calls'[bp_jobs'[i].task]]
               /\ bp_tpc'[bp_jobs'[i].task] # "runs"
               /\ bp_answer'[bp_jobs'[i].task] = None /\ bp_jobs'[i] \notin bp_dropped'
    <3>1. CASE i \in DOMAIN bp_jobs /\ bp_jobs'[i] = bp_jobs[i]
      <4>1. bp_jobs[i].task \in Offloaders /\ bp_jobs[i].task # t
        BY <1>t, <1>9, <3>1
      <4> QED BY <1>0, <1>1, <1>4, <3>1, <4>1 DEF BpQueuedOK, Bp!Current
    <3>2. CASE bp_jobs'[i] = j
      BY <1>1, <1>3, <1>4, <1>9, <1>11, <3>2
    <3> QED BY <1>10, <3>1, <3>2
  <2>2. \A i, k \in DOMAIN bp_jobs' : bp_jobs'[i].task = bp_jobs'[k].task => i = k
    BY <1>0, <1>3, <1>9, <1>10 DEF BpQueuedOK
  <2> QED BY <2>1, <2>2 DEF BpQueuedOK, Bp!Current
<1>13. BpRunningOK'
  <2>1. \A w \in PoolThreads : BpDoing(w) =>
          /\ bp_pool[w].job = [task |-> bp_pool[w].job.task, call |-> bp_calls'[bp_pool[w].job.task]]
          /\ bp_tpc'[bp_pool[w].job.task] # "runs" /\ bp_answer[bp_pool[w].job.task] = None
          /\ bp_pool[w].job \notin bp_dropped
    BY <1>0, <1>t, <1>4, <1>9 DEF BpRunningOK, Bp!Current
  <2>2. \A w, x \in PoolThreads : BpDoing(w) /\ BpDoing(x) /\ bp_pool[w].job.task = bp_pool[x].job.task => w = x
    BY <1>0 DEF BpRunningOK
  <2>3. \A w \in PoolThreads, i \in DOMAIN bp_jobs' : BpDoing(w) => bp_jobs'[i].task # bp_pool[w].job.task
    BY <1>0, <1>3, <1>9, <1>10 DEF BpRunningOK
  <2> QED BY <1>1, <2>1, <2>2, <2>3 DEF BpRunningOK, Bp!Current, BpDoing
<1>14. BpAnsweredOK'
  <2>1. \A z \in Offloaders : bp_answer[z] # None =>
          /\ bp_answer[z] = bp_calls'[z] /\ bp_tpc'[z] # "runs"
          /\ [task |-> z, call |-> bp_calls'[z]] \notin bp_dropped
    BY <1>0, <1>4, <1>9 DEF BpAnsweredOK, Bp!Current
  <2> QED BY <1>1, <2>1 DEF BpAnsweredOK, Bp!Current
<1>15. BpDroppedOK'
  <2>1. \A d \in bp_dropped : d = [task |-> d.task, call |-> bp_calls'[d.task]] /\ bp_tpc'[d.task] # "runs"
    BY <1>0, <1>4, <1>9, BpTypeFacts DEF BpDroppedOK, Bp!Current
  <2> QED BY <1>1, <2>1 DEF BpDroppedOK, Bp!Current
<1>16. BpSomewhere'
  <2>1. ASSUME NEW z \in Offloaders, bp_tpc'[z] # "runs"
        PROVE  \/ \E i \in DOMAIN bp_jobs' : bp_jobs'[i].task = z
               \/ \E w \in PoolThreads : BpDoing(w) /\ bp_pool[w].job.task = z
               \/ bp_answer[z] # None
               \/ [task |-> z, call |-> bp_calls'[z]] \in bp_dropped
    <3>1. CASE z = t
      BY <1>3, <1>a, <3>1
    <3>2. CASE z # t
      <4>1. \/ \E i \in DOMAIN bp_jobs : bp_jobs[i].task = z
            \/ \E w \in PoolThreads : BpDoing(w) /\ bp_pool[w].job.task = z
            \/ bp_answer[z] # None
            \/ [task |-> z, call |-> bp_calls'[z]] \in bp_dropped
        BY <1>0, <1>4, <2>1, <3>2 DEF BpSomewhere, Bp!Current
      <4> QED BY <1>a, <4>1
    <3> QED BY <3>1, <3>2
  <2> QED BY <1>1, <2>1 DEF BpSomewhere, Bp!Current, BpDoing
<1>17. BpServed'
  <2>1. BpNotifiers' = BpNotifiers \cup {t} /\ t \notin BpNotifiers
    BY <1>1, <1>4 DEF BpNotifiers
  <2>2. IsFiniteSet(BpNotifiers') /\ Cardinality(BpNotifiers') = Cardinality(BpNotifiers) + 1
    BY <1>0, <2>1, FS_AddElement DEF BpServed
  <2>3. BpAwake' = BpAwake
    BY <1>1 DEF BpAwake
  <2>4. IsFiniteSet(BpAwake)
    BY FS_Subset DEF BpAwake, BpAssumptions
  <2>5. Cardinality(BpNotifiers) \in Nat /\ Cardinality(BpAwake) \in Nat
    BY <1>0, <2>4, FS_CardinalityType DEF BpServed
  <2> QED BY <1>0, <1>1, <1>a, <2>2, <2>3, <2>5 DEF BpServed
<1>18. BpPoolOK'
  BY <1>0, <1>1 DEF BpPoolOK
<1> QED BY <1>7, <1>12, <1>13, <1>14, <1>15, <1>16, <1>17, <1>18 DEF BpIInv

LEMMA BpNotifyStep ==
  ASSUME BpAssumptions, BpIInv, NEW t \in Offloaders, Bp!Notify(t)
  PROVE  BpIInv'
<1>0. /\ Bp!TypeOK /\ BpPoolOK /\ BpQueuedOK /\ BpRunningOK /\ BpAnsweredOK /\ BpDroppedOK /\ BpSomewhere
      /\ BpServed
  BY DEF BpIInv
<1>t. /\ bp_jobs \in Seq(Bp!Job) /\ \A i \in DOMAIN bp_jobs : bp_jobs[i] \in Bp!Job /\ bp_jobs[i].task \in Offloaders
      /\ \A u \in PoolThreads : BpDoing(u) => bp_pool[u].job \in Bp!Job /\ bp_pool[u].job.task \in Offloaders
  BY <1>0, BpTypeFacts
<1>1. /\ bp_tpc[t] = "notifies" /\ bp_tpc' = [bp_tpc EXCEPT ![t] = "waits"]
      /\ UNCHANGED <<bp_jobs, bp_calls, bp_answer, bp_dropped>>
      /\ \/ \E w \in PoolThreads : bp_pool[w].pc = "cv" /\ bp_pool' = [bp_pool EXCEPT ![w] = Bp!Free("loop")]
         \/ (\A w \in PoolThreads : bp_pool[w].pc # "cv") /\ UNCHANGED bp_pool
  BY DEF Bp!Notify
<1>2. bp_tpc'[t] = "waits" /\ \A z \in Offloaders : z # t => bp_tpc'[z] = bp_tpc[z]
  BY <1>0, <1>1 DEF Bp!TypeOK
<1>3. \A z \in Offloaders : bp_tpc'[z] # "runs" <=> bp_tpc[z] # "runs"
  BY <1>1, <1>2
<1>4. \A w \in PoolThreads : \/ bp_pool'[w] = bp_pool[w]
                             \/ bp_pool[w].pc = "cv" /\ bp_pool'[w].pc = "loop" /\ bp_pool'[w].job = None
  BY <1>0, <1>1 DEF BpPoolOK, Bp!Free
<1>5. \A w \in PoolThreads : /\ BpDoing(w)' <=> BpDoing(w)
                             /\ BpDoing(w) => bp_pool'[w].job = bp_pool[w].job
  BY <1>4 DEF BpDoing
<1>6. Bp!TypeOK'
  <2>1. bp_tpc' \in [Offloaders -> {"runs", "notifies", "waits"}]
    BY <1>0, <1>1 DEF Bp!TypeOK
  <2>2. \A w \in PoolThreads : \/ bp_pool'[w].pc \in {"loop", "cv"} /\ bp_pool'[w].job = None
                               \/ bp_pool'[w].pc = "job" /\ bp_pool'[w].job \in Bp!Job
    BY <1>0, <1>4 DEF Bp!TypeOK
  <2> QED BY <1>0, <1>1, <2>1, <2>2 DEF Bp!TypeOK
<1>7. BpPoolOK'
  BY <1>0, <1>1 DEF BpPoolOK
<1>8. BpQueuedOK'
  BY <1>0, <1>t, <1>1, <1>3 DEF BpQueuedOK, Bp!Current
<1>9. BpRunningOK'
  <2>1. \A w \in PoolThreads : BpDoing(w) =>
          /\ bp_pool[w].job = Bp!Current(bp_pool[w].job.task) /\ bp_tpc'[bp_pool[w].job.task] # "runs"
          /\ bp_answer[bp_pool[w].job.task] = None /\ bp_pool[w].job \notin bp_dropped
    BY <1>0, <1>t, <1>3 DEF BpRunningOK
  <2> QED BY <1>0, <1>1, <1>5, <2>1 DEF BpRunningOK, Bp!Current
<1>10. BpAnsweredOK'
  BY <1>0, <1>1, <1>3 DEF BpAnsweredOK, Bp!Current
<1>11. BpDroppedOK'
  BY <1>0, <1>1, <1>3, BpTypeFacts DEF BpDroppedOK, Bp!Current
<1>12. BpSomewhere'
  BY <1>0, <1>1, <1>3, <1>5 DEF BpSomewhere, Bp!Current
<1>13. BpServed'
  <2>1. BpNotifiers' = BpNotifiers \ {t} /\ t \in BpNotifiers
    BY <1>1, <1>2 DEF BpNotifiers
  <2>2. IsFiniteSet(BpNotifiers') /\ Cardinality(BpNotifiers') = Cardinality(BpNotifiers) - 1
    BY <1>0, <2>1, FS_RemoveElement DEF BpServed
  <2>3. IsFiniteSet(BpAwake)
    BY FS_Subset DEF BpAwake, BpAssumptions
  <2>4. Cardinality(BpNotifiers) \in Nat /\ Cardinality(BpAwake) \in Nat /\ Len(bp_jobs) \in Nat
    BY <1>0, <2>3, BpTypeFacts, FS_CardinalityType DEF BpServed
  <2>5. CASE (\A w \in PoolThreads : bp_pool[w].pc # "cv") /\ UNCHANGED bp_pool
    BY <2>2, <2>5 DEF BpServed
  <2>6. ASSUME NEW w \in PoolThreads, bp_pool[w].pc = "cv", bp_pool' = [bp_pool EXCEPT ![w] = Bp!Free("loop")]
        PROVE  BpServed'
    <3>1. bp_pool'[w].pc = "loop" /\ \A x \in PoolThreads : x # w => bp_pool'[x] = bp_pool[x]
      BY <1>0, <2>6 DEF BpPoolOK, Bp!Free
    <3>2. BpAwake' = BpAwake \cup {w} /\ w \notin BpAwake
      BY <2>6, <3>1 DEF BpAwake
    <3>3. Cardinality(BpAwake') = Cardinality(BpAwake) + 1
      BY <2>3, <3>2, FS_AddElement
    <3>4. Len(bp_jobs) <= Cardinality(BpNotifiers) + Cardinality(BpAwake)
      BY <1>0, <2>6 DEF BpServed
    <3>5. Len(bp_jobs') <= Cardinality(BpNotifiers') + Cardinality(BpAwake')
      BY <1>1, <2>2, <2>4, <3>3, <3>4
    <3> QED BY <2>2, <3>5 DEF BpServed
  <2> QED BY <1>1, <2>5, <2>6
<1> QED BY <1>6, <1>7, <1>8, <1>9, <1>10, <1>11, <1>12, <1>13 DEF BpIInv

LEMMA BpResumeStep ==
  ASSUME BpAssumptions, BpIInv, NEW t \in Offloaders, Bp!Resume(t)
  PROVE  BpIInv'
<1>0. /\ Bp!TypeOK /\ BpPoolOK /\ BpQueuedOK /\ BpRunningOK /\ BpAnsweredOK /\ BpDroppedOK /\ BpSomewhere
      /\ BpServed
  BY DEF BpIInv
<1>t. /\ bp_jobs \in Seq(Bp!Job) /\ \A i \in DOMAIN bp_jobs : bp_jobs[i] \in Bp!Job /\ bp_jobs[i].task \in Offloaders
      /\ \A u \in PoolThreads : BpDoing(u) => bp_pool[u].job \in Bp!Job /\ bp_pool[u].job.task \in Offloaders
  BY <1>0, BpTypeFacts
<1>1. /\ bp_tpc[t] = "waits" /\ bp_answer[t] # None /\ bp_tpc' = [bp_tpc EXCEPT ![t] = "runs"]
      /\ bp_answer' = [bp_answer EXCEPT ![t] = None] /\ UNCHANGED <<bp_jobs, bp_calls, bp_pool, bp_dropped>>
  BY DEF Bp!Resume
<1>2. /\ bp_tpc'[t] = "runs" /\ bp_answer'[t] = None
      /\ \A z \in Offloaders : z # t => bp_tpc'[z] = bp_tpc[z] /\ bp_answer'[z] = bp_answer[z]
  BY <1>0, <1>1 DEF Bp!TypeOK
\* The answer of the task is in no other place.
<1>3. /\ \A i \in DOMAIN bp_jobs : bp_jobs[i].task # t
      /\ \A w \in PoolThreads : BpDoing(w) => bp_pool[w].job.task # t
      /\ \A d \in bp_dropped : d.task # t
  BY <1>0, <1>1 DEF BpQueuedOK, BpRunningOK, BpAnsweredOK, BpDroppedOK
<1>4. Bp!TypeOK'
  <2>1. bp_tpc' \in [Offloaders -> {"runs", "notifies", "waits"}]
    BY <1>0, <1>1 DEF Bp!TypeOK
  <2>2. bp_answer' \in [Offloaders -> (1 .. MaxCalls) \cup {None}]
    BY <1>0, <1>1 DEF Bp!TypeOK
  <2> QED BY <1>0, <1>1, <2>1, <2>2 DEF Bp!TypeOK
<1>5. BpPoolOK'
  BY <1>0, <1>1 DEF BpPoolOK
<1>6. BpQueuedOK'
  BY <1>0, <1>t, <1>1, <1>2, <1>3 DEF BpQueuedOK, Bp!Current
<1>7. BpRunningOK'
  <2>1. \A w \in PoolThreads : BpDoing(w) =>
          /\ bp_pool[w].job = Bp!Current(bp_pool[w].job.task) /\ bp_tpc'[bp_pool[w].job.task] # "runs"
          /\ bp_answer'[bp_pool[w].job.task] = None /\ bp_pool[w].job \notin bp_dropped
    BY <1>0, <1>t, <1>2, <1>3 DEF BpRunningOK
  <2> QED BY <1>0, <1>1, <2>1 DEF BpRunningOK, Bp!Current, BpDoing
<1>8. BpAnsweredOK'
  BY <1>0, <1>1, <1>2 DEF BpAnsweredOK, Bp!Current
<1>9. BpDroppedOK'
  BY <1>0, <1>1, <1>2, <1>3, BpTypeFacts DEF BpDroppedOK, Bp!Current
<1>10. BpSomewhere'
  BY <1>0, <1>1, <1>2 DEF BpSomewhere, Bp!Current, BpDoing
<1>11. BpServed'
  <2>1. BpNotifiers' = BpNotifiers
    BY <1>1, <1>2 DEF BpNotifiers
  <2> QED BY <1>0, <1>1, <2>1 DEF BpServed, BpAwake
<1> QED BY <1>4, <1>5, <1>6, <1>7, <1>8, <1>9, <1>10, <1>11 DEF BpIInv

LEMMA BpTakeJobStep ==
  ASSUME BpAssumptions, BpIInv, NEW w \in PoolThreads, Bp!TakeJob(w)
  PROVE  BpIInv'
<1>0. /\ Bp!TypeOK /\ BpPoolOK /\ BpQueuedOK /\ BpRunningOK /\ BpAnsweredOK /\ BpDroppedOK /\ BpSomewhere
      /\ BpServed
  BY DEF BpIInv
<1>t. /\ bp_jobs \in Seq(Bp!Job) /\ \A i \in DOMAIN bp_jobs : bp_jobs[i] \in Bp!Job /\ bp_jobs[i].task \in Offloaders
      /\ \A u \in PoolThreads : BpDoing(u) => bp_pool[u].job \in Bp!Job /\ bp_pool[u].job.task \in Offloaders
  BY <1>0, BpTypeFacts
<1> DEFINE h == Head(bp_jobs)
<1>1. /\ bp_pool[w].pc = "loop" /\ bp_jobs # <<>> /\ bp_pool' = [bp_pool EXCEPT ![w] = [pc |-> "job", job |-> h]]
      /\ bp_jobs' = Tail(bp_jobs) /\ UNCHANGED <<bp_tpc, bp_calls, bp_answer, bp_dropped>>
  BY DEF Bp!TakeJob, Bp!Rest
<1>h. h = Head(bp_jobs)
  OBVIOUS
<1>2. bp_pool'[w].pc = "job" /\ bp_pool'[w].job = h /\ \A x \in PoolThreads : x # w => bp_pool'[x] = bp_pool[x]
  BY <1>0, <1>1 DEF BpPoolOK
<1> HIDE DEF h
<1>3. /\ h \in Bp!Job /\ h = bp_jobs[1] /\ 1 \in DOMAIN bp_jobs /\ bp_jobs' \in Seq(Bp!Job)
      /\ Len(bp_jobs) \in Nat /\ Len(bp_jobs') = Len(bp_jobs) - 1
      /\ \A i \in DOMAIN bp_jobs' : i + 1 \in DOMAIN bp_jobs /\ i \in Nat /\ i + 1 # 1 /\ bp_jobs'[i] = bp_jobs[i + 1]
      /\ \A i \in DOMAIN bp_jobs : i = 1 \/ (i - 1 \in DOMAIN bp_jobs' /\ bp_jobs'[i - 1] = bp_jobs[i])
  BY <1>t, <1>1, <1>h, BpHeadAndTail
<1>4. BpDoing(w)' /\ ~BpDoing(w) /\ \A x \in PoolThreads : x # w => (BpDoing(x)' <=> BpDoing(x))
  BY <1>1, <1>2 DEF BpDoing
<1>5. /\ h = Bp!Current(h.task) /\ bp_tpc[h.task] # "runs" /\ bp_answer[h.task] = None /\ h \notin bp_dropped
      /\ \A i \in DOMAIN bp_jobs : bp_jobs[i].task = h.task => i = 1
      /\ \A x \in PoolThreads : BpDoing(x) => bp_pool[x].job.task # h.task
  BY <1>0, <1>3 DEF BpQueuedOK, BpRunningOK
<1>6. Bp!TypeOK'
  <2>1. \A x \in PoolThreads : \/ bp_pool'[x].pc \in {"loop", "cv"} /\ bp_pool'[x].job = None
                               \/ bp_pool'[x].pc = "job" /\ bp_pool'[x].job \in Bp!Job
    BY <1>0, <1>2, <1>3 DEF Bp!TypeOK
  <2> QED BY <1>0, <1>1, <1>3, <2>1 DEF Bp!TypeOK
<1>7. BpPoolOK'
  BY <1>0, <1>1 DEF BpPoolOK
<1>8. BpQueuedOK'
  <2>1. \A i \in DOMAIN bp_jobs' :
          /\ bp_jobs'[i] = Bp!Current(bp_jobs'[i].task) /\ bp_tpc[bp_jobs'[i].task] # "runs"
          /\ bp_answer[bp_jobs'[i].task] = None /\ bp_jobs'[i] \notin bp_dropped
    BY <1>0, <1>3 DEF BpQueuedOK
  <2>2. ASSUME NEW i \in DOMAIN bp_jobs', NEW k \in DOMAIN bp_jobs', bp_jobs'[i].task = bp_jobs'[k].task
        PROVE  i = k
    <3>1. i + 1 = k + 1
      BY <1>0, <1>3, <2>2 DEF BpQueuedOK
    <3> QED BY <1>3, <3>1
  <2> QED BY <1>1, <2>1, <2>2 DEF BpQueuedOK, Bp!Current
<1>9. BpRunningOK'
  <2>1. \A x \in PoolThreads : BpDoing(x)' =>
          /\ bp_pool'[x].job = Bp!Current(bp_pool'[x].job.task) /\ bp_tpc[bp_pool'[x].job.task] # "runs"
          /\ bp_answer[bp_pool'[x].job.task] = None /\ bp_pool'[x].job \notin bp_dropped
    BY <1>0, <1>2, <1>4, <1>5 DEF BpRunningOK
  <2>2. \A x, y \in PoolThreads : BpDoing(x)' /\ BpDoing(y)' /\ bp_pool'[x].job.task = bp_pool'[y].job.task => x = y
    BY <1>0, <1>2, <1>4, <1>5 DEF BpRunningOK
  <2>3. ASSUME NEW x \in PoolThreads, NEW i \in DOMAIN bp_jobs', BpDoing(x)'
        PROVE  bp_jobs'[i].task # bp_pool'[x].job.task
    <3>1. i + 1 \in DOMAIN bp_jobs /\ i + 1 # 1 /\ bp_jobs'[i] = bp_jobs[i + 1]
      BY <1>3
    <3>2. CASE x = w
      BY <1>2, <1>5, <3>1, <3>2
    <3>3. CASE x # w
      BY <1>0, <1>2, <1>4, <2>3, <3>1, <3>3 DEF BpRunningOK
    <3> QED BY <3>2, <3>3
  <2> QED BY <1>1, <2>1, <2>2, <2>3 DEF BpRunningOK, Bp!Current
<1>10. BpAnsweredOK' /\ BpDroppedOK'
  BY <1>0, <1>1 DEF BpAnsweredOK, BpDroppedOK, Bp!Current
<1>11. BpSomewhere'
  <2> SUFFICES ASSUME NEW z \in Offloaders, bp_tpc[z] # "runs"
               PROVE  \/ \E i \in DOMAIN bp_jobs' : bp_jobs'[i].task = z
                      \/ \E x \in PoolThreads : BpDoing(x)' /\ bp_pool'[x].job.task = z
                      \/ bp_answer[z] # None
                      \/ Bp!Current(z) \in bp_dropped
    BY <1>1 DEF BpSomewhere, Bp!Current
  <2>1. CASE \E i \in DOMAIN bp_jobs : bp_jobs[i].task = z
    <3>1. PICK i \in DOMAIN bp_jobs : bp_jobs[i].task = z
      BY <2>1
    <3>2. CASE i = 1
      BY <1>2, <1>3, <1>4, <3>1, <3>2
    <3>3. CASE i # 1
      BY <1>3, <3>1, <3>3
    <3> QED BY <3>2, <3>3
  <2>2. CASE \E x \in PoolThreads : BpDoing(x) /\ bp_pool[x].job.task = z
    BY <1>2, <1>4, <2>2
  <2> QED BY <1>0, <2>1, <2>2 DEF BpSomewhere
<1>12. BpServed'
  <2>1. BpNotifiers' = BpNotifiers
    BY <1>1 DEF BpNotifiers
  <2>2. \A x \in PoolThreads : bp_pool'[x].pc = "cv" <=> bp_pool[x].pc = "cv"
    BY <1>1, <1>2
  <2>3. BpAwake' = BpAwake
    BY <2>2 DEF BpAwake
  <2>4. IsFiniteSet(BpAwake)
    BY FS_Subset DEF BpAwake, BpAssumptions
  <2>5. Cardinality(BpNotifiers) \in Nat /\ Cardinality(BpAwake) \in Nat
    BY <1>0, <2>4, FS_CardinalityType DEF BpServed
  <2> QED BY <1>0, <1>3, <2>1, <2>2, <2>3, <2>5 DEF BpServed
<1> QED BY <1>6, <1>7, <1>8, <1>9, <1>10, <1>11, <1>12 DEF BpIInv

LEMMA BpWaitForJobStep ==
  ASSUME BpAssumptions, BpIInv, NEW w \in PoolThreads, Bp!WaitForJob(w)
  PROVE  BpIInv'
<1>0. /\ Bp!TypeOK /\ BpPoolOK /\ BpQueuedOK /\ BpRunningOK /\ BpAnsweredOK /\ BpDroppedOK /\ BpSomewhere
      /\ BpServed
  BY DEF BpIInv
<1>t. /\ bp_jobs \in Seq(Bp!Job) /\ \A i \in DOMAIN bp_jobs : bp_jobs[i] \in Bp!Job /\ bp_jobs[i].task \in Offloaders
      /\ \A u \in PoolThreads : BpDoing(u) => bp_pool[u].job \in Bp!Job /\ bp_pool[u].job.task \in Offloaders
  BY <1>0, BpTypeFacts
<1>1. /\ bp_pool[w].pc = "loop" /\ bp_jobs = <<>> /\ bp_pool' = [bp_pool EXCEPT ![w] = Bp!Free("cv")]
      /\ UNCHANGED <<bp_jobs, bp_tpc, bp_calls, bp_answer, bp_dropped>>
  BY DEF Bp!WaitForJob
<1>2. bp_pool'[w].pc = "cv" /\ bp_pool'[w].job = None /\ \A x \in PoolThreads : x # w => bp_pool'[x] = bp_pool[x]
  BY <1>0, <1>1 DEF BpPoolOK, Bp!Free
<1>3. \A x \in PoolThreads : /\ BpDoing(x)' <=> BpDoing(x)
                             /\ BpDoing(x) => bp_pool'[x] = bp_pool[x]
  BY <1>1, <1>2 DEF BpDoing
<1>4. Bp!TypeOK'
  <2>1. \A x \in PoolThreads : \/ bp_pool'[x].pc \in {"loop", "cv"} /\ bp_pool'[x].job = None
                               \/ bp_pool'[x].pc = "job" /\ bp_pool'[x].job \in Bp!Job
    BY <1>0, <1>2 DEF Bp!TypeOK
  <2> QED BY <1>0, <1>1, <2>1 DEF Bp!TypeOK
<1>5. BpPoolOK'
  BY <1>0, <1>1 DEF BpPoolOK
<1>6. BpQueuedOK' /\ BpAnsweredOK' /\ BpDroppedOK'
  BY <1>0, <1>1 DEF BpQueuedOK, BpAnsweredOK, BpDroppedOK, Bp!Current
<1>7. BpRunningOK'
  BY <1>0, <1>1, <1>3 DEF BpRunningOK, Bp!Current
<1>8. BpSomewhere'
  BY <1>0, <1>1, <1>3 DEF BpSomewhere, Bp!Current
<1>9. BpServed'
  <2>1. BpNotifiers' = BpNotifiers
    BY <1>1 DEF BpNotifiers
  <2>2. IsFiniteSet(BpAwake')
    BY FS_Subset DEF BpAwake, BpAssumptions
  <2>3. Cardinality(BpNotifiers) \in Nat /\ Cardinality(BpAwake') \in Nat /\ Len(bp_jobs') = 0
    BY <1>0, <1>1, <2>2, FS_CardinalityType DEF BpServed
  <2> QED BY <1>0, <2>1, <2>3 DEF BpServed
<1> QED BY <1>4, <1>5, <1>6, <1>7, <1>8, <1>9 DEF BpIInv

\* A pool thread has ended its job, with an answer or with a panic.
LEMMA BpJobEnds ==
  ASSUME BpAssumptions, BpIInv, NEW w \in PoolThreads, BpDoing(w), bp_pool' = [bp_pool EXCEPT ![w] = Bp!Free("loop")],
         UNCHANGED <<bp_jobs, bp_tpc, bp_calls>>
  PROVE  /\ bp_pool[w].job \in Bp!Job /\ bp_pool[w].job.task \in Offloaders
         /\ ~BpDoing(w)' /\ \A x \in PoolThreads : x # w => (BpDoing(x)' <=> BpDoing(x)) /\ bp_pool'[x] = bp_pool[x]
         /\ \A x \in PoolThreads : \/ bp_pool'[x].pc \in {"loop", "cv"} /\ bp_pool'[x].job = None
                                   \/ bp_pool'[x].pc = "job" /\ bp_pool'[x].job \in Bp!Job
         /\ BpPoolOK' /\ BpServed'
         /\ bp_pool[w].job = Bp!Current(bp_pool[w].job.task) /\ bp_tpc[bp_pool[w].job.task] # "runs"
         /\ bp_answer[bp_pool[w].job.task] = None /\ bp_pool[w].job \notin bp_dropped
         /\ \A i \in DOMAIN bp_jobs : bp_jobs[i].task # bp_pool[w].job.task
         /\ \A x \in PoolThreads : x # w /\ BpDoing(x) => bp_pool[x].job.task # bp_pool[w].job.task
<1>0. /\ Bp!TypeOK /\ BpPoolOK /\ BpQueuedOK /\ BpRunningOK /\ BpAnsweredOK /\ BpDroppedOK /\ BpSomewhere
      /\ BpServed
  BY DEF BpIInv
<1>t. /\ bp_jobs \in Seq(Bp!Job) /\ \A i \in DOMAIN bp_jobs : bp_jobs[i] \in Bp!Job /\ bp_jobs[i].task \in Offloaders
      /\ \A u \in PoolThreads : BpDoing(u) => bp_pool[u].job \in Bp!Job /\ bp_pool[u].job.task \in Offloaders
  BY <1>0, BpTypeFacts
<1>1. bp_pool'[w].pc = "loop" /\ bp_pool'[w].job = None /\ \A x \in PoolThreads : x # w => bp_pool'[x] = bp_pool[x]
  BY <1>0 DEF BpPoolOK, Bp!Free
<1>2. ~BpDoing(w)' /\ \A x \in PoolThreads : x # w => (BpDoing(x)' <=> BpDoing(x))
  BY <1>1 DEF BpDoing
<1>3. \A x \in PoolThreads : \/ bp_pool'[x].pc \in {"loop", "cv"} /\ bp_pool'[x].job = None
                             \/ bp_pool'[x].pc = "job" /\ bp_pool'[x].job \in Bp!Job
  BY <1>0, <1>1 DEF Bp!TypeOK
<1>4. BpPoolOK'
  BY <1>0 DEF BpPoolOK
<1>5. BpServed'
  <2>1. \A x \in PoolThreads : bp_pool'[x].pc = "cv" <=> bp_pool[x].pc = "cv"
    BY <1>1 DEF BpDoing
  <2>2. BpAwake' = BpAwake /\ BpNotifiers' = BpNotifiers
    BY <2>1 DEF BpAwake, BpNotifiers
  <2> QED BY <1>0, <2>1, <2>2 DEF BpServed
<1>6. /\ bp_pool[w].job = Bp!Current(bp_pool[w].job.task) /\ bp_tpc[bp_pool[w].job.task] # "runs"
      /\ bp_answer[bp_pool[w].job.task] = None /\ bp_pool[w].job \notin bp_dropped
      /\ \A i \in DOMAIN bp_jobs : bp_jobs[i].task # bp_pool[w].job.task
      /\ \A x \in PoolThreads : x # w /\ BpDoing(x) => bp_pool[x].job.task # bp_pool[w].job.task
  BY <1>0 DEF BpRunningOK
<1> QED BY <1>t, <1>1, <1>2, <1>3, <1>4, <1>5, <1>6

LEMMA BpCompleteStep ==
  ASSUME BpAssumptions, BpIInv, NEW w \in PoolThreads, Bp!Complete(w)
  PROVE  BpIInv'
<1>0. /\ Bp!TypeOK /\ BpPoolOK /\ BpQueuedOK /\ BpRunningOK /\ BpAnsweredOK /\ BpDroppedOK /\ BpSomewhere
      /\ BpServed
  BY DEF BpIInv
<1>t. /\ bp_jobs \in Seq(Bp!Job) /\ \A i \in DOMAIN bp_jobs : bp_jobs[i] \in Bp!Job /\ bp_jobs[i].task \in Offloaders
      /\ \A u \in PoolThreads : BpDoing(u) => bp_pool[u].job \in Bp!Job /\ bp_pool[u].job.task \in Offloaders
  BY <1>0, BpTypeFacts
<1> DEFINE j == bp_pool[w].job
<1>1. /\ BpDoing(w) /\ bp_pool' = [bp_pool EXCEPT ![w] = Bp!Free("loop")]
      /\ bp_answer' = [bp_answer EXCEPT ![j.task] = j.call] /\ UNCHANGED <<bp_jobs, bp_tpc, bp_calls, bp_dropped>>
  BY DEF Bp!Complete, BpDoing
<1>2. /\ j \in Bp!Job /\ j.task \in Offloaders /\ ~BpDoing(w)'
      /\ \A x \in PoolThreads : x # w => (BpDoing(x)' <=> BpDoing(x)) /\ bp_pool'[x] = bp_pool[x]
      /\ \A x \in PoolThreads : \/ bp_pool'[x].pc \in {"loop", "cv"} /\ bp_pool'[x].job = None
                                \/ bp_pool'[x].pc = "job" /\ bp_pool'[x].job \in Bp!Job
      /\ BpPoolOK' /\ BpServed'
      /\ j = Bp!Current(j.task) /\ bp_tpc[j.task] # "runs"
      /\ bp_answer[j.task] = None /\ j \notin bp_dropped
      /\ \A i \in DOMAIN bp_jobs : bp_jobs[i].task # j.task
      /\ \A x \in PoolThreads : x # w /\ BpDoing(x) => bp_pool[x].job.task # j.task
  BY <1>1, BpJobEnds, Zenon
<1> HIDE DEF j
<1>3. bp_answer'[j.task] = j.call /\ \A z \in Offloaders : z # j.task => bp_answer'[z] = bp_answer[z]
  BY <1>0, <1>1, <1>2 DEF Bp!TypeOK
<1>4. j.call \in 1 .. MaxCalls /\ j.call = bp_calls[j.task]
  BY <1>2 DEF Bp!Job, Bp!Current
<1>5. Bp!TypeOK'
  <2>1. bp_answer' \in [Offloaders -> (1 .. MaxCalls) \cup {None}]
    BY <1>0, <1>1, <1>4 DEF Bp!TypeOK
  <2> QED BY <1>0, <1>1, <1>2, <2>1 DEF Bp!TypeOK
<1>6. BpQueuedOK'
  BY <1>0, <1>t, <1>1, <1>2, <1>3 DEF BpQueuedOK, Bp!Current
<1>7. BpRunningOK'
  <2>1. \A x \in PoolThreads : x # w /\ BpDoing(x) =>
          /\ bp_pool[x].job = Bp!Current(bp_pool[x].job.task) /\ bp_tpc[bp_pool[x].job.task] # "runs"
          /\ bp_answer'[bp_pool[x].job.task] = None /\ bp_pool[x].job \notin bp_dropped
    BY <1>0, <1>t, <1>2, <1>3 DEF BpRunningOK
  <2> QED BY <1>0, <1>1, <1>2, <2>1 DEF BpRunningOK, Bp!Current
<1>8. BpAnsweredOK'
  <2>1. \A z \in Offloaders : bp_answer'[z] # None =>
          bp_answer'[z] = bp_calls[z] /\ bp_tpc[z] # "runs" /\ Bp!Current(z) \notin bp_dropped
    BY <1>0, <1>2, <1>3, <1>4 DEF BpAnsweredOK
  <2> QED BY <1>1, <2>1 DEF BpAnsweredOK, Bp!Current
<1>9. BpDroppedOK'
  BY <1>0, <1>1 DEF BpDroppedOK, Bp!Current
<1>10. BpSomewhere'
  <2> SUFFICES ASSUME NEW z \in Offloaders, bp_tpc[z] # "runs"
               PROVE  \/ \E i \in DOMAIN bp_jobs : bp_jobs[i].task = z
                      \/ \E x \in PoolThreads : BpDoing(x)' /\ bp_pool'[x].job.task = z
                      \/ bp_answer'[z] # None
                      \/ Bp!Current(z) \in bp_dropped
    BY <1>1 DEF BpSomewhere, Bp!Current
  <2>1. CASE z = j.task
    BY <1>3, <1>4, <2>1 DEF BpAssumptions
  <2>2. CASE z # j.task
    <3>1. \A x \in PoolThreads : BpDoing(x) /\ bp_pool[x].job.task = z => BpDoing(x)' /\ bp_pool'[x].job.task = z
      BY <1>2, <2>2 DEF j
    <3> QED BY <1>0, <1>3, <2>2, <3>1 DEF BpSomewhere
  <2> QED BY <2>1, <2>2
<1> QED BY <1>2, <1>5, <1>6, <1>7, <1>8, <1>9, <1>10 DEF BpIInv

LEMMA BpPanicStep ==
  ASSUME BpAssumptions, BpIInv, NEW w \in PoolThreads, Bp!JobPanics(w)
  PROVE  BpIInv'
<1>0. /\ Bp!TypeOK /\ BpPoolOK /\ BpQueuedOK /\ BpRunningOK /\ BpAnsweredOK /\ BpDroppedOK /\ BpSomewhere
      /\ BpServed
  BY DEF BpIInv
<1>t. /\ bp_jobs \in Seq(Bp!Job) /\ \A i \in DOMAIN bp_jobs : bp_jobs[i] \in Bp!Job /\ bp_jobs[i].task \in Offloaders
      /\ \A u \in PoolThreads : BpDoing(u) => bp_pool[u].job \in Bp!Job /\ bp_pool[u].job.task \in Offloaders
  BY <1>0, BpTypeFacts
<1> DEFINE j == bp_pool[w].job
<1>1. /\ BpDoing(w) /\ bp_pool' = [bp_pool EXCEPT ![w] = Bp!Free("loop")]
      /\ bp_dropped' = bp_dropped \cup {j} /\ UNCHANGED <<bp_jobs, bp_tpc, bp_calls, bp_answer>>
  BY DEF Bp!JobPanics, BpDoing
<1>2. /\ j \in Bp!Job /\ j.task \in Offloaders /\ ~BpDoing(w)'
      /\ \A x \in PoolThreads : x # w => (BpDoing(x)' <=> BpDoing(x)) /\ bp_pool'[x] = bp_pool[x]
      /\ \A x \in PoolThreads : \/ bp_pool'[x].pc \in {"loop", "cv"} /\ bp_pool'[x].job = None
                                \/ bp_pool'[x].pc = "job" /\ bp_pool'[x].job \in Bp!Job
      /\ BpPoolOK' /\ BpServed'
      /\ j = Bp!Current(j.task) /\ bp_tpc[j.task] # "runs"
      /\ bp_answer[j.task] = None /\ j \notin bp_dropped
      /\ \A i \in DOMAIN bp_jobs : bp_jobs[i].task # j.task
      /\ \A x \in PoolThreads : x # w /\ BpDoing(x) => bp_pool[x].job.task # j.task
  BY <1>1, BpJobEnds, Zenon
<1> HIDE DEF j
<1>3. Bp!TypeOK'
  BY <1>0, <1>1, <1>2 DEF Bp!TypeOK
<1>4. BpQueuedOK'
  BY <1>0, <1>1, <1>2 DEF BpQueuedOK, Bp!Current
<1>5. BpRunningOK'
  <2>1. \A x \in PoolThreads : x # w /\ BpDoing(x) =>
          /\ bp_pool[x].job = Bp!Current(bp_pool[x].job.task) /\ bp_tpc[bp_pool[x].job.task] # "runs"
          /\ bp_answer[bp_pool[x].job.task] = None /\ bp_pool[x].job \notin bp_dropped'
    BY <1>0, <1>1, <1>2 DEF BpRunningOK
  <2> QED BY <1>0, <1>1, <1>2, <2>1 DEF BpRunningOK, Bp!Current
<1>6. BpAnsweredOK'
  <2>1. \A z \in Offloaders : bp_answer[z] # None => Bp!Current(z) # j
    BY <1>2 DEF Bp!Current
  <2> QED BY <1>0, <1>1, <2>1 DEF BpAnsweredOK, Bp!Current
<1>7. BpDroppedOK'
  BY <1>0, <1>1, <1>2 DEF BpDroppedOK, Bp!Current
<1>8. BpSomewhere'
  <2> SUFFICES ASSUME NEW z \in Offloaders, bp_tpc[z] # "runs"
               PROVE  \/ \E i \in DOMAIN bp_jobs : bp_jobs[i].task = z
                      \/ \E x \in PoolThreads : BpDoing(x)' /\ bp_pool'[x].job.task = z
                      \/ bp_answer[z] # None
                      \/ Bp!Current(z) \in bp_dropped'
    BY <1>1 DEF BpSomewhere, Bp!Current
  <2>1. CASE z = j.task
    BY <1>1, <1>2, <2>1
  <2>2. CASE z # j.task
    <3>1. \A x \in PoolThreads : BpDoing(x) /\ bp_pool[x].job.task = z => BpDoing(x)' /\ bp_pool'[x].job.task = z
      BY <1>2, <2>2 DEF j
    <3> QED BY <1>0, <1>1, <2>2, <3>1 DEF BpSomewhere
  <2> QED BY <2>1, <2>2
<1> QED BY <1>2, <1>3, <1>4, <1>5, <1>6, <1>7, <1>8 DEF BpIInv

LEMMA BpInvariance == ASSUME BpAssumptions PROVE Bp!Spec => []BpIInv
<1>1. Bp!Init => BpIInv
  BY BpInitInv
<1>2. BpIInv /\ [Bp!Next]_(Bp!vars) => BpIInv'
  <2> SUFFICES ASSUME BpIInv, [Bp!Next]_(Bp!vars) PROVE BpIInv'
    OBVIOUS
  <2>1. CASE \E t \in Offloaders : Bp!TaskStep(t)
    BY <2>1, BpOffloadStep, BpNotifyStep, BpResumeStep DEF Bp!TaskStep
  <2>2. CASE \E w \in PoolThreads : Bp!PoolStep(w)
    BY <2>2, BpTakeJobStep, BpWaitForJobStep, BpCompleteStep, BpPanicStep DEF Bp!PoolStep
  <2>3. CASE UNCHANGED Bp!vars
    <3>1. UNCHANGED bp_jobs /\ UNCHANGED bp_tpc /\ UNCHANGED bp_calls /\ UNCHANGED bp_answer
          /\ UNCHANGED bp_pool /\ UNCHANGED bp_dropped
      BY <2>3 DEF Bp!vars
    <3>2. Bp!TypeOK' /\ BpPoolOK'
      BY <3>1 DEF BpIInv, Bp!TypeOK, BpPoolOK
    <3>3. BpQueuedOK' /\ BpAnsweredOK' /\ BpDroppedOK'
      BY <3>1 DEF BpIInv, BpQueuedOK, BpAnsweredOK, BpDroppedOK, Bp!Current
    <3>4. BpRunningOK' /\ BpSomewhere'
      BY <3>1 DEF BpIInv, BpRunningOK, BpSomewhere, Bp!Current, BpDoing
    <3>5. BpServed'
      BY <3>1 DEF BpIInv, BpServed, BpNotifiers, BpAwake
    <3> QED BY <3>2, <3>3, <3>4, <3>5 DEF BpIInv
  <2> QED BY <2>1, <2>2, <2>3 DEF Bp!Next
<1> QED BY <1>1, <1>2, PTL DEF Bp!Spec

-----------------------------------------------------------------------------
(* What follows *)

LEMMA BpAtMostOne ==
  ASSUME NEW S, \A x, y \in S : x = y
  PROVE  /\ S = {} => Cardinality(S) = 0
         /\ S # {} => Cardinality(S) = 1
<1>1. S = {} => Cardinality(S) = 0
  BY FS_EmptySet
<1>2. ASSUME S # {} PROVE Cardinality(S) = 1
  <2>1. PICK x \in S : TRUE
    BY <1>2
  <2>2. S = {x}
    BY <2>1
  <2> QED BY <2>2, FS_Singleton
<1> QED BY <1>1, <1>2

LEMMA BpOnePlaceFollows == ASSUME BpIInv PROVE Bp!ExactlyOnePlace
<1>0. /\ Bp!TypeOK /\ BpQueuedOK /\ BpRunningOK /\ BpAnsweredOK /\ BpDroppedOK /\ BpSomewhere
  BY DEF BpIInv
<1> SUFFICES ASSUME NEW t \in Offloaders
             PROVE  LET queued  == {i \in DOMAIN bp_jobs : bp_jobs[i].task = t}
                        running == {w \in PoolThreads : bp_pool[w].pc = "job" /\ bp_pool[w].job.task = t}
                        places  == Cardinality(queued) + Cardinality(running)
                                   + (IF bp_answer[t] = None THEN 0 ELSE 1)
                                   + (IF Bp!Current(t) \in bp_dropped THEN 1 ELSE 0)
                    IN  /\ places = (IF bp_tpc[t] = "runs" THEN 0 ELSE 1)
                        /\ \A i \in queued : bp_jobs[i] = Bp!Current(t)
                        /\ \A w \in running : bp_pool[w].job = Bp!Current(t)
                        /\ bp_answer[t] \in {None, bp_calls[t]}
  BY BpCardinality DEF Bp!ExactlyOnePlace
<1> DEFINE Q == {i \in DOMAIN bp_jobs : bp_jobs[i].task = t}
           R == {w \in PoolThreads : bp_pool[w].pc = "job" /\ bp_pool[w].job.task = t}
           D == Bp!Current(t) \in bp_dropped
<1>1. (\A i, j \in Q : i = j) /\ (\A w, x \in R : w = x)
  BY <1>0 DEF BpQueuedOK, BpRunningOK, BpDoing
<1>2. (\A i \in Q : bp_jobs[i] = Bp!Current(t)) /\ (\A w \in R : bp_pool[w].job = Bp!Current(t))
      /\ bp_answer[t] \in {None, bp_calls[t]}
  BY <1>0 DEF BpQueuedOK, BpRunningOK, BpAnsweredOK, BpDoing
<1>3. Q # {} => R = {} /\ bp_answer[t] = None /\ ~D /\ bp_tpc[t] # "runs"
  <2>1. \A i \in Q, w \in R : FALSE
    BY <1>0 DEF BpRunningOK, BpDoing
  <2>2. \A i \in Q : bp_answer[t] = None /\ ~D /\ bp_tpc[t] # "runs"
    BY <1>0, <1>2 DEF BpQueuedOK
  <2> QED BY <2>1, <2>2
<1>4. R # {} => bp_answer[t] = None /\ ~D /\ bp_tpc[t] # "runs"
  BY <1>0, <1>2 DEF BpRunningOK, BpDoing
<1>5. bp_answer[t] # None => ~D /\ bp_tpc[t] # "runs"
  BY <1>0 DEF BpAnsweredOK
<1>6. D => bp_tpc[t] # "runs"
  BY <1>0 DEF BpDroppedOK, Bp!Current
<1>7. bp_tpc[t] # "runs" => Q # {} \/ R # {} \/ bp_answer[t] # None \/ D
  BY <1>0 DEF BpSomewhere, BpDoing
<1>8. /\ Q = {} => Cardinality(Q) = 0
      /\ Q # {} => Cardinality(Q) = 1
  BY <1>1, BpAtMostOne, Zenon
<1>9. /\ R = {} => Cardinality(R) = 0
      /\ R # {} => Cardinality(R) = 1
  BY <1>1, BpAtMostOne, Zenon
<1> HIDE DEF Q, R, D
<1>10. Cardinality(Q) + Cardinality(R) + (IF bp_answer[t] = None THEN 0 ELSE 1) + (IF D THEN 1 ELSE 0)
         = (IF bp_tpc[t] = "runs" THEN 0 ELSE 1)
  <2>1. CASE Q # {}
    BY <1>3, <1>8, <1>9, <2>1
  <2>2. CASE Q = {} /\ R # {}
    BY <1>4, <1>8, <1>9, <2>2
  <2>3. CASE Q = {} /\ R = {}
    BY <1>5, <1>6, <1>7, <1>8, <1>9, <2>3
  <2> QED BY <2>1, <2>2, <2>3
<1> QED BY <1>2, <1>10 DEF Q, R, D

\* Every variable of the pool keeps to its type.
LEMMA BpTypeCorrect == ASSUME BpAssumptions PROVE Bp!Spec => []Bp!TypeOK
<1>1. BpIInv => Bp!TypeOK
  BY DEF BpIInv
<1> QED BY <1>1, BpInvariance, PTL

\* The call of a waiting task is queued, with one thread, answered or dropped, and in
\* one of these places only: it runs once, and an answer is to the current call
\* (scheduler.rs:543-617, vm.rs:1685-1719).
LEMMA BpOnePlace == ASSUME BpAssumptions PROVE Bp!Spec => []Bp!ExactlyOnePlace
<1>1. BpIInv => Bp!ExactlyOnePlace
  BY BpOnePlaceFollows
<1> QED BY <1>1, BpInvariance, PTL

\* A queued job has a thread awake or a notification to come (scheduler.rs:584-607).
LEMMA BpJobsAreServed == ASSUME BpAssumptions PROVE Bp!Spec => []Bp!QueueIsServed
<1>1. BpIInv => Bp!QueueIsServed
  BY BpCardinality DEF BpIInv, BpServed, Bp!QueueIsServed, BpNotifiers, BpAwake
<1> QED BY <1>1, BpInvariance, PTL

-----------------------------------------------------------------------------
(* WaitGroup: nobody sleeps on a counter that is zero.  The step to zero wakes   *)
(* everybody at once; all that has to be added is that a thread is never parked. *)

\* Threads wait on cv; they are never in the queue of tasks.
WgThreadsOK == \A p \in Threads : wg_pc[p] # "parked"

WgIInv == Wg!TypeOK /\ Wg!NobodyIsStranded /\ WgThreadsOK

\* What one more entry does to a queue without repetitions.
LEMMA WgEnqueued ==
  ASSUME NEW s \in Seq(Tasks), NEW t \in Tasks
  PROVE  /\ Append(s, t) \in Seq(Tasks)
         /\ Wg!Range(Append(s, t)) = Wg!Range(s) \cup {t}
         /\ Wg!IsInjective(s) /\ t \notin Wg!Range(s) => Wg!IsInjective(Append(s, t))
<1>1. /\ Append(s, t) \in Seq(Tasks)
      /\ DOMAIN Append(s, t) = DOMAIN s \cup {Len(s) + 1}
      /\ \A i \in DOMAIN s : Append(s, t)[i] = s[i]
      /\ Append(s, t)[Len(s) + 1] = t
  OBVIOUS
<1>2. Wg!Range(Append(s, t)) = Wg!Range(s) \cup {t}
  BY <1>1, Zenon DEF Wg!Range
<1>3. ASSUME Wg!IsInjective(s), t \notin Wg!Range(s) PROVE Wg!IsInjective(Append(s, t))
  BY <1>1, <1>3, Zenon DEF Wg!Range, Wg!IsInjective
<1> QED BY <1>1, <1>2, <1>3

LEMMA WgEmptyQueue == Wg!Range(<<>>) = {} /\ Wg!IsInjective(<<>>)
BY DEF Wg!Range, Wg!IsInjective

LEMMA WgInitInv == ASSUME MaxCount \in Nat, MaxAdds \in Nat, Wg!Init PROVE WgIInv
<1>1. Wg!TypeOK
  BY DEF Wg!Init, Wg!TypeOK
<1>2. Wg!NobodyIsStranded
  BY WgEmptyQueue, Zenon DEF Wg!Init, Wg!NobodyIsStranded, Wg!Procs
<1>3. WgThreadsOK
  BY DEF Wg!Init, WgThreadsOK, Wg!Procs
<1> QED BY <1>1, <1>2, <1>3 DEF WgIInv

LEMMA WgStep ==
  ASSUME MaxCount \in Nat, MaxAdds \in Nat, WgIInv, [Wg!Next]_(Wg!vars)
  PROVE  WgIInv'
<1> USE DEF Wg!Procs
<1>0. Wg!TypeOK /\ Wg!NobodyIsStranded /\ WgThreadsOK
  BY DEF WgIInv
<1>1. ASSUME NEW n \in Int, Wg!Allowed(n), wg_counter' = wg_counter + n,
             wg_adds' \in 0 .. MaxAdds, Wg!NotifyIfZero(n)
      PROVE  WgIInv'
  <2>1. wg_counter' \in 0 .. MaxCount
    BY <1>1 DEF Wg!Allowed
  <2>2. CASE wg_counter' = 0
    <3>1. wg_waiters' = <<>> /\ wg_pc' = [p \in Wg!Procs |-> Wg!Woken(p)]
      BY <1>1, <2>2 DEF Wg!NotifyIfZero
    <3>2. \A p \in Wg!Procs : Wg!Woken(p) \in {"idle", "woken", "notified"}
      <4> SUFFICES ASSUME NEW p \in Wg!Procs, p \notin Wg!Range(wg_waiters), wg_pc[p] # "cv"
                 PROVE  wg_pc[p] \in {"idle", "woken", "notified"}
      BY DEF Wg!Woken
    <4>1. wg_pc[p] # "parked"
      BY <1>0 DEF Wg!NobodyIsStranded, WgThreadsOK
    <4> QED BY <1>0, <4>1 DEF Wg!TypeOK
    <3>3. \A p \in Wg!Procs : wg_pc'[p] \in {"idle", "woken", "notified"}
      BY <3>1, <3>2
    <3>4. wg_pc' \in [Wg!Procs -> {"idle", "parked", "cv", "woken", "notified"}]
      BY <3>1, <3>2
    <3>5. Wg!TypeOK'
      BY <1>1, <2>1, <3>1, <3>4 DEF Wg!TypeOK
    <3>6. Wg!NobodyIsStranded'
      BY <3>1, <3>3, WgEmptyQueue DEF Wg!NobodyIsStranded
    <3>7. WgThreadsOK'
      BY <3>3 DEF WgThreadsOK
    <3> QED BY <3>5, <3>6, <3>7 DEF WgIInv
  <2>3. CASE wg_counter' # 0
    <3>1. UNCHANGED <<wg_pc, wg_waiters>>
      BY <1>1, <2>3 DEF Wg!NotifyIfZero
    <3>2. wg_counter' > 0
      BY <2>1, <2>3
    <3> QED BY <1>0, <1>1, <2>1, <3>1, <3>2 DEF Wg!TypeOK, Wg!NobodyIsStranded, WgThreadsOK, WgIInv
  <2> QED BY <2>2, <2>3
<1>2. ASSUME NEW n \in -MaxCount .. MaxCount, Wg!wgAdd(n) PROVE WgIInv'
  <2>1. wg_adds' \in 0 .. MaxAdds
    BY <1>0, <1>2 DEF Wg!wgAdd, Wg!TypeOK
  <2> QED BY <1>1, <1>2, <2>1 DEF Wg!wgAdd
<1>3. CASE Wg!wgDone
  <2>1. Wg!Allowed(-1) /\ wg_counter' = wg_counter + (-1)
    BY <1>0, <1>3 DEF Wg!wgDone, Wg!Allowed, Wg!TypeOK
  <2> QED BY <1>0, <1>1, <1>3, <2>1 DEF Wg!wgDone, Wg!TypeOK
<1>4. ASSUME NEW p \in Wg!Procs, Wg!Return(p) PROVE WgIInv'
  <2>1. wg_pc' = [wg_pc EXCEPT ![p] = "idle"] /\ UNCHANGED <<wg_counter, wg_waiters, wg_adds>>
        /\ wg_pc[p] \notin {"parked", "cv"}
    BY <1>4 DEF Wg!Return
  <2>2. Wg!TypeOK'
    BY <1>0, <2>1 DEF Wg!TypeOK
  <2>3. \A q \in Wg!Procs : wg_pc'[q] \in {"parked", "cv"} <=> wg_pc[q] \in {"parked", "cv"}
    BY <1>0, <2>1 DEF Wg!TypeOK
  <2>4. {q \in Tasks : wg_pc'[q] = "parked"} = {q \in Tasks : wg_pc[q] = "parked"}
    BY <1>0, <2>1 DEF Wg!TypeOK
  <2>5. Wg!NobodyIsStranded'
    BY <1>0, <2>1, <2>3, <2>4 DEF Wg!NobodyIsStranded
  <2>6. WgThreadsOK'
    BY <1>0, <2>1, CallersAssumption DEF WgThreadsOK, Wg!TypeOK
  <2> QED BY <2>2, <2>5, <2>6 DEF WgIInv
<1>5. ASSUME NEW p \in Wg!Procs, Wg!ParkTask(p) PROVE WgIInv'
  <2>1. /\ p \in Tasks /\ wg_pc[p] \in {"idle", "woken"} /\ wg_counter # 0
        /\ wg_waiters' = Append(wg_waiters, p) /\ wg_pc' = [wg_pc EXCEPT ![p] = "parked"]
        /\ UNCHANGED <<wg_counter, wg_adds>>
    BY <1>5 DEF Wg!ParkTask, Wg!MayReturn
  <2>2. Wg!TypeOK'
    BY <1>0, <2>1, WgEnqueued DEF Wg!TypeOK
  <2>3. wg_counter > 0
    BY <1>0, <2>1 DEF Wg!TypeOK
  <2>4. p \notin Wg!Range(wg_waiters)
    BY <1>0, <2>1 DEF Wg!NobodyIsStranded
  <2>5. Wg!IsInjective(wg_waiters') /\ Wg!Range(wg_waiters') = Wg!Range(wg_waiters) \cup {p}
    BY <1>0, <2>1, <2>4, WgEnqueued DEF Wg!NobodyIsStranded, Wg!TypeOK
  <2>6. {q \in Tasks : wg_pc'[q] = "parked"} = {q \in Tasks : wg_pc[q] = "parked"} \cup {p}
    BY <1>0, <2>1 DEF Wg!TypeOK
  <2>7. Wg!NobodyIsStranded'
    BY <1>0, <2>1, <2>3, <2>5, <2>6 DEF Wg!NobodyIsStranded
  <2>8. WgThreadsOK'
    BY <1>0, <2>1, CallersAssumption DEF WgThreadsOK, Wg!TypeOK
  <2> QED BY <2>2, <2>7, <2>8 DEF WgIInv
<1>6. ASSUME NEW p \in Wg!Procs, Wg!WaitThread(p) PROVE WgIInv'
  <2>1. /\ p \in Threads /\ wg_pc[p] \in {"idle", "notified"} /\ wg_counter # 0
        /\ wg_pc' = [wg_pc EXCEPT ![p] = "cv"] /\ UNCHANGED <<wg_counter, wg_waiters, wg_adds>>
    BY <1>6 DEF Wg!WaitThread, Wg!MayReturn
  <2>2. Wg!TypeOK'
    BY <1>0, <2>1 DEF Wg!TypeOK
  <2>3. wg_counter > 0
    BY <1>0, <2>1 DEF Wg!TypeOK
  <2>4. {q \in Tasks : wg_pc'[q] = "parked"} = {q \in Tasks : wg_pc[q] = "parked"}
    BY <1>0, <2>1, CallersAssumption DEF Wg!TypeOK
  <2>5. Wg!NobodyIsStranded'
    BY <1>0, <2>1, <2>3, <2>4 DEF Wg!NobodyIsStranded
  <2>6. WgThreadsOK'
    BY <1>0, <2>1, CallersAssumption DEF WgThreadsOK, Wg!TypeOK
  <2> QED BY <2>2, <2>5, <2>6 DEF WgIInv
<1>7. CASE UNCHANGED Wg!vars
  BY <1>0, <1>7 DEF Wg!vars, Wg!TypeOK, Wg!NobodyIsStranded, WgThreadsOK, WgIInv, Wg!Range, Wg!IsInjective
<1> QED BY <1>2, <1>3, <1>4, <1>5, <1>6, <1>7 DEF Wg!Next

LEMMA WgInvariance ==
  ASSUME MaxCount \in Nat, MaxAdds \in Nat
  PROVE  Wg!Spec => []WgIInv
BY WgInitInv, WgStep, PTL DEF Wg!Spec

\* The counter is neither negative nor past its largest value, and every other
\* variable keeps to its type, whatever wgAdd is called with.
LEMMA WgTypeCorrect ==
  ASSUME MaxCount \in Nat, MaxAdds \in Nat
  PROVE  Wg!Spec => []Wg!TypeOK
<1>1. WgIInv => Wg!TypeOK
  BY DEF WgIInv
<1> QED BY <1>1, WgInvariance, PTL

\* Nobody waits for a counter that is already zero.
LEMMA WgNobodyLeftBehind ==
  ASSUME MaxCount \in Nat, MaxAdds \in Nat
  PROVE  Wg!Spec => []Wg!NobodyIsStranded
<1>1. WgIInv => Wg!NobodyIsStranded
  BY DEF WgIInv
<1> QED BY <1>1, WgInvariance, PTL

-----------------------------------------------------------------------------
(* PoolRun.  EachItemOnce counts the threads that hold an item; PrOnePlace says  *)
(* the same without counting.  That no result is missing needs to know, besides, *)
(* why a thread has ended (PrEndOK) and that the caller gathers after the last   *)
(* join (PrJoinOK, PrResultsOK).                                                  *)

\* The counts are natural, and None is neither an item nor a result.
PrAssumptions ==
  /\ Items \in Nat /\ Workers \in Nat
  /\ None \notin Pr!ItemIds \cup Pr!Results

\* The number of threads started.
PrN == IF Workers < Items THEN Workers ELSE Items

PrHolds(w, i) == pr_pc[w] \in {"call", "panicked"} /\ pr_idx[w] = i
PrHeld(i) == {w \in Pr!PoolWorkers : PrHolds(w, i)}
PrEnded   == {w \in Pr!PoolWorkers : pr_pc[w] = "end"}

PrTyping ==
  /\ pr_next \in Nat \ {0}
  /\ pr_slots \in [Pr!ItemIds -> Pr!Results \cup {None}]
  /\ pr_pc \in [Pr!PoolWorkers -> {"fetch", "call", "end", "panicked"}]
  /\ pr_idx \in [Pr!PoolWorkers -> Pr!ItemIds \cup {None}]
  /\ pr_joined \in 0 .. PrN
  /\ pr_results \in [Pr!ItemIds -> Pr!Results \cup {None}] \cup {None}

\* An item not yet handed out is nowhere; every other has its result and no
\* thread, or one thread and no result.
PrOnePlace ==
  /\ \A w \in Pr!PoolWorkers, i \in Pr!ItemIds : PrHolds(w, i) => i < pr_next /\ pr_slots[i] = None
  /\ \A w, v \in Pr!PoolWorkers, i \in Pr!ItemIds : PrHolds(w, i) /\ PrHolds(v, i) => w = v
  /\ \A i \in Pr!ItemIds : pr_slots[i] # None => i < pr_next /\ pr_slots[i].item = i
  /\ \A i \in Pr!ItemIds : i < pr_next => pr_slots[i] # None \/ \E w \in Pr!PoolWorkers : PrHolds(w, i)

\* A thread at work has an item; it ends when there is none left.
PrEndOK ==
  /\ \A w \in Pr!PoolWorkers : pr_pc[w] \in {"call", "panicked"} => pr_idx[w] \in Pr!ItemIds
  /\ \A w \in Pr!PoolWorkers : pr_pc[w] = "end" => pr_next > Items

PrOvershoot == pr_next <= Items + 1 + Cardinality(PrEnded)

\* The caller has joined threads that were over, and gathers after the last.
PrJoinOK    == \A w \in 1 .. pr_joined : pr_pc[w] \in {"end", "panicked"}
PrResultsOK == pr_results # None => pr_joined = PrN /\ pr_results = pr_slots

PrIInv == PrTyping /\ PrOnePlace /\ PrEndOK /\ PrOvershoot /\ PrJoinOK /\ PrResultsOK

-----------------------------------------------------------------------------
\* The threads are numbered from 1 to N.
LEMMA PrCardinality == \A S : Pr!Cardinality(S) = Cardinality(S)
BY Zenon DEF Pr!Cardinality, Cardinality, Pr!IsFiniteSet, IsFiniteSet

LEMMA PrThreads ==
  ASSUME PrAssumptions
  PROVE  /\ PrN \in Nat /\ Pr!PoolWorkers = 1 .. PrN
         /\ IsFiniteSet(Pr!PoolWorkers) /\ Cardinality(Pr!PoolWorkers) = PrN
         /\ Pr!Cardinality(Pr!PoolWorkers) = PrN
<1>1. PrN \in Nat /\ Pr!PoolWorkers = 1 .. PrN
  BY DEF PrAssumptions, PrN, Pr!PoolWorkers
<1>2. IsFiniteSet(1 .. PrN) /\ Cardinality(1 .. PrN) = PrN
  BY <1>1, FS_Interval
<1>3. Pr!Cardinality(Pr!PoolWorkers) = Cardinality(Pr!PoolWorkers)
  BY PrCardinality
<1> QED BY <1>1, <1>2, <1>3

\* The threads that have ended can be counted, and are no more than there are.
LEMMA PrEndedFacts ==
  ASSUME PrAssumptions
  PROVE  IsFiniteSet(PrEnded) /\ Cardinality(PrEnded) \in 0 .. PrN
<1>1. PrEnded \subseteq Pr!PoolWorkers
  BY DEF PrEnded
<1> QED BY <1>1, PrThreads, FS_Subset, FS_CardinalityType

LEMMA PrInitInv == ASSUME PrAssumptions, Pr!Init PROVE PrIInv
<1>0. PrN \in Nat /\ Pr!PoolWorkers = 1 .. PrN
  BY PrThreads
<1>1. PrTyping
  BY <1>0 DEF Pr!Init, PrTyping
<1>2. PrOnePlace
  BY DEF Pr!Init, PrOnePlace, PrHolds, Pr!ItemIds
<1>3. PrEndOK
  BY DEF Pr!Init, PrEndOK
<1>4. PrOvershoot
  BY PrEndedFacts DEF Pr!Init, PrOvershoot, PrAssumptions
<1>5. PrJoinOK /\ PrResultsOK
  BY DEF Pr!Init, PrJoinOK, PrResultsOK
<1> QED BY <1>1, <1>2, <1>3, <1>4, <1>5 DEF PrIInv

-----------------------------------------------------------------------------
LEMMA PrFetchStep ==
  ASSUME PrAssumptions, PrIInv, NEW w \in Pr!PoolWorkers, Pr!Fetch(w)
  PROVE  PrIInv'
<1>0. /\ PrTyping /\ PrOnePlace /\ PrEndOK /\ PrOvershoot /\ PrJoinOK /\ PrResultsOK
      /\ Items \in Nat /\ None \notin Pr!ItemIds
  BY DEF PrIInv, PrAssumptions
<1>1. /\ pr_pc[w] = "fetch" /\ pr_next' = pr_next + 1 /\ pr_next \in Nat /\ pr_next > 0
      /\ UNCHANGED <<pr_slots, pr_joined, pr_results>>
      /\ pr_next \in Pr!ItemIds <=> pr_next <= Items
      /\ \A i \in Pr!ItemIds : i \in Nat /\ i <= Items
      /\ pr_pc \in [Pr!PoolWorkers -> {"fetch", "call", "end", "panicked"}]
      /\ pr_idx \in [Pr!PoolWorkers -> Pr!ItemIds \cup {None}]
  BY <1>0 DEF Pr!Fetch, PrTyping, Pr!ItemIds
<1>2. PrJoinOK' /\ PrResultsOK'
  <2>1. \A v \in Pr!PoolWorkers : v # w => pr_pc'[v] = pr_pc[v]
    BY <1>1 DEF Pr!Fetch
  <2>2. 1 .. pr_joined \subseteq Pr!PoolWorkers
    BY <1>0, PrThreads DEF PrTyping
  <2> QED BY <1>0, <1>1, <2>1, <2>2 DEF PrJoinOK, PrResultsOK
<1>3. CASE pr_next <= Items
  <2>1. /\ pr_pc' = [pr_pc EXCEPT ![w] = "call"] /\ pr_idx' = [pr_idx EXCEPT ![w] = pr_next]
        /\ pr_next \in Pr!ItemIds
    BY <1>1, <1>3 DEF Pr!Fetch
  <2>2. \A v \in Pr!PoolWorkers, i \in Pr!ItemIds :
          PrHolds(v, i)' <=> IF v = w THEN i = pr_next ELSE PrHolds(v, i)
    BY <1>1, <2>1 DEF PrHolds
  <2>3. \A i \in Pr!ItemIds : i < pr_next' <=> i < pr_next \/ i = pr_next
    BY <1>1
  <2>4. PrTyping'
    BY <1>0, <1>1, <2>1 DEF PrTyping
  <2>5. pr_slots[pr_next] = None /\ \A v \in Pr!PoolWorkers : ~PrHolds(v, pr_next)
    BY <1>0, <1>1, <2>1 DEF PrOnePlace
  <2>6. \A v \in Pr!PoolWorkers, i \in Pr!ItemIds : PrHolds(v, i)' => i < pr_next' /\ pr_slots'[i] = None
    BY <1>0, <1>1, <2>2, <2>3, <2>5 DEF PrOnePlace
  <2>7. \A u, v \in Pr!PoolWorkers, i \in Pr!ItemIds : PrHolds(u, i)' /\ PrHolds(v, i)' => u = v
    BY <1>0, <2>2, <2>5 DEF PrOnePlace
  <2>8. \A i \in Pr!ItemIds : pr_slots'[i] # None => i < pr_next' /\ pr_slots'[i].item = i
    BY <1>0, <1>1, <2>3 DEF PrOnePlace
  <2>9. \A i \in Pr!ItemIds : i < pr_next' => pr_slots'[i] # None \/ \E v \in Pr!PoolWorkers : PrHolds(v, i)'
    <3> SUFFICES ASSUME NEW i \in Pr!ItemIds, i < pr_next', pr_slots[i] = None
                 PROVE  \E v \in Pr!PoolWorkers : PrHolds(v, i)'
      BY <1>1
    <3>1. CASE i = pr_next
      BY <2>2, <3>1
    <3>2. CASE i # pr_next
      <4> PICK v \in Pr!PoolWorkers : PrHolds(v, i)
        BY <1>0, <2>3, <3>2 DEF PrOnePlace
      <4>1. v # w
        BY <1>1 DEF PrHolds
      <4> QED BY <2>2, <4>1
    <3> QED BY <3>1, <3>2
  <2>10. PrOnePlace'
    BY <2>6, <2>7, <2>8, <2>9 DEF PrOnePlace
  <2>11. PrEndOK'
    BY <1>0, <1>1, <2>1 DEF PrEndOK
  <2>12. PrOvershoot'
    <3>1. (Cardinality(PrEnded) \in 0 .. PrN)'
      <4>1. PrEnded' \subseteq Pr!PoolWorkers
        BY DEF PrEnded
      <4> QED BY <4>1, PrThreads, FS_Subset, FS_CardinalityType
    <3> QED BY <1>0, <1>1, <1>3, <3>1, PrThreads DEF PrOvershoot
  <2> QED BY <1>2, <2>4, <2>10, <2>11, <2>12 DEF PrIInv
<1>4. CASE pr_next > Items
  <2>1. pr_pc' = [pr_pc EXCEPT ![w] = "end"] /\ pr_idx' = [pr_idx EXCEPT ![w] = None]
    BY <1>0, <1>1, <1>4 DEF Pr!Fetch
  <2>2. \A v \in Pr!PoolWorkers, i \in Pr!ItemIds : PrHolds(v, i)' <=> PrHolds(v, i)
    BY <1>0, <1>1, <2>1 DEF PrHolds
  <2>3. \A i \in Pr!ItemIds : i < pr_next' /\ i < pr_next
    BY <1>0, <1>1, <1>4
  <2>4. PrTyping'
    BY <1>0, <1>1, <2>1 DEF PrTyping
  <2>5. PrOnePlace'
    BY <1>0, <1>1, <2>2, <2>3, Zenon DEF PrOnePlace
  <2>6. PrEndOK'
    BY <1>0, <1>1, <1>4, <2>1 DEF PrEndOK
  <2>7. PrOvershoot'
    <3>1. PrEnded' = PrEnded \cup {w} /\ w \notin PrEnded
      BY <1>1, <2>1 DEF PrEnded
    <3>2. Cardinality(PrEnded') = Cardinality(PrEnded) + 1
      BY <3>1, PrEndedFacts, FS_AddElement
    <3> QED BY <1>0, <1>1, <3>2, PrEndedFacts, PrThreads DEF PrOvershoot
  <2> QED BY <1>2, <2>4, <2>5, <2>6, <2>7 DEF PrIInv
<1> QED BY <1>0, <1>1, <1>3, <1>4

LEMMA PrCallStep ==
  ASSUME PrAssumptions, PrIInv, NEW w \in Pr!PoolWorkers, NEW kind \in {"value", "error"}, Pr!Call(w, kind)
  PROVE  PrIInv'
<1>0. /\ PrTyping /\ PrOnePlace /\ PrEndOK /\ PrOvershoot /\ PrJoinOK /\ PrResultsOK
      /\ None \notin Pr!ItemIds /\ None \notin Pr!Results
  BY DEF PrIInv, PrAssumptions
<1> DEFINE item == pr_idx[w]
           res == [item |-> item, kind |-> kind]
<1>1. /\ pr_pc[w] = "call" /\ pr_slots' = [pr_slots EXCEPT ![item] = res]
      /\ pr_pc' = [pr_pc EXCEPT ![w] = "fetch"]
      /\ UNCHANGED <<pr_next, pr_idx, pr_joined, pr_results>>
      /\ pr_pc \in [Pr!PoolWorkers -> {"fetch", "call", "end", "panicked"}]
      /\ pr_slots \in [Pr!ItemIds -> Pr!Results \cup {None}]
  BY <1>0 DEF Pr!Call, Pr!After, PrTyping
<1>2. item \in Pr!ItemIds /\ PrHolds(w, item)
  BY <1>0, <1>1 DEF PrEndOK, PrHolds
<1>3. res \in Pr!Results /\ res.item = item /\ res # None
  BY <1>0, <1>2 DEF Pr!Results
<1> HIDE DEF res
<1>4. \A v \in Pr!PoolWorkers, i \in Pr!ItemIds : PrHolds(v, i)' <=> PrHolds(v, i) /\ v # w
  BY <1>1 DEF PrHolds
<1>5. \A i \in Pr!ItemIds : pr_slots'[i] = IF i = item THEN res ELSE pr_slots[i]
  BY <1>1
<1>6. item < pr_next /\ pr_slots[item] = None /\ \A v \in Pr!PoolWorkers : PrHolds(v, item) => v = w
  BY <1>0, <1>2 DEF PrOnePlace
<1>7. \A i \in Pr!ItemIds : i # item => ~PrHolds(w, i)
  BY DEF PrHolds
<1> HIDE DEF item
<1>8. PrTyping'
  BY <1>0, <1>1, <1>2, <1>3 DEF PrTyping
<1>9. PrOnePlace'
  <2>1. \A v \in Pr!PoolWorkers, i \in Pr!ItemIds : PrHolds(v, i)' => i < pr_next' /\ pr_slots'[i] = None
    BY <1>0, <1>1, <1>4, <1>5, <1>6 DEF PrOnePlace
  <2>2. \A u, v \in Pr!PoolWorkers, i \in Pr!ItemIds : PrHolds(u, i)' /\ PrHolds(v, i)' => u = v
    BY <1>0, <1>4 DEF PrOnePlace
  <2>3. \A i \in Pr!ItemIds : pr_slots'[i] # None => i < pr_next' /\ pr_slots'[i].item = i
    BY <1>0, <1>1, <1>3, <1>5, <1>6 DEF PrOnePlace
  <2>4. \A i \in Pr!ItemIds : i < pr_next' => pr_slots'[i] # None \/ \E v \in Pr!PoolWorkers : PrHolds(v, i)'
    BY <1>0, <1>1, <1>3, <1>4, <1>5, <1>7 DEF PrOnePlace
  <2> QED BY <2>1, <2>2, <2>3, <2>4 DEF PrOnePlace
<1>10. PrEndOK'
  BY <1>0, <1>1 DEF PrEndOK
<1>11. PrOvershoot'
  <2>1. PrEnded' = PrEnded
    BY <1>1 DEF PrEnded
  <2> QED BY <1>0, <1>1, <2>1 DEF PrOvershoot
<1>12. w \notin 1 .. pr_joined
  BY <1>0, <1>1 DEF PrJoinOK
<1>13. PrJoinOK'
  <2>1. 1 .. pr_joined \subseteq Pr!PoolWorkers
    BY <1>0, PrThreads DEF PrTyping
  <2> QED BY <1>0, <1>1, <1>12, <2>1 DEF PrJoinOK
<1>14. PrResultsOK'
  <2>1. pr_joined # PrN
    BY <1>12, PrThreads
  <2> QED BY <1>0, <1>1, <2>1 DEF PrResultsOK
<1> QED BY <1>8, <1>9, <1>10, <1>11, <1>13, <1>14 DEF PrIInv

LEMMA PrPanicStep ==
  ASSUME PrAssumptions, PrIInv, NEW w \in Pr!PoolWorkers, Pr!CallPanics(w)
  PROVE  PrIInv'
<1>0. PrTyping /\ PrOnePlace /\ PrEndOK /\ PrOvershoot /\ PrJoinOK /\ PrResultsOK
  BY DEF PrIInv
<1>1. /\ pr_pc[w] = "call" /\ pr_pc' = [pr_pc EXCEPT ![w] = "panicked"]
      /\ UNCHANGED <<pr_next, pr_slots, pr_idx, pr_joined, pr_results>>
      /\ pr_pc \in [Pr!PoolWorkers -> {"fetch", "call", "end", "panicked"}]
  BY <1>0 DEF Pr!CallPanics, PrTyping
<1>2. \A v \in Pr!PoolWorkers, i \in Pr!ItemIds : PrHolds(v, i)' <=> PrHolds(v, i)
  BY <1>1 DEF PrHolds
<1>3. PrTyping'
  BY <1>0, <1>1 DEF PrTyping
<1>4. PrOnePlace'
  BY <1>0, <1>1, <1>2, Zenon DEF PrOnePlace
<1>5. PrEndOK'
  BY <1>0, <1>1 DEF PrEndOK
<1>6. PrOvershoot'
  <2>1. PrEnded' = PrEnded
    BY <1>1 DEF PrEnded
  <2> QED BY <1>0, <1>1, <2>1 DEF PrOvershoot
<1>7. PrJoinOK'
  <2>1. 1 .. pr_joined \subseteq Pr!PoolWorkers
    BY <1>0, PrThreads DEF PrTyping
  <2> QED BY <1>0, <1>1, <2>1 DEF PrJoinOK
<1>8. PrResultsOK'
  BY <1>0, <1>1 DEF PrResultsOK
<1> QED BY <1>3, <1>4, <1>5, <1>6, <1>7, <1>8 DEF PrIInv

LEMMA PrCallerStep ==
  ASSUME PrAssumptions, PrIInv, Pr!Join \/ Pr!Gather
  PROVE  PrIInv'
<1>0. PrTyping /\ PrOnePlace /\ PrEndOK /\ PrOvershoot /\ PrJoinOK /\ PrResultsOK
  BY DEF PrIInv
<1>1. /\ UNCHANGED <<pr_next, pr_slots, pr_pc, pr_idx>>
      /\ \/ /\ pr_joined < PrN /\ pr_pc[pr_joined + 1] \in {"end", "panicked"}
            /\ pr_joined' = pr_joined + 1 /\ pr_results' = pr_results
         \/ pr_joined = PrN /\ pr_results = None /\ pr_results' = pr_slots /\ pr_joined' = pr_joined
  BY PrThreads DEF Pr!Join, Pr!Gather
<1>2. PrN \in Nat
  BY PrThreads
<1>3. PrTyping'
  BY <1>0, <1>1, <1>2 DEF PrTyping
<1>4. PrOnePlace' /\ PrEndOK' /\ PrOvershoot'
  BY <1>0, <1>1 DEF PrOnePlace, PrHolds, PrEndOK, PrOvershoot, PrEnded
<1>5. PrJoinOK'
  BY <1>0, <1>1, <1>2 DEF PrJoinOK, PrTyping
<1>6. PrResultsOK'
  BY <1>0, <1>1, <1>2 DEF PrResultsOK, PrTyping
<1> QED BY <1>3, <1>4, <1>5, <1>6 DEF PrIInv

LEMMA PrInvariance == ASSUME PrAssumptions PROVE Pr!Spec => []PrIInv
<1>1. ASSUME PrIInv, [Pr!Next]_(Pr!vars) PROVE PrIInv'
  <2>1. CASE UNCHANGED Pr!vars
    BY <1>1, <2>1 DEF Pr!vars, PrIInv, PrTyping, PrOnePlace, PrHolds, PrEndOK, PrOvershoot, PrEnded,
                      PrJoinOK, PrResultsOK
  <2> QED BY <1>1, <2>1, PrFetchStep, PrCallStep, PrPanicStep, PrCallerStep DEF Pr!Next, Pr!Step
<1> QED BY <1>1, PrInitInv, PTL DEF Pr!Spec

-----------------------------------------------------------------------------
\* Every variable keeps to its type, and the shared index passes the number of
\* items by one per thread at most.
LEMMA PrTypeCorrect == ASSUME PrAssumptions PROVE Pr!Spec => []Pr!TypeOK
<1>1. PrIInv => Pr!TypeOK
  <2> SUFFICES ASSUME PrIInv PROVE Pr!TypeOK
    OBVIOUS
  <2>1. pr_next \in 1 .. Items + 1 + Cardinality(Pr!PoolWorkers)
    BY PrThreads, PrEndedFacts DEF PrIInv, PrTyping, PrOvershoot, PrAssumptions
  <2> QED BY <2>1, PrThreads DEF PrIInv, PrTyping, Pr!TypeOK
<1> QED BY <1>1, PrInvariance, PTL

\* No item is worked on by two threads, and none is skipped.
LEMMA PrWorkedOnOnce == ASSUME PrAssumptions PROVE Pr!Spec => []Pr!EachItemOnce
<1>1. PrIInv => Pr!EachItemOnce
  <2> SUFFICES ASSUME PrIInv, NEW i \in Pr!ItemIds
               PROVE  Cardinality(PrHeld(i)) + (IF pr_slots[i] = None THEN 0 ELSE 1)
                        = (IF i < pr_next THEN 1 ELSE 0)
    <3>1. \A i \in Pr!ItemIds :
            Pr!Cardinality({w \in Pr!PoolWorkers : pr_pc[w] \in {"call", "panicked"} /\ pr_idx[w] = i})
              = Cardinality(PrHeld(i))
      BY PrCardinality DEF PrHeld, PrHolds
    <3> QED BY <3>1 DEF Pr!EachItemOnce
  <2>0. PrOnePlace
    BY DEF PrIInv
  <2>1. CASE PrHeld(i) = {}
    <3>1. Cardinality(PrHeld(i)) = 0
      BY <2>1, FS_EmptySet
    <3>2. pr_slots[i] # None <=> i < pr_next
      BY <2>0, <2>1 DEF PrOnePlace, PrHeld
    <3> QED BY <3>1, <3>2
  <2>2. CASE PrHeld(i) # {}
    <3> PICK w \in PrHeld(i) : TRUE
      BY <2>2
    <3>1. PrHeld(i) = {w}
      BY <2>0 DEF PrOnePlace, PrHeld
    <3>2. Cardinality(PrHeld(i)) = 1
      BY <3>1, FS_Singleton
    <3>3. i < pr_next /\ pr_slots[i] = None
      BY <2>0 DEF PrOnePlace, PrHeld
    <3> QED BY <3>2, <3>3
  <2> QED BY <2>1, <2>2
<1> QED BY <1>1, PrInvariance, PTL

\* The result of item i is at index i of what poolRun returns, unless the call for
\* i has panicked or no thread has survived.
LEMMA PrResultsInOrder == ASSUME PrAssumptions PROVE Pr!Spec => []Pr!AllInOrder
<1>1. PrIInv => Pr!AllInOrder
  <2> SUFFICES ASSUME PrIInv, pr_results # None, NEW i \in Pr!ItemIds
               PROVE  /\ pr_results[i] # None => pr_results[i].item = i
                      /\ pr_results[i] = None =>
                           i \in Pr!Panicked \/ \A w \in Pr!PoolWorkers : pr_pc[w] = "panicked"
    BY DEF Pr!AllInOrder
  <2>1. pr_results = pr_slots /\ \A w \in Pr!PoolWorkers : pr_pc[w] \in {"end", "panicked"}
    BY PrThreads DEF PrIInv, PrResultsOK, PrJoinOK
  <2>2. ASSUME pr_slots[i] = None, NEW w \in Pr!PoolWorkers, pr_pc[w] # "panicked"
        PROVE  i \in Pr!Panicked
    <3>1. pr_next > Items
      BY <2>1, <2>2 DEF PrIInv, PrEndOK
    <3>2. i < pr_next
      BY <3>1 DEF PrIInv, PrTyping, Pr!ItemIds, PrAssumptions
    <3>3. PICK v \in Pr!PoolWorkers : PrHolds(v, i)
      BY <2>2, <3>2 DEF PrIInv, PrOnePlace
    <3> QED BY <2>1, <3>3 DEF PrHolds, Pr!Panicked
  <2> QED BY <2>1, <2>2 DEF PrIInv, PrOnePlace
<1> QED BY <1>1, PrInvariance, PTL

-----------------------------------------------------------------------------
(* Once: the callback is never run by two callers at once and completes once,    *)
(* whoever returns has its result, and nobody sleeps with no wake-up to come.    *)
(* A wake-up overwrites the place of the task it is for.  If that task were not  *)
(* asleep, waking it could take the executor out of its callback; hence the      *)
(* invariant knows that the tasks in `waiters` and in `waking` are parked and    *)
(* that each is there once (OnQueueOK, OnWakingOK).                              *)

OnWaking(p)  == on_pc[p] \in {"waking f", "waking p"}
OnLeaving(p) == on_pc[p] \in {"finished", "panicking"}

\* Exactly the executor is in the callback.
OnExecOK ==
  /\ \A p \in On!Procs : on_pc[p] \in On!Callback => on_phase = 1 /\ on_executor = p
  /\ on_phase = 1 => on_executor \in On!Procs /\ on_pc[on_executor] \in On!Callback

\* The first result stays, and whoever is past the call has it.
OnPast(p)  == on_pc[p] \in {"finished", "waking f", "returned"}
OnResultOK ==
  /\ on_completed = (IF on_phase = 2 THEN 1 ELSE 0)
  /\ \A p \in On!Procs : OnPast(p) => on_phase = 2 /\ on_value[p] = on_result

OnQueueOK ==
  /\ \A i \in DOMAIN on_waiters : on_pc[on_waiters[i]] = "parked"
  /\ \A i, j \in DOMAIN on_waiters : on_waiters[i] = on_waiters[j] => i = j

\* Who wakes has a list of parked tasks, each on one list and there once, and not
\* in the queue any more.
OnWakersOnly == \A p \in On!Procs : on_waking[p] # <<>> => OnWaking(p)
OnAsleep     == \A p \in On!Procs : \A i \in DOMAIN on_waking[p] : on_pc[on_waking[p][i]] = "parked"
OnceEach   == \A p \in On!Procs : \A i, j \in DOMAIN on_waking[p] :
                on_waking[p][i] = on_waking[p][j] => i = j
OneList    == \A p, q \in On!Procs : \A i \in DOMAIN on_waking[p], j \in DOMAIN on_waking[q] :
                on_waking[p][i] = on_waking[q][j] => p = q
OnDequeued   == \A p \in On!Procs : \A i \in DOMAIN on_waking[p], j \in DOMAIN on_waiters :
                on_waking[p][i] # on_waiters[j]
OnWakingOK   == OnWakersOnly /\ OnAsleep /\ OnceEach /\ OneList /\ OnDequeued

OnQueued(t)     == \E i \in DOMAIN on_waiters : on_waiters[i] = t
OnBeingWoken(t) == \E p \in On!Procs : \E i \in DOMAIN on_waking[p] : on_waking[p][i] = t

\* A parked task is queued or about to be woken; the queue and the threads on cv
\* wait for a callback that runs or for a caller that has still to wake them.
OnParkedKnown == \A t \in Tasks : on_pc[t] = "parked" => OnQueued(t) \/ OnBeingWoken(t)
OnQueueServed == on_waiters # <<>> => on_phase = 1 \/ \E p \in On!Procs : OnLeaving(p)
OnCvServed    == (\E p \in Threads : on_pc[p] = "cv") =>
                 on_phase = 1 \/ \E p \in On!Procs : OnLeaving(p) \/ OnWaking(p)
OnServedOK    == OnParkedKnown /\ OnQueueServed /\ OnCvServed

OnIInv == On!TypeOK /\ OnExecOK /\ OnResultOK /\ OnQueueOK /\ OnWakingOK /\ OnServedOK

-----------------------------------------------------------------------------
LEMMA OnCallerFacts ==
  None \notin On!Procs /\ Tasks \subseteq On!Procs /\ Threads \subseteq On!Procs
BY CallersAssumption DEF On!Procs

\* The head of a queue of tasks without repetitions is not in its tail.
LEMMA OnDequeue ==
  ASSUME NEW s \in Seq(Tasks), s # <<>>,
         \A i, j \in DOMAIN s : s[i] = s[j] => i = j
  PROVE  /\ Head(s) \in Tasks /\ Head(s) = s[1] /\ 1 \in DOMAIN s
         /\ Tail(s) \in Seq(Tasks)
         /\ \A i \in DOMAIN Tail(s) : /\ i + 1 \in DOMAIN s
                                      /\ Tail(s)[i] = s[i + 1]
                                      /\ Tail(s)[i] # Head(s)
         /\ \A i, j \in DOMAIN Tail(s) : Tail(s)[i] = Tail(s)[j] => i = j
         /\ \A i \in DOMAIN s : i = 1 \/ (i - 1 \in DOMAIN Tail(s) /\ Tail(s)[i - 1] = s[i])
<1>1. /\ Head(s) \in Tasks /\ Head(s) = s[1] /\ 1 \in DOMAIN s
      /\ Tail(s) \in Seq(Tasks)
      /\ \A i \in DOMAIN Tail(s) : i \in Nat /\ i + 1 \in DOMAIN s /\ Tail(s)[i] = s[i + 1]
  OBVIOUS
<1>2. \A i \in DOMAIN Tail(s) : Tail(s)[i] # Head(s)
  <2> SUFFICES ASSUME NEW i \in DOMAIN Tail(s), s[i + 1] = s[1]
               PROVE  FALSE
    BY <1>1
  <2> i + 1 = 1 BY <1>1
  <2> QED BY <1>1, SMT
<1>3. ASSUME NEW i \in DOMAIN Tail(s), NEW j \in DOMAIN Tail(s), Tail(s)[i] = Tail(s)[j]
      PROVE  i = j
  <2> i + 1 = j + 1 BY <1>1, <1>3
  <2> QED BY <1>1
<1>4. ASSUME NEW i \in DOMAIN s, i # 1
      PROVE  i - 1 \in DOMAIN Tail(s) /\ Tail(s)[i - 1] = s[i]
  BY <1>4
<1> QED BY <1>1, <1>2, <1>3, <1>4

\* A new entry at the tail of such a queue.
LEMMA OnEnqueued ==
  ASSUME NEW s \in Seq(Tasks), NEW t \in Tasks,
         \A i, j \in DOMAIN s : s[i] = s[j] => i = j,
         \A i \in DOMAIN s : s[i] # t
  PROVE  /\ Append(s, t) \in Seq(Tasks) /\ Append(s, t) # <<>>
         /\ \A i \in DOMAIN Append(s, t) :
              \/ i \in DOMAIN s /\ Append(s, t)[i] = s[i]
              \/ Append(s, t)[i] = t
         /\ \A i \in DOMAIN s : i \in DOMAIN Append(s, t) /\ Append(s, t)[i] = s[i]
         /\ \E i \in DOMAIN Append(s, t) : Append(s, t)[i] = t
         /\ \A i, j \in DOMAIN Append(s, t) : Append(s, t)[i] = Append(s, t)[j] => i = j
<1>1. /\ Append(s, t) \in Seq(Tasks) /\ Append(s, t) # <<>>
      /\ DOMAIN Append(s, t) = DOMAIN s \cup {Len(s) + 1}
      /\ \A i \in DOMAIN s : Append(s, t)[i] = s[i]
      /\ Append(s, t)[Len(s) + 1] = t
  OBVIOUS
<1> QED BY <1>1, Zenon

LEMMA OnEmptyQueue == \A i : i \notin DOMAIN <<>>
OBVIOUS

\* The two ways of leaving and what follows each.
LEMMA OnAfterIs ==
  DOMAIN On!After = {"finished", "panicking"}
  /\ On!After["finished"] = "waking f" /\ On!After["panicking"] = "waking p"
BY DEF On!After

LEMMA OnInitInv == On!Init => OnIInv
<1> SUFFICES ASSUME On!Init PROVE OnIInv
  OBVIOUS
<1> USE OnCallerFacts DEF On!Init
<1>1. On!TypeOK
  BY DEF On!TypeOK, On!Pcs
<1>2. OnExecOK /\ OnResultOK
  BY DEF OnExecOK, OnResultOK, On!Callback, OnPast
<1>3. OnQueueOK /\ OnWakingOK
  BY OnEmptyQueue, Zenon DEF OnQueueOK, OnWakingOK, OnWakersOnly, OnAsleep, OnceEach, OneList, OnDequeued
<1>4. OnServedOK
  BY DEF OnServedOK, OnParkedKnown, OnQueueServed, OnCvServed
<1> QED BY <1>1, <1>2, <1>3, <1>4 DEF OnIInv

\* What a wake-up does: the first of p's list is parked and leaves every list.
LEMMA OnWakeFacts ==
  ASSUME OnIInv, NEW p \in On!Procs, On!WakeNext(p)
  PROVE  /\ OnWaking(p) /\ on_waking[p] # <<>> /\ on_waking[p] \in Seq(Tasks)
         /\ Head(on_waking[p]) \in Tasks /\ Head(on_waking[p]) # p /\ on_pc[Head(on_waking[p])] = "parked"
         /\ on_waking' = [on_waking EXCEPT ![p] = Tail(on_waking[p])]
         /\ on_pc' = [on_pc EXCEPT ![Head(on_waking[p])] = "woken"]
         /\ UNCHANGED <<on_phase, on_executor, on_result, on_waiters, on_value, on_completed>>
         /\ \A q \in On!Procs : \A i \in DOMAIN on_waking'[q] :
              /\ on_waking'[q][i] # Head(on_waking[p])
              /\ \E j \in DOMAIN on_waking[q] : on_waking'[q][i] = on_waking[q][j]
         /\ \A i \in DOMAIN on_waiters : on_waiters[i] # Head(on_waking[p])
<1>1. /\ OnWaking(p) /\ on_waking[p] # <<>> /\ on_waking[p] \in Seq(Tasks)
      /\ on_waking' = [on_waking EXCEPT ![p] = Tail(on_waking[p])]
      /\ on_pc' = [on_pc EXCEPT ![Head(on_waking[p])] = "woken"]
      /\ UNCHANGED <<on_phase, on_executor, on_result, on_waiters, on_value, on_completed>>
      /\ on_waking \in [On!Procs -> Seq(Tasks)]
      /\ \A i, j \in DOMAIN on_waking[p] : on_waking[p][i] = on_waking[p][j] => i = j
  BY DEF On!WakeNext, OnWaking, OnIInv, On!TypeOK, OnWakingOK, OnWakersOnly, OnAsleep, OnceEach, OneList, OnDequeued
<1> DEFINE h == Head(on_waking[p])
<1>2. /\ h \in Tasks /\ h = on_waking[p][1] /\ 1 \in DOMAIN on_waking[p]
      /\ \A i \in DOMAIN Tail(on_waking[p]) : /\ i + 1 \in DOMAIN on_waking[p]
                                              /\ Tail(on_waking[p])[i] = on_waking[p][i + 1]
                                              /\ Tail(on_waking[p])[i] # h
  BY <1>1, OnDequeue
<1>3. on_pc[h] = "parked"
  BY <1>2 DEF OnIInv, OnWakingOK, OnWakersOnly, OnAsleep, OnceEach, OneList, OnDequeued
<1>4. h # p
  BY <1>1, <1>3 DEF OnWaking
<1> HIDE DEF h
<1>5. ASSUME NEW q \in On!Procs, NEW i \in DOMAIN on_waking'[q]
      PROVE  on_waking'[q][i] # h /\ \E j \in DOMAIN on_waking[q] : on_waking'[q][i] = on_waking[q][j]
  <2>1. CASE q = p
    BY <1>1, <1>2, <2>1
  <2>2. CASE q # p
    <3>1. on_waking'[q] = on_waking[q]
      BY <1>1, <2>2
    <3>2. on_waking[q][i] # on_waking[p][1]
      BY <1>2, <1>5, <2>2, <3>1 DEF OnIInv, OnWakingOK, OnWakersOnly, OnAsleep, OnceEach, OneList, OnDequeued
    <3> QED BY <1>2, <1>5, <3>1, <3>2
  <2> QED BY <2>1, <2>2
<1>6. \A i \in DOMAIN on_waiters : on_waiters[i] # h
  BY <1>2 DEF OnIInv, OnWakingOK, OnWakersOnly, OnAsleep, OnceEach, OneList, OnDequeued
<1> QED BY <1>1, <1>2, <1>3, <1>4, <1>5, <1>6 DEF h

-----------------------------------------------------------------------------
(* Each conjunct of the invariant over all steps *)

LEMMA OnPcStep == OnIInv /\ [On!Next]_(On!vars) => on_pc' \in [On!Procs -> On!Pcs]
<1> SUFFICES ASSUME OnIInv, [On!Next]_(On!vars) PROVE on_pc' \in [On!Procs -> On!Pcs]
  OBVIOUS
<1>0. /\ on_pc \in [On!Procs -> On!Pcs] /\ Tasks \subseteq On!Procs
      /\ {"idle", "parked", "cv", "woken", "notified", "finished", "panicking",
          "waking f", "waking p", "returned", "gone", "callback", "refused"} \subseteq On!Pcs
  BY OnCallerFacts DEF OnIInv, On!TypeOK, On!Pcs, On!Callback
<1>1. ASSUME NEW p \in On!Procs, NEW x \in On!Pcs, on_pc' = [on_pc EXCEPT ![p] = x]
      PROVE  on_pc' \in [On!Procs -> On!Pcs]
  BY <1>0, <1>1
<1>2. CASE UNCHANGED On!vars
  BY <1>0, <1>2 DEF On!vars
<1>3. ASSUME NEW p \in On!Procs, On!Start(p) \/ On!ParkTask(p) \/ On!WaitThread(p) \/ On!Recurse(p)
      PROVE  on_pc' \in [On!Procs -> On!Pcs]
  BY <1>0, <1>1, <1>3, Zenon DEF On!Start, On!ParkTask, On!WaitThread, On!Recurse
<1>4. ASSUME NEW p \in On!Procs, On!Panic(p) \/ On!ReturnFirst(p) \/ On!CallAgain(p)
                              \/ \E res \in On!Results : On!Finish(p, res)
      PROVE  on_pc' \in [On!Procs -> On!Pcs]
  BY <1>0, <1>1, <1>4, Zenon DEF On!Panic, On!ReturnFirst, On!CallAgain, On!Finish
<1>5. ASSUME NEW p \in On!Procs, On!TakeWaiters(p) PROVE on_pc' \in [On!Procs -> On!Pcs]
  <2>1. On!After[on_pc[p]] \in On!Pcs
    BY <1>0, <1>5, OnAfterIs DEF On!TakeWaiters
  <2> QED BY <1>1, <1>5, <2>1 DEF On!TakeWaiters
<1>6. ASSUME NEW p \in On!Procs, On!WakeNext(p) PROVE on_pc' \in [On!Procs -> On!Pcs]
  <2>1. Head(on_waking[p]) \in On!Procs /\ on_pc' = [on_pc EXCEPT ![Head(on_waking[p])] = "woken"]
    BY <1>0, <1>6, OnWakeFacts
  <2> QED BY <1>0, <1>1, <2>1
<1>7. ASSUME NEW p \in On!Procs, On!NotifyAll(p) PROVE on_pc' \in [On!Procs -> On!Pcs]
  BY <1>0, <1>7 DEF On!NotifyAll, On!Notified
<1> QED BY <1>2, <1>3, <1>4, <1>5, <1>6, <1>7 DEF On!Next, On!Step

LEMMA OnTypeStep == OnIInv /\ [On!Next]_(On!vars) => On!TypeOK'
<1> SUFFICES ASSUME OnIInv, [On!Next]_(On!vars) PROVE On!TypeOK'
  OBVIOUS
<1> DEFINE State == /\ on_phase \in 0 .. 2
                    /\ on_executor \in On!Procs \cup {None}
                    /\ on_result \in On!Results \cup {None}
                    /\ on_phase = 2 => on_result \in On!Results
           Queue == /\ on_waiters \in Seq(Tasks)
                    /\ on_waking \in [On!Procs -> Seq(Tasks)]
           Calls == /\ on_value \in [On!Procs -> On!Results \cup {None}]
                    /\ on_completed \in Nat
<1>0. State /\ Queue /\ Calls
  BY DEF OnIInv, On!TypeOK
<1>1. CASE UNCHANGED On!vars
  BY <1>1 DEF On!vars, OnIInv, On!TypeOK
<1>2. ASSUME NEW p \in On!Procs, On!WaitThread(p) \/ On!Recurse(p) \/ On!CallAgain(p) \/ On!NotifyAll(p)
      PROVE  State' /\ Queue' /\ Calls'
  <2>1. UNCHANGED <<on_phase, on_executor, on_result, on_waiters, on_waking, on_value, on_completed>>
    BY <1>2 DEF On!WaitThread, On!Recurse, On!CallAgain, On!NotifyAll
  <2> QED BY <1>0, <2>1
<1>3. ASSUME NEW p \in On!Procs, On!Start(p) \/ On!Panic(p) PROVE State' /\ Queue' /\ Calls'
  <2>1. /\ on_phase' \in {0, 1} /\ on_executor' \in {p, None}
        /\ UNCHANGED <<on_result, on_waiters, on_waking, on_value, on_completed>>
    BY <1>3 DEF On!Start, On!Claim, On!Panic
  <2> QED BY <1>0, <2>1
<1>4. ASSUME NEW p \in On!Procs, NEW res \in On!Results, On!Finish(p, res)
      PROVE  State' /\ Queue' /\ Calls'
  <2>1. /\ on_phase' = 2 /\ on_executor' = None /\ on_result' = res /\ on_value' = [on_value EXCEPT ![p] = res]
        /\ on_completed' = on_completed + 1 /\ UNCHANGED <<on_waiters, on_waking>>
    BY <1>4 DEF On!Finish
  <2> QED BY <1>0, <2>1
<1>5. ASSUME NEW p \in On!Procs, On!ParkTask(p) PROVE State' /\ Queue' /\ Calls'
  <2>1. /\ p \in Tasks /\ on_waiters' = Append(on_waiters, p)
        /\ UNCHANGED <<on_phase, on_executor, on_result, on_waking, on_value, on_completed>>
    BY <1>5 DEF On!ParkTask
  <2> QED BY <1>0, <2>1
<1>6. ASSUME NEW p \in On!Procs, On!TakeWaiters(p) PROVE State' /\ Queue' /\ Calls'
  <2>1. /\ on_waiters' = <<>> /\ on_waking' = [on_waking EXCEPT ![p] = on_waiters]
        /\ UNCHANGED <<on_phase, on_executor, on_result, on_value, on_completed>>
    BY <1>6 DEF On!TakeWaiters
  <2> QED BY <1>0, <2>1
<1>7. ASSUME NEW p \in On!Procs, On!WakeNext(p) PROVE State' /\ Queue' /\ Calls'
  <2>1. /\ on_waking[p] # <<>> /\ on_waking[p] \in Seq(Tasks)
        /\ on_waking' = [on_waking EXCEPT ![p] = Tail(on_waking[p])]
        /\ UNCHANGED <<on_phase, on_executor, on_result, on_waiters, on_value, on_completed>>
    BY <1>7, OnWakeFacts
  <2>2. Tail(on_waking[p]) \in Seq(Tasks)
    BY <2>1
  <2> QED BY <1>0, <2>1, <2>2
<1>8. ASSUME NEW p \in On!Procs, On!ReturnFirst(p) PROVE State' /\ Queue' /\ Calls'
  <2>1. /\ on_value' = [on_value EXCEPT ![p] = on_result]
        /\ UNCHANGED <<on_phase, on_executor, on_result, on_waiters, on_waking, on_completed>>
    BY <1>8 DEF On!ReturnFirst, On!FirstResult
  <2> QED BY <1>0, <2>1
<1>9. State' /\ Queue' /\ Calls' => On!TypeOK'
  BY OnPcStep DEF On!TypeOK
<1> QED BY <1>1, <1>2, <1>3, <1>4, <1>5, <1>6, <1>7, <1>8, <1>9 DEF On!Next, On!Step

LEMMA OnExecStep == OnIInv /\ [On!Next]_(On!vars) => OnExecOK'
<1> SUFFICES ASSUME OnIInv, [On!Next]_(On!vars) PROVE OnExecOK'
  OBVIOUS
<1> USE OnCallerFacts DEF OnExecOK, On!Callback
<1>0. OnExecOK /\ on_pc \in [On!Procs -> On!Pcs]
  BY DEF OnIInv, On!TypeOK
<1>1. CASE UNCHANGED On!vars
  BY <1>0, <1>1 DEF On!vars
<1>2. ASSUME NEW p \in On!Procs, On!Start(p) PROVE OnExecOK'
  BY <1>0, <1>2 DEF On!Start, On!Claim
<1>3. ASSUME NEW p \in On!Procs, On!Recurse(p) PROVE OnExecOK'
  BY <1>0, <1>3 DEF On!Recurse
<1>4. ASSUME NEW p \in On!Procs, NEW res \in On!Results, On!Finish(p, res) PROVE OnExecOK'
  BY <1>0, <1>4 DEF On!Finish
<1>5. ASSUME NEW p \in On!Procs, On!Panic(p) PROVE OnExecOK'
  BY <1>0, <1>5 DEF On!Panic
<1>6. ASSUME UNCHANGED <<on_phase, on_executor>>,
             \A q \in On!Procs : on_pc'[q] \in On!Callback <=> on_pc[q] \in On!Callback
      PROVE  OnExecOK'
  BY <1>0, <1>6, Zenon
<1>7. ASSUME NEW p \in On!Procs, On!ParkTask(p) \/ On!WaitThread(p) \/ On!CallAgain(p) \/ On!ReturnFirst(p)
      PROVE  OnExecOK'
  <2>1. /\ UNCHANGED <<on_phase, on_executor>> /\ on_pc[p] \notin On!Callback
        /\ \E x \in {"parked", "cv", "idle", "returned"} : on_pc' = [on_pc EXCEPT ![p] = x]
    BY <1>7 DEF On!ParkTask, On!WaitThread, On!CallAgain, On!ReturnFirst, On!Calling
  <2> QED BY <1>0, <1>6, <2>1
<1>8. ASSUME NEW p \in On!Procs, On!TakeWaiters(p) PROVE OnExecOK'
  <2>1. /\ UNCHANGED <<on_phase, on_executor>> /\ on_pc[p] \notin On!Callback
        /\ \E x \in {"waking f", "waking p"} : on_pc' = [on_pc EXCEPT ![p] = x]
    BY <1>8, OnAfterIs DEF On!TakeWaiters
  <2> QED BY <1>0, <1>6, <2>1
<1>9. ASSUME NEW p \in On!Procs, On!WakeNext(p) PROVE OnExecOK'
  <2>1. /\ UNCHANGED <<on_phase, on_executor>>
        /\ \E h \in Tasks : on_pc[h] = "parked" /\ on_pc' = [on_pc EXCEPT ![h] = "woken"]
    BY <1>9, OnWakeFacts
  <2> QED BY <1>0, <1>6, <2>1
<1>10. ASSUME NEW p \in On!Procs, On!NotifyAll(p) PROVE OnExecOK'
  <2>1. UNCHANGED <<on_phase, on_executor>>
    BY <1>10 DEF On!NotifyAll
  <2>2. \A q \in On!Procs : on_pc'[q] \in On!Callback <=> on_pc[q] \in On!Callback
    BY <1>10 DEF On!NotifyAll, On!Notified
  <2> QED BY <1>6, <2>1, <2>2
<1> QED BY <1>1, <1>2, <1>3, <1>4, <1>5, <1>7, <1>8, <1>9, <1>10 DEF On!Next, On!Step

LEMMA OnResultStep == OnIInv /\ [On!Next]_(On!vars) => OnResultOK'
<1> SUFFICES ASSUME OnIInv, [On!Next]_(On!vars) PROVE OnResultOK'
  OBVIOUS
<1>0. /\ on_pc \in [On!Procs -> On!Pcs] /\ on_value \in [On!Procs -> On!Results \cup {None}]
      /\ \A p \in On!Procs : on_pc[p] \in On!Callback => on_phase = 1
      /\ Tasks \subseteq On!Procs
  BY OnCallerFacts DEF OnIInv, On!TypeOK, OnExecOK
<1>1. /\ on_completed = (IF on_phase = 2 THEN 1 ELSE 0)
      /\ \A p \in On!Procs : OnPast(p) => on_phase = 2 /\ on_value[p] = on_result
  BY DEF OnIInv, OnResultOK
\* Nobody comes past the call, and no result changes.
<1>2. ASSUME UNCHANGED <<on_phase, on_result, on_completed>>,
             \A p \in On!Procs : OnPast(p)' => OnPast(p) /\ on_value'[p] = on_value[p]
      PROVE  OnResultOK'
  BY <1>1, <1>2 DEF OnResultOK
\* Before the completion nobody is past the call.
<1>3. ASSUME on_phase \in {0, 1}, on_phase' \in {0, 1}, UNCHANGED on_completed,
             \A p \in On!Procs : OnPast(p)' => OnPast(p)
      PROVE  OnResultOK'
  <2>1. on_completed' = 0 /\ on_phase' # 2 /\ on_phase # 2
    BY <1>1, <1>3
  <2> QED BY <1>1, <1>3, <2>1 DEF OnResultOK
<1>4. CASE UNCHANGED On!vars
  BY <1>2, <1>4 DEF On!vars, OnPast
<1>5. ASSUME NEW p \in On!Procs, On!Start(p) \/ On!Panic(p) PROVE OnResultOK'
  <2>1. /\ on_phase \in {0, 1} /\ on_phase' \in {0, 1} /\ UNCHANGED on_completed
        /\ \E x \in {"callback", "panicking"} : on_pc' = [on_pc EXCEPT ![p] = x]
    BY <1>0, <1>5 DEF On!Start, On!Claim, On!Panic
  <2>2. \A q \in On!Procs : OnPast(q)' => OnPast(q)
    BY <1>0, <2>1 DEF OnPast
  <2> QED BY <1>3, <2>1, <2>2
<1>6. ASSUME NEW p \in On!Procs, On!ParkTask(p) \/ On!WaitThread(p) \/ On!Recurse(p) \/ On!CallAgain(p)
      PROVE  OnResultOK'
  <2>1. /\ UNCHANGED <<on_phase, on_result, on_value, on_completed>>
        /\ \E x \in {"parked", "cv", "refused", "idle"} : on_pc' = [on_pc EXCEPT ![p] = x]
    BY <1>6 DEF On!ParkTask, On!WaitThread, On!Recurse, On!CallAgain
  <2>2. \A q \in On!Procs : OnPast(q)' => OnPast(q)
    BY <1>0, <2>1 DEF OnPast
  <2> QED BY <1>2, <2>1, <2>2
<1>7. ASSUME NEW p \in On!Procs, NEW res \in On!Results, On!Finish(p, res) PROVE OnResultOK'
  <2>1. /\ on_phase = 1 /\ on_phase' = 2 /\ on_result' = res /\ on_value' = [on_value EXCEPT ![p] = res]
        /\ on_completed' = on_completed + 1 /\ on_pc' = [on_pc EXCEPT ![p] = "finished"]
    BY <1>0, <1>7 DEF On!Finish
  <2>2. on_phase # 2
    BY <2>1
  <2>3. on_completed' = 1
    BY <1>1, <2>1, <2>2
  <2>4. \A q \in On!Procs : OnPast(q)' => q = p
    BY <1>0, <1>1, <2>1, <2>2 DEF OnPast
  <2>5. on_value'[p] = on_result'
    BY <1>0, <2>1
  <2> QED BY <2>1, <2>3, <2>4, <2>5 DEF OnResultOK
<1>8. ASSUME NEW p \in On!Procs, On!TakeWaiters(p) PROVE OnResultOK'
  <2>1. /\ UNCHANGED <<on_phase, on_result, on_value, on_completed>>
        /\ \/ on_pc[p] = "finished" /\ on_pc' = [on_pc EXCEPT ![p] = "waking f"]
           \/ on_pc[p] = "panicking" /\ on_pc' = [on_pc EXCEPT ![p] = "waking p"]
    BY <1>8, OnAfterIs DEF On!TakeWaiters
  <2>2. \A q \in On!Procs : OnPast(q)' => OnPast(q)
    BY <1>0, <2>1 DEF OnPast
  <2> QED BY <1>2, <2>1, <2>2
<1>9. ASSUME NEW p \in On!Procs, On!WakeNext(p) PROVE OnResultOK'
  <2>1. /\ UNCHANGED <<on_phase, on_result, on_value, on_completed>>
        /\ \E h \in Tasks : on_pc' = [on_pc EXCEPT ![h] = "woken"]
    BY <1>9, OnWakeFacts
  <2>2. \A q \in On!Procs : OnPast(q)' => OnPast(q)
    BY <1>0, <2>1 DEF OnPast
  <2> QED BY <1>2, <2>1, <2>2
<1>10. ASSUME NEW p \in On!Procs, On!NotifyAll(p) PROVE OnResultOK'
  <2>1. UNCHANGED <<on_phase, on_result, on_value, on_completed>>
    BY <1>10 DEF On!NotifyAll
  <2>2. \A q \in On!Procs : OnPast(q)' => OnPast(q)
    BY <1>10 DEF On!NotifyAll, On!Notified, OnPast
  <2> QED BY <1>2, <2>1, <2>2
<1>11. ASSUME NEW p \in On!Procs, On!ReturnFirst(p) PROVE OnResultOK'
  <2>1. /\ on_phase = 2 /\ UNCHANGED <<on_phase, on_result, on_completed>>
        /\ on_value' = [on_value EXCEPT ![p] = on_result]
        /\ on_pc' = [on_pc EXCEPT ![p] = "returned"]
    BY <1>11 DEF On!ReturnFirst, On!FirstResult
  <2>2. \A q \in On!Procs : OnPast(q)' => q = p \/ OnPast(q)
    BY <1>0, <2>1 DEF OnPast
  <2>3. \A q \in On!Procs : on_value'[q] = IF q = p THEN on_result ELSE on_value[q]
    BY <1>0, <2>1
  <2>4. on_completed' = 1 /\ on_phase' = 2
    BY <1>1, <2>1
  <2> QED BY <1>1, <2>1, <2>2, <2>3, <2>4 DEF OnResultOK
<1> QED BY <1>4, <1>5, <1>6, <1>7, <1>8, <1>9, <1>10, <1>11 DEF On!Next, On!Step

\* A step in which nobody falls asleep or is woken leaves queue and wake-ups sound.
LEMMA OnSameSleepers ==
  ASSUME OnIInv, UNCHANGED <<on_waiters, on_waking>>,
         \A q \in On!Procs : on_pc[q] = "parked" => on_pc'[q] = "parked",
         \A q \in On!Procs : OnWaking(q) /\ on_waking[q] # <<>> => OnWaking(q)'
  PROVE  OnQueueOK' /\ OnWakingOK'
<1>1. /\ OnQueueOK /\ OnWakingOK
      /\ on_waiters \in Seq(Tasks) /\ on_waking \in [On!Procs -> Seq(Tasks)]
  BY DEF OnIInv, On!TypeOK
<1>2. /\ \A i \in DOMAIN on_waiters : on_waiters[i] \in On!Procs
      /\ \A q \in On!Procs : \A i \in DOMAIN on_waking[q] : on_waking[q][i] \in On!Procs
  BY <1>1, OnCallerFacts
<1>3. OnQueueOK'
  BY <1>1, <1>2 DEF OnQueueOK
<1>4. OnWakersOnly'
  BY <1>1, <1>2 DEF OnWakersOnly, OnWakingOK
<1>5. OnAsleep'
  BY <1>1, <1>2 DEF OnAsleep, OnWakingOK
<1>6. OnceEach'
  BY <1>1, <1>2 DEF OnceEach, OnWakingOK
<1>7. OneList'
  BY <1>1, <1>2 DEF OneList, OnWakingOK
<1>8. OnDequeued'
  BY <1>1, <1>2 DEF OnDequeued, OnWakingOK
<1> QED BY <1>3, <1>4, <1>5, <1>6, <1>7, <1>8 DEF OnWakingOK

LEMMA OnLinkedStep == OnIInv /\ [On!Next]_(On!vars) => OnQueueOK' /\ OnWakingOK'
<1> SUFFICES ASSUME OnIInv, [On!Next]_(On!vars) PROVE OnQueueOK' /\ OnWakingOK'
  OBVIOUS
<1> USE OnCallerFacts
<1>0. /\ OnQueueOK /\ OnWakersOnly /\ OnAsleep /\ OnceEach /\ OneList /\ OnDequeued
      /\ on_pc \in [On!Procs -> On!Pcs] /\ on_waiters \in Seq(Tasks) /\ on_waking \in [On!Procs -> Seq(Tasks)]
  BY DEF OnIInv, On!TypeOK, OnWakingOK
<1>1. CASE UNCHANGED On!vars
  <2>1. UNCHANGED <<on_pc, on_waiters, on_waking>>
    BY <1>1 DEF On!vars
  <2> QED BY <2>1, OnSameSleepers DEF OnWaking
<1>2. ASSUME NEW p \in On!Procs, On!Start(p) \/ On!WaitThread(p) \/ On!Recurse(p) \/ On!Panic(p)
                              \/ On!ReturnFirst(p) \/ On!CallAgain(p)
                              \/ \E res \in On!Results : On!Finish(p, res)
      PROVE  OnQueueOK' /\ OnWakingOK'
  <2>1. /\ UNCHANGED <<on_waiters, on_waking>> /\ on_pc[p] # "parked" /\ ~OnWaking(p)
        /\ \E x : on_pc' = [on_pc EXCEPT ![p] = x]
    BY <1>2 DEF On!Start, On!WaitThread, On!Recurse, On!Panic, On!ReturnFirst, On!CallAgain, On!Finish, On!Calling,
                On!Callback, OnWaking
  <2>2. \A q \in On!Procs : q # p => on_pc'[q] = on_pc[q]
    BY <1>0, <2>1
  <2> QED BY <2>1, <2>2, OnSameSleepers DEF OnWaking
<1>3. ASSUME NEW p \in On!Procs, On!NotifyAll(p) PROVE OnQueueOK' /\ OnWakingOK'
  <2>1. UNCHANGED <<on_waiters, on_waking>> /\ on_waking[p] = <<>> /\ on_pc[p] # "parked"
    BY <1>3 DEF On!NotifyAll
  <2>2. \A q \in On!Procs : q # p /\ on_pc[q] # "cv" => on_pc'[q] = on_pc[q]
    BY <1>3 DEF On!NotifyAll, On!Notified
  <2> QED BY <2>1, <2>2, OnSameSleepers DEF OnWaking
<1>4. ASSUME NEW p \in On!Procs, On!ParkTask(p) PROVE OnQueueOK' /\ OnWakingOK'
  <2>1. /\ p \in Tasks /\ on_pc[p] # "parked" /\ ~OnWaking(p)
        /\ on_waiters' = Append(on_waiters, p) /\ on_pc' = [on_pc EXCEPT ![p] = "parked"]
        /\ on_waking' = on_waking
    BY <1>4 DEF On!ParkTask, On!Calling, OnWaking
  <2>2. \A i \in DOMAIN on_waiters : on_waiters[i] # p
    BY <1>0, <2>1 DEF OnQueueOK
  <2>3. \A q \in On!Procs : \A i \in DOMAIN on_waking[q] : on_waking[q][i] # p
    BY <1>0, <2>1 DEF OnAsleep
  <2>4. /\ \A i \in DOMAIN on_waiters' : \/ i \in DOMAIN on_waiters /\ on_waiters'[i] = on_waiters[i]
                                         \/ on_waiters'[i] = p
        /\ \A i, j \in DOMAIN on_waiters' : on_waiters'[i] = on_waiters'[j] => i = j
    <3>1. \A i, j \in DOMAIN on_waiters : on_waiters[i] = on_waiters[j] => i = j
      BY <1>0 DEF OnQueueOK
    <3> QED BY <1>0, <2>1, <2>2, <3>1, OnEnqueued
  <2>5. \A q \in On!Procs : on_pc'[q] = IF q = p THEN "parked" ELSE on_pc[q]
    BY <1>0, <2>1
  <2>6. /\ \A i \in DOMAIN on_waiters : on_waiters[i] \in On!Procs
        /\ \A q \in On!Procs : \A i \in DOMAIN on_waking[q] : on_waking[q][i] \in On!Procs
    BY <1>0
  <2>7. OnQueueOK'
    BY <1>0, <2>4, <2>5, <2>6 DEF OnQueueOK
  <2>8. OnWakersOnly'
    BY <1>0, <2>1, <2>5 DEF OnWakersOnly, OnWaking
  <2>9. OnAsleep'
    BY <1>0, <2>1, <2>5, <2>6 DEF OnAsleep
  <2>10. OnceEach'
    BY <1>0, <2>1 DEF OnceEach
  <2>11. OneList'
    BY <1>0, <2>1 DEF OneList
  <2>12. OnDequeued'
    BY <1>0, <2>1, <2>3, <2>4 DEF OnDequeued
  <2> QED BY <2>7, <2>8, <2>9, <2>10, <2>11, <2>12 DEF OnWakingOK
<1>5. ASSUME NEW p \in On!Procs, On!TakeWaiters(p) PROVE OnQueueOK' /\ OnWakingOK'
  <2>1. /\ OnLeaving(p) /\ on_waiters' = <<>> /\ on_waking' = [on_waking EXCEPT ![p] = on_waiters]
        /\ \E x \in {"waking f", "waking p"} : on_pc' = [on_pc EXCEPT ![p] = x]
    BY <1>5, OnAfterIs DEF On!TakeWaiters, OnLeaving
  <2>2. \A q \in On!Procs : on_waking'[q] = IF q = p THEN on_waiters ELSE on_waking[q]
    BY <1>0, <2>1
  <2>3. /\ OnWaking(p)' /\ \A q \in On!Procs : q # p => on_pc'[q] = on_pc[q]
        /\ on_pc[p] # "parked"
    BY <1>0, <2>1 DEF OnWaking, OnLeaving
  <2>4. /\ \A i \in DOMAIN on_waiters : on_waiters[i] \in On!Procs
        /\ \A q \in On!Procs : \A i \in DOMAIN on_waking[q] : on_waking[q][i] \in On!Procs
    BY <1>0
  <2>5. \A i : i \notin DOMAIN on_waiters'
    BY <2>1, OnEmptyQueue, Zenon
  <2>6. OnQueueOK'
    BY <2>5 DEF OnQueueOK
  <2>7. OnWakersOnly'
    BY <1>0, <2>2, <2>3 DEF OnWakersOnly, OnWaking
  <2>8. OnAsleep'
    <3>1. ASSUME NEW q \in On!Procs, NEW i \in DOMAIN on_waking'[q]
          PROVE  on_pc'[on_waking'[q][i]] = "parked"
      <4>1. CASE q = p
        BY <1>0, <2>2, <2>3, <2>4, <3>1, <4>1 DEF OnQueueOK
      <4>2. CASE q # p
        BY <1>0, <2>2, <2>3, <2>4, <3>1, <4>2 DEF OnAsleep
      <4> QED BY <4>1, <4>2
    <3> QED BY <3>1 DEF OnAsleep
  <2>9. OnceEach'
    BY <1>0, <2>2 DEF OnceEach, OnQueueOK
  <2>10. OneList'
    <3>1. ASSUME NEW q \in On!Procs, NEW r \in On!Procs, q # r,
                 NEW i \in DOMAIN on_waking'[q], NEW j \in DOMAIN on_waking'[r]
          PROVE  on_waking'[q][i] # on_waking'[r][j]
      <4>1. CASE q = p
        BY <1>0, <2>2, <3>1, <4>1 DEF OnDequeued
      <4>2. CASE r = p
        BY <1>0, <2>2, <3>1, <4>2 DEF OnDequeued
      <4>3. CASE q # p /\ r # p
        BY <1>0, <2>2, <3>1, <4>3 DEF OneList
      <4> QED BY <4>1, <4>2, <4>3
    <3> QED BY <3>1 DEF OneList
  <2>11. OnDequeued'
    BY <2>5 DEF OnDequeued
  <2> QED BY <2>6, <2>7, <2>8, <2>9, <2>10, <2>11 DEF OnWakingOK
<1>6. ASSUME NEW p \in On!Procs, On!WakeNext(p) PROVE OnQueueOK' /\ OnWakingOK'
  <2> DEFINE h == Head(on_waking[p])
  <2>1. /\ OnWaking(p) /\ on_waking[p] # <<>> /\ h \in Tasks /\ h # p /\ on_pc[h] = "parked"
        /\ on_waking' = [on_waking EXCEPT ![p] = Tail(on_waking[p])]
        /\ on_pc' = [on_pc EXCEPT ![h] = "woken"] /\ on_waiters' = on_waiters
        /\ \A q \in On!Procs : \A i \in DOMAIN on_waking'[q] :
              on_waking'[q][i] # h /\ \E j \in DOMAIN on_waking[q] : on_waking'[q][i] = on_waking[q][j]
        /\ \A i \in DOMAIN on_waiters : on_waiters[i] # h
    BY <1>6, OnWakeFacts
  <2>2. \A i, j \in DOMAIN Tail(on_waking[p]) : Tail(on_waking[p])[i] = Tail(on_waking[p])[j] => i = j
    <3>1. on_waking[p] \in Seq(Tasks)
          /\ \A i, j \in DOMAIN on_waking[p] : on_waking[p][i] = on_waking[p][j] => i = j
      BY <1>0 DEF OnceEach
    <3> QED BY <2>1, <3>1, OnDequeue
  <2> HIDE DEF h
  <2>3. \A q \in On!Procs : q # h => on_pc'[q] = on_pc[q]
    BY <1>0, <2>1
  <2>4. /\ \A i \in DOMAIN on_waiters : on_waiters[i] \in On!Procs
        /\ \A q \in On!Procs : \A i \in DOMAIN on_waking[q] : on_waking[q][i] \in On!Procs
    BY <1>0
  <2>5. OnQueueOK'
    BY <1>0, <2>1, <2>3, <2>4 DEF OnQueueOK
  <2>6. OnWakersOnly'
    <3>1. ASSUME NEW q \in On!Procs, on_waking'[q] # <<>> PROVE on_pc'[q] \in {"waking f", "waking p"}
      <4>1. on_pc[q] \in {"waking f", "waking p"}
        BY <1>0, <2>1, <3>1 DEF OnWakersOnly, OnWaking
      <4> QED BY <2>1, <2>3, <4>1
    <3> QED BY <3>1 DEF OnWakersOnly, OnWaking
  <2>7. OnAsleep'
    <3>1. ASSUME NEW q \in On!Procs, NEW i \in DOMAIN on_waking'[q]
          PROVE  on_pc'[on_waking'[q][i]] = "parked"
      <4> PICK j \in DOMAIN on_waking[q] : on_waking'[q][i] = on_waking[q][j]
        BY <2>1, <3>1
      <4>1. on_waking'[q][i] # h /\ on_waking'[q][i] \in On!Procs /\ on_pc[on_waking'[q][i]] = "parked"
        BY <1>0, <2>1, <2>4, <3>1 DEF OnAsleep
      <4> QED BY <2>3, <4>1
    <3> QED BY <3>1 DEF OnAsleep
  <2>8. OnceEach'
    <3>1. \A q \in On!Procs : on_waking'[q] = IF q = p THEN Tail(on_waking[p]) ELSE on_waking[q]
      BY <1>0, <2>1
    <3> QED BY <1>0, <2>2, <3>1 DEF OnceEach
  <2>9. OneList'
    <3>1. ASSUME NEW q \in On!Procs, NEW r \in On!Procs, NEW i \in DOMAIN on_waking'[q],
                 NEW j \in DOMAIN on_waking'[r], on_waking'[q][i] = on_waking'[r][j]
          PROVE  q = r
      <4> PICK k \in DOMAIN on_waking[q] : on_waking'[q][i] = on_waking[q][k]
        BY <2>1, <3>1
      <4> PICK l \in DOMAIN on_waking[r] : on_waking'[r][j] = on_waking[r][l]
        BY <2>1, <3>1
      <4> QED BY <1>0, <3>1 DEF OneList
    <3> QED BY <3>1 DEF OneList
  <2>10. OnDequeued'
    <3>1. ASSUME NEW q \in On!Procs, NEW i \in DOMAIN on_waking'[q], NEW j \in DOMAIN on_waiters
          PROVE  on_waking'[q][i] # on_waiters[j]
      <4> PICK k \in DOMAIN on_waking[q] : on_waking'[q][i] = on_waking[q][k]
        BY <2>1, <3>1
      <4> QED BY <1>0 DEF OnDequeued
    <3> QED BY <2>1, <3>1 DEF OnDequeued
  <2> QED BY <2>5, <2>6, <2>7, <2>8, <2>9, <2>10 DEF OnWakingOK
<1> QED BY <1>1, <1>2, <1>3, <1>4, <1>5, <1>6 DEF On!Next, On!Step

LEMMA OnServedStep == OnIInv /\ [On!Next]_(On!vars) => OnServedOK'
<1> SUFFICES ASSUME OnIInv, [On!Next]_(On!vars) PROVE OnServedOK'
  OBVIOUS
<1> USE OnCallerFacts
<1>0. /\ OnParkedKnown /\ OnQueueServed /\ OnCvServed /\ OnQueueOK /\ on_pc \in [On!Procs -> On!Pcs]
      /\ on_waiters \in Seq(Tasks) /\ on_waking \in [On!Procs -> Seq(Tasks)]
  BY DEF OnIInv, On!TypeOK, OnServedOK
\* Nobody falls asleep as a task, and who was going to wake others still is.
<1>1. ASSUME UNCHANGED <<on_waiters, on_waking>>,
             \A t \in Tasks : on_pc'[t] = "parked" => on_pc[t] = "parked",
             \A q \in On!Procs : (OnLeaving(q) => OnLeaving(q)') /\ (OnWaking(q) => OnWaking(q)'),
             \/ on_phase' = 1
             \/ on_phase' = on_phase /\ \A q \in Threads : on_pc'[q] = "cv" => on_pc[q] = "cv"
             \/ \E q \in On!Procs : OnLeaving(q)'
      PROVE  OnServedOK'
  <2>1. OnParkedKnown'
    <3>1. \A t \in Tasks : OnQueued(t)' = OnQueued(t) /\ OnBeingWoken(t)' = OnBeingWoken(t)
      BY <1>1 DEF OnQueued, OnBeingWoken
    <3> QED BY <1>0, <1>1, <3>1 DEF OnParkedKnown
  <2>2. OnQueueServed'
    BY <1>0, <1>1 DEF OnQueueServed
  <2>3. OnCvServed'
    BY <1>0, <1>1 DEF OnCvServed
  <2> QED BY <2>1, <2>2, <2>3 DEF OnServedOK
<1>2. CASE UNCHANGED On!vars
  <2>1. UNCHANGED <<on_pc, on_waiters, on_waking, on_phase>>
    BY <1>2 DEF On!vars
  <2> QED BY <1>1, <2>1 DEF OnLeaving, OnWaking
<1>3. ASSUME NEW p \in On!Procs, On!Start(p) \/ On!WaitThread(p) PROVE OnServedOK'
  <2>1. /\ UNCHANGED <<on_waiters, on_waking>> /\ on_phase' = 1 /\ ~OnLeaving(p) /\ ~OnWaking(p)
        /\ \E x \in {"callback", "cv"} : on_pc' = [on_pc EXCEPT ![p] = x]
    BY <1>3 DEF On!Start, On!Claim, On!WaitThread, On!Calling, OnLeaving, OnWaking
  <2>2. \A q \in On!Procs : q # p => on_pc'[q] = on_pc[q]
    BY <1>0, <2>1
  <2>3. on_pc'[p] # "parked"
    BY <1>0, <2>1
  <2> QED BY <1>1, <2>1, <2>2, <2>3 DEF OnLeaving, OnWaking
<1>4. ASSUME NEW p \in On!Procs, On!Recurse(p) \/ On!ReturnFirst(p) \/ On!CallAgain(p) PROVE OnServedOK'
  <2>1. /\ UNCHANGED <<on_waiters, on_waking, on_phase>> /\ ~OnLeaving(p) /\ ~OnWaking(p)
        /\ \E x \in {"refused", "returned", "idle"} : on_pc' = [on_pc EXCEPT ![p] = x]
    BY <1>4 DEF On!Recurse, On!ReturnFirst, On!CallAgain, On!Calling, OnLeaving, OnWaking
  <2>2. \A q \in On!Procs : q # p => on_pc'[q] = on_pc[q]
    BY <1>0, <2>1
  <2>3. on_pc'[p] # "parked" /\ on_pc'[p] # "cv"
    BY <1>0, <2>1
  <2> QED BY <1>1, <2>1, <2>2, <2>3 DEF OnLeaving, OnWaking
<1>5. ASSUME NEW p \in On!Procs, On!Panic(p) \/ \E res \in On!Results : On!Finish(p, res) PROVE OnServedOK'
  <2>1. /\ UNCHANGED <<on_waiters, on_waking>> /\ ~OnLeaving(p) /\ ~OnWaking(p)
        /\ \E x \in {"finished", "panicking"} : on_pc' = [on_pc EXCEPT ![p] = x]
    BY <1>5 DEF On!Panic, On!Finish, On!Callback, OnLeaving, OnWaking
  <2>2. \A q \in On!Procs : q # p => on_pc'[q] = on_pc[q]
    BY <1>0, <2>1
  <2>3. on_pc'[p] # "parked" /\ OnLeaving(p)'
    BY <1>0, <2>1 DEF OnLeaving
  <2> QED BY <1>1, <2>1, <2>2, <2>3 DEF OnLeaving, OnWaking
<1>6. ASSUME NEW p \in On!Procs, On!ParkTask(p) PROVE OnServedOK'
  <2>1. /\ p \in Tasks /\ on_pc[p] # "parked"
        /\ on_waiters' = Append(on_waiters, p) /\ on_pc' = [on_pc EXCEPT ![p] = "parked"]
        /\ on_waking' = on_waking /\ on_phase' = 1
    BY <1>6 DEF On!ParkTask, On!Calling
  <2>2. /\ \A i \in DOMAIN on_waiters : on_waiters[i] # p
        /\ \A i, j \in DOMAIN on_waiters : on_waiters[i] = on_waiters[j] => i = j
    BY <1>0, <2>1 DEF OnQueueOK
  <2>3. /\ \A i \in DOMAIN on_waiters : i \in DOMAIN on_waiters' /\ on_waiters'[i] = on_waiters[i]
        /\ \E i \in DOMAIN on_waiters' : on_waiters'[i] = p
    <3>1. on_waiters \in Seq(Tasks) /\ p \in Tasks
      BY <1>0, <2>1
    <3>2. /\ \A i \in DOMAIN on_waiters :
               i \in DOMAIN Append(on_waiters, p) /\ Append(on_waiters, p)[i] = on_waiters[i]
          /\ \E i \in DOMAIN Append(on_waiters, p) : Append(on_waiters, p)[i] = p
      BY <2>2, <3>1, OnEnqueued, Zenon
    <3> QED BY <2>1, <3>2
  <2>4. \A t \in Tasks : /\ OnQueued(t) => OnQueued(t)'
                         /\ OnBeingWoken(t) => OnBeingWoken(t)'
                         /\ t # p => on_pc'[t] = on_pc[t]
    BY <1>0, <2>1, <2>3 DEF OnQueued, OnBeingWoken
  <2>5. OnQueued(p)'
    BY <2>3 DEF OnQueued
  <2>6. OnParkedKnown'
    BY <1>0, <2>4, <2>5 DEF OnParkedKnown
  <2> QED BY <2>1, <2>6 DEF OnServedOK, OnQueueServed, OnCvServed
<1>7. ASSUME NEW p \in On!Procs, On!TakeWaiters(p) PROVE OnServedOK'
  <2>1. /\ OnLeaving(p) /\ on_waiters' = <<>> /\ on_waking' = [on_waking EXCEPT ![p] = on_waiters]
        /\ \E x \in {"waking f", "waking p"} : on_pc' = [on_pc EXCEPT ![p] = x]
    BY <1>7, OnAfterIs DEF On!TakeWaiters, OnLeaving
  <2>2. OnWaking(p)' /\ on_pc'[p] # "parked" /\ \A q \in On!Procs : q # p => on_pc'[q] = on_pc[q]
    BY <1>0, <2>1 DEF OnWaking
  <2>3. on_waking[p] = <<>>
    BY <2>1 DEF OnIInv, OnWakingOK, OnWakersOnly, OnLeaving, OnWaking
  <2>4. on_waking'[p] = on_waiters /\ \A q \in On!Procs : q # p => on_waking'[q] = on_waking[q]
    BY <1>0, <2>1
  <2>5. ASSUME NEW t \in Tasks, OnQueued(t) \/ OnBeingWoken(t) PROVE OnBeingWoken(t)'
    <3>1. CASE OnQueued(t)
      BY <2>4, <3>1 DEF OnQueued, OnBeingWoken
    <3>2. CASE OnBeingWoken(t)
      <4> PICK q \in On!Procs : \E i \in DOMAIN on_waking[q] : on_waking[q][i] = t
        BY <3>2 DEF OnBeingWoken
      <4>1. q # p
        BY <2>3, OnEmptyQueue
      <4> QED BY <2>4, <4>1 DEF OnBeingWoken
    <3> QED BY <2>5, <3>1, <3>2
  <2>6. OnParkedKnown'
    BY <1>0, <2>2, <2>5 DEF OnParkedKnown
  <2> QED BY <2>1, <2>2, <2>6 DEF OnServedOK, OnQueueServed, OnCvServed
<1>8. ASSUME NEW p \in On!Procs, On!WakeNext(p) PROVE OnServedOK'
  <2> DEFINE h == Head(on_waking[p])
  <2>1. /\ OnWaking(p) /\ on_waking[p] # <<>> /\ on_waking[p] \in Seq(Tasks)
        /\ h \in Tasks /\ h # p /\ on_pc[h] = "parked"
        /\ on_waking' = [on_waking EXCEPT ![p] = Tail(on_waking[p])]
        /\ on_pc' = [on_pc EXCEPT ![h] = "woken"] /\ UNCHANGED <<on_waiters, on_phase>>
    BY <1>8, OnWakeFacts
  <2>2. \A i \in DOMAIN on_waking[p] :
          \/ on_waking[p][i] = h
          \/ i - 1 \in DOMAIN Tail(on_waking[p]) /\ Tail(on_waking[p])[i - 1] = on_waking[p][i]
    <3>1. \A i, j \in DOMAIN on_waking[p] : on_waking[p][i] = on_waking[p][j] => i = j
      BY DEF OnIInv, OnWakingOK, OnceEach
    <3> QED BY <2>1, <3>1, OnDequeue
  <2> HIDE DEF h
  <2>3. \A q \in On!Procs : on_waking'[q] = IF q = p THEN Tail(on_waking[p]) ELSE on_waking[q]
    BY <1>0, <2>1
  <2>4. \A q \in On!Procs : on_pc'[q] = IF q = h THEN "woken" ELSE on_pc[q]
    BY <1>0, <2>1
  <2>5. ASSUME NEW t \in Tasks, t # h, OnBeingWoken(t) PROVE OnBeingWoken(t)'
    <3> PICK q \in On!Procs : \E i \in DOMAIN on_waking[q] : on_waking[q][i] = t
      BY <2>5 DEF OnBeingWoken
    <3> PICK i \in DOMAIN on_waking[q] : on_waking[q][i] = t
      OBVIOUS
    <3>1. CASE q = p
      <4>1. i - 1 \in DOMAIN on_waking'[p] /\ on_waking'[p][i - 1] = t
        BY <2>2, <2>3, <2>5, <3>1
      <4> QED BY <4>1 DEF OnBeingWoken
    <3>2. CASE q # p
      BY <2>3, <3>2 DEF OnBeingWoken
    <3> QED BY <3>1, <3>2
  <2>6. \A t \in Tasks : OnQueued(t)' = OnQueued(t)
    BY <2>1 DEF OnQueued
  <2>7. \A q \in On!Procs : (OnLeaving(q) => OnLeaving(q)') /\ (OnWaking(q) => OnWaking(q)')
    BY <2>1, <2>4 DEF OnLeaving, OnWaking
  <2>8. OnParkedKnown'
    BY <1>0, <2>4, <2>5, <2>6 DEF OnParkedKnown
  <2>9. OnQueueServed'
    BY <1>0, <2>1, <2>7 DEF OnQueueServed
  <2>10. OnCvServed'
    BY <1>0, <2>1, <2>4, <2>7 DEF OnCvServed
  <2> QED BY <2>8, <2>9, <2>10 DEF OnServedOK
<1>9. ASSUME NEW p \in On!Procs, On!NotifyAll(p) PROVE OnServedOK'
  <2>1. /\ UNCHANGED <<on_waiters, on_waking, on_phase>> /\ OnWaking(p)
        /\ \A q \in On!Procs : q # p => on_pc'[q] = On!Notified(q)
        /\ on_pc'[p] \in {"returned", "gone"}
    BY <1>9 DEF On!NotifyAll, OnWaking
  <2>2. \A q \in On!Procs : on_pc'[q] # "cv" /\ (on_pc'[q] = "parked" => on_pc[q] = "parked")
    BY <2>1 DEF On!Notified
  <2>3. \A q \in On!Procs : OnLeaving(q) => OnLeaving(q)'
    BY <2>1 DEF OnLeaving, OnWaking, On!Notified
  <2>4. \A t \in Tasks : OnQueued(t)' = OnQueued(t) /\ OnBeingWoken(t)' = OnBeingWoken(t)
    BY <2>1 DEF OnQueued, OnBeingWoken
  <2>5. OnParkedKnown'
    BY <1>0, <2>2, <2>4 DEF OnParkedKnown
  <2>6. OnQueueServed'
    BY <1>0, <2>1, <2>3 DEF OnQueueServed
  <2>7. OnCvServed'
    BY <2>2 DEF OnCvServed
  <2> QED BY <2>5, <2>6, <2>7 DEF OnServedOK
<1> QED BY <1>2, <1>3, <1>4, <1>5, <1>6, <1>7, <1>8, <1>9 DEF On!Next, On!Step

LEMMA OnInvariance == On!Spec => []OnIInv
<1>1. OnIInv /\ [On!Next]_(On!vars) => OnIInv'
  BY OnTypeStep, OnExecStep, OnResultStep, OnLinkedStep, OnServedStep DEF OnIInv
<1> QED BY <1>1, OnInitInv, PTL DEF On!Spec

-----------------------------------------------------------------------------
\* Every variable keeps to its type; a completed object has a result.
LEMMA OnTypeCorrect == On!Spec => []On!TypeOK
<1>1. OnIInv => On!TypeOK
  BY DEF OnIInv
<1> QED BY <1>1, OnInvariance, PTL

\* The callback is never run by two callers at once and completes once at most.
LEMMA OnRunsAtMostOnce == On!Spec => []On!AtMostOnce
<1>1. OnIInv => On!AtMostOnce
  BY OnCallerFacts DEF OnIInv, On!TypeOK, OnExecOK, OnResultOK, On!AtMostOnce
<1> QED BY <1>1, OnInvariance, PTL

\* Whoever has come back has the result of the callback that completed.
LEMMA OneResultForAll ==
  ASSUME None \notin On!Results
  PROVE  On!Spec => []On!SameResult
<1>1. OnIInv => On!SameResult
  BY DEF OnIInv, On!TypeOK, OnResultOK, On!SameResult, OnPast
<1> QED BY <1>1, OnInvariance, PTL

\* Nobody sleeps with no callback running and no wake-up on its way.
LEMMA OnNobodyLeftBehind == On!Spec => []On!NobodyIsStranded
<1>1. OnIInv => On!NobodyIsStranded
  <2> SUFFICES ASSUME OnIInv PROVE On!NobodyIsStranded
    OBVIOUS
  <2>0. /\ OnParkedKnown /\ OnQueueServed /\ OnCvServed
        /\ DOMAIN On!After = {"finished", "panicking"}
    BY OnAfterIs DEF OnIInv, OnServedOK
  <2>1. \A t \in Tasks : OnQueued(t) => t \in On!Range(on_waiters) /\ on_waiters # <<>>
    BY OnEmptyQueue, Zenon DEF OnQueued, On!Range
  <2>2. \A t \in Tasks : OnBeingWoken(t) => \E p \in On!Procs : t \in On!Range(on_waking[p])
    BY Zenon DEF OnBeingWoken, On!Range
  <2>3. \A p \in On!Procs : OnLeaving(p) <=> on_pc[p] \in DOMAIN On!After
    BY <2>0 DEF OnLeaving
  <2>4. \A t \in Tasks : on_pc[t] = "parked" =>
          \/ /\ t \in On!Range(on_waiters)
             /\ on_phase = 1 \/ \E p \in On!Procs : on_pc[p] \in DOMAIN On!After
          \/ \E p \in On!Procs : t \in On!Range(on_waking[p])
    <3> SUFFICES ASSUME NEW t \in Tasks, on_pc[t] = "parked", ~OnBeingWoken(t)
                 PROVE  /\ t \in On!Range(on_waiters)
                        /\ on_phase = 1 \/ \E p \in On!Procs : on_pc[p] \in DOMAIN On!After
      BY <2>2, Zenon
    <3>1. OnQueued(t)
      BY <2>0 DEF OnParkedKnown
    <3>2. t \in On!Range(on_waiters) /\ on_waiters # <<>>
      BY <2>1, <3>1, Zenon
    <3> QED BY <2>0, <2>3, <3>2 DEF OnQueueServed
  <2>5. (\E p \in Threads : on_pc[p] = "cv") =>
          on_phase = 1 \/ \E p \in On!Procs : on_pc[p] \in DOMAIN On!After \cup {"waking f", "waking p"}
    BY <2>0 DEF OnCvServed, OnLeaving, OnWaking
  <2> QED BY <2>4, <2>5 DEF On!NobodyIsStranded
<1> QED BY <1>1, OnInvariance, PTL

-----------------------------------------------------------------------------
(* A behaviour of Concurrency is a behaviour of each object. *)

LEMMA SemaphoreSpec == Spec => Sem!Spec
<1>1. [Next]_vars => [Sem!Next]_(Sem!vars)
  BY Zenon DEF Next, vars, sem, Sem!vars
<1> QED BY <1>1, PTL DEF Spec, Init, Sem!Spec

LEMMA MutexSpec == Spec => Mx!Spec
<1>1. [Next]_vars => [Mx!Next]_(Mx!vars)
  BY Zenon DEF Next, vars, mu, Mx!vars
<1> QED BY <1>1, PTL DEF Spec, Init, Mx!Spec

LEMMA ChannelSpec == Spec => CP!Spec
<1>1. Init => CP!Init
  BY DEF Init, Ch!Init, CP!Init, Ch!Receivers, CP!Receivers, Ch!Procs, CP!Procs, Ch!Quiet, CP!Quiet
<1>2. Ch!Next => CP!Next
  BY Zenon DEF Ch!Next, CP!Next, Ch!Send, CP!Send, Ch!SendToWaiter, CP!SendToWaiter,
               Ch!SendToQueue, CP!SendToQueue, Ch!CanSend, CP!CanSend, Ch!Finish, CP!Finish,
               Ch!Inject, CP!Inject, Ch!Notify, CP!Notify, Ch!Quiet, CP!Quiet, Ch!Receive,
               CP!Receive, Ch!TakeValue, CP!TakeValue, Ch!Taken, CP!Taken, Ch!Remaining,
               CP!Remaining, Ch!ParkTask, CP!ParkTask, Ch!WaitThread, CP!WaitThread,
               Ch!Receivers, CP!Receivers, Ch!Procs, CP!Procs
<1>3. [Next]_vars => Ch!Next \/ UNCHANGED ch
  BY DEF Next, vars
<1>4. UNCHANGED ch => UNCHANGED CP!vars
  BY DEF ch, CP!vars
<1>5. [Next]_vars => [CP!Next]_(CP!vars)
  BY <1>2, <1>3, <1>4
<1> QED BY <1>1, <1>5, PTL DEF Spec, CP!Spec

LEMMA RWMutexSpec == Spec => Rw!Spec
<1>1. [Next]_vars => [Rw!Next]_(Rw!vars)
  BY Zenon DEF Next, vars, rw, Rw!vars
<1> QED BY <1>1, PTL DEF Spec, Init, Rw!Spec

LEMMA OnceSpec == Spec => On!Spec
<1>1. [Next]_vars => [On!Next]_(On!vars)
  BY DEF Next, vars, on, On!vars
<1> QED BY <1>1, PTL DEF Spec, Init, On!Spec

LEMMA BlockingPoolSpec == Spec => Bp!Spec
<1>1. [Next]_vars => [Bp!Next]_(Bp!vars)
  BY Zenon DEF Next, vars, bp, Bp!vars
<1> QED BY <1>1, PTL DEF Spec, Init, Bp!Spec

LEMMA WaitGroupSpec == Spec => Wg!Spec
<1>1. Init => Wg!Init
  BY DEF Init
<1>2. [Next]_vars => Wg!Next \/ UNCHANGED wg
  BY DEF Next, vars
<1>3. UNCHANGED wg => UNCHANGED Wg!vars
  BY DEF wg, Wg!vars
<1>4. [Next]_vars => [Wg!Next]_(Wg!vars)
  BY <1>2, <1>3
<1> QED BY <1>1, <1>4, PTL DEF Spec, Wg!Spec

LEMMA PoolRunSpec == Spec => Pr!Spec
<1>1. Init => Pr!Init
  BY DEF Init
<1>2. [Next]_vars => Pr!Next \/ UNCHANGED pr
  BY DEF Next, vars
<1>3. UNCHANGED pr => UNCHANGED Pr!vars
  BY DEF pr, Pr!vars
<1>4. [Next]_vars => [Pr!Next]_(Pr!vars)
  BY <1>2, <1>3
<1> QED BY <1>1, <1>4, PTL DEF Spec, Pr!Spec

-----------------------------------------------------------------------------
(* What the runs check, for every value of the constants. *)

\* Semaphore: permits are neither lost nor created, whoever barges in front of the
\* queue and however often a woken caller has to try again (concurrency.rs:970-1047).
THEOREM PermitsAreConserved == Spec => []PermitsConserved
<1>1. Permits \in Nat
  BY CountsAssumption
<1>2. Sem!Spec => []Sem!PermitsConserved
  BY <1>1, SemConservation
<1> QED BY <1>2, SemaphoreSpec, PTL DEF PermitsConserved

\* Mutex: one owner at most, counting the task a release has handed the lock to
\* before that task runs again (concurrency.rs:564-653).
THEOREM MutexExcludes == Spec => []MutualExclusion
BY MxExclusion, MutexSpec, PTL DEF MutualExclusion

\* Mutex: the queue, the condition variable and the hand-over implement the lock of
\* AbstractLock, step by step.
THEOREM MutexImplementsLock == Spec => ImplementsLock
BY MxRefinement, MutexSpec, PTL DEF ImplementsLock

\* Channel: every value sent is queued, on its way to one parked task, or received
\* once, by whichever of the two ways (concurrency.rs:460-559).
THEOREM ChannelDeliversOnce == Spec => []ExactlyOnce
<1>1. CP!ExactlyOnce => ExactlyOnce
  BY Zenon DEF ExactlyOnce, CP!ExactlyOnce, Ch!ExactlyOnce, CP!Occurrences, Ch!Occurrences, CP!Values, Ch!Values,
         CP!Receivers, Ch!Receivers, CP!Cardinality, Ch!Cardinality, CP!Procs, Ch!Procs
<1>2. CP!Assumptions
  BY CountsAssumption DEF CP!Assumptions
<1>3. CP!Spec => []CP!ExactlyOnce
  BY <1>2, CP!DeliveredOnce, CallersAssumption
<1> QED BY <1>1, <1>3, ChannelSpec, PTL

\* Channel: a receiver gets values in the order of the sends, and the hand-over to a
\* parked task does not overtake the queue (concurrency.rs:460-559).
THEOREM ChannelKeepsOrder == Spec => []InOrder
<1>1. CP!ReceivedInOrder /\ CP!QueueIsNewest => InOrder
  BY Zenon DEF InOrder, CP!ReceivedInOrder, Ch!ReceivedInOrder, CP!QueueIsNewest, Ch!QueueIsNewest,
         CP!Entries, Ch!Entries, CP!Receivers, Ch!Receivers, CP!Procs, Ch!Procs
<1>2. CP!Assumptions
  BY CountsAssumption DEF CP!Assumptions
<1>3. CP!Spec => [](CP!ReceivedInOrder /\ CP!QueueIsNewest)
  BY <1>2, CP!ReceivedInOrderOfSends, CallersAssumption
<1> QED BY <1>1, <1>3, ChannelSpec, PTL

\* RWMutex: readers or one writer, counting the callers a release has admitted
\* before they run, and an exact count of waiting writers (concurrency.rs:672-846).
THEOREM RWMutexExcludes == Spec => []ReadersOrWriter
BY RwExclusion, RwWritersCounted, RWMutexSpec, PTL DEF ReadersOrWriter

\* Once: one execution at a time, one completion, and its result for every caller,
\* through panics and re-elections (concurrency.rs:1068-1208).
THEOREM OneResultForAllCallers == Spec => []OneResult
<1>1. None \notin On!Results
  BY CountsAssumption DEF On!Results, On!Procs
<1>2. On!Spec => []On!SameResult
  BY <1>1, OneResultForAll
<1> QED BY <1>2, OnRunsAtMostOnce, OnceSpec, PTL DEF OneResult

\* poolRun: every item is worked on once and its result comes back at its index,
\* whichever threads panic (concurrency.rs:1259-1346).
THEOREM ItemsAreWorkedOnOnce == Spec => []EachItemOnce
<1>1. PrAssumptions
  BY CountsAssumption DEF PrAssumptions
<1>2. Pr!Spec => []Pr!EachItemOnce
  BY <1>1, PrWorkedOnOnce
<1>3. Pr!Spec => []Pr!AllInOrder
  BY <1>1, PrResultsInOrder
<1> QED BY <1>2, <1>3, PoolRunSpec, PTL DEF EachItemOnce

\* Blocking pool: the call of a waiting task is in one place, and answered for itself
\* (scheduler.rs:543-617, vm.rs:1685-1719).
THEOREM OffloadedCallsAreInOnePlace == Spec => []ExactlyOnePlace
<1>1. BpAssumptions
  BY CountsAssumption, Zenon DEF BpAssumptions
<1>2. Bp!Spec => []Bp!ExactlyOnePlace
  BY <1>1, BpOnePlace
<1> QED BY <1>2, BlockingPoolSpec, PTL DEF ExactlyOnePlace

\* No lost wake-up in any of the objects: nobody is parked or asleep on a condition
\* variable for what is there already, unless a wake-up is on its way to somebody.
THEOREM NobodyIsLeftBehind == Spec => []NobodyIsStranded
<1>4. CP!NoMissedValue => Ch!NoMissedValue
  BY Zenon DEF CP!NoMissedValue, Ch!NoMissedValue
<1>7. Permits \in Nat /\ MaxCount \in Nat /\ MaxAdds \in Nat
  BY CountsAssumption
<1>8. CP!Assumptions
  BY CountsAssumption DEF CP!Assumptions
<1>9. BpAssumptions
  BY CountsAssumption, Zenon DEF BpAssumptions
<1>10. Sem!Spec => [](Sem!NoTaskLeftBehind /\ Sem!NoThreadLeftBehind)
  BY <1>7, SemNobodyLeftBehind
<1>11. Sem!Spec => []Sem!WaitersAreParked
  BY <1>7, SemParkedTasksAreKnown
<1>12. Mx!Spec => []Mx!NobodyWaitsForFreeLock
  BY MxNobodyForgotten
<1>13. CP!Spec => []CP!NoMissedValue
  BY <1>8, CP!NoValueIsMissed, CallersAssumption
<1>14. Rw!Spec => []Rw!NobodyIsStranded
  BY RwNobodyLeftBehind
<1>15. Wg!Spec => []Wg!NobodyIsStranded
  BY <1>7, WgNobodyLeftBehind
<1>16. Bp!Spec => []Bp!QueueIsServed
  BY <1>9, BpJobsAreServed
<1>17. Spec => [](Sem!NoTaskLeftBehind /\ Sem!NoThreadLeftBehind /\ Sem!WaitersAreParked)
  BY <1>10, <1>11, SemaphoreSpec, PTL
<1>18. Spec => [](Mx!NobodyWaitsForFreeLock /\ Ch!NoMissedValue)
  BY <1>4, <1>12, <1>13, MutexSpec, ChannelSpec, PTL
<1>19. Spec => [](Rw!NobodyIsStranded /\ Wg!NobodyIsStranded)
  BY <1>14, <1>15, RWMutexSpec, WaitGroupSpec, PTL
<1>20. Spec => [](On!NobodyIsStranded /\ Bp!QueueIsServed)
  BY <1>16, OnNobodyLeftBehind, OnceSpec, BlockingPoolSpec, PTL
<1> QED BY <1>17, <1>18, <1>19, <1>20, PTL DEF NobodyIsStranded

\* Every variable of every object keeps to its type.
THEOREM TypeCorrect == Spec => []TypeOK
<1>3. CP!TypeOK => Ch!TypeOK
  BY Zenon DEF CP!TypeOK, Ch!TypeOK, CP!Values, Ch!Values, CP!Receivers, Ch!Receivers, CP!Procs,
         Ch!Procs
<1>6. Permits \in Nat /\ MaxCount \in Nat /\ MaxAdds \in Nat
  BY CountsAssumption
<1>7. CP!Assumptions /\ PrAssumptions
  BY CountsAssumption DEF CP!Assumptions, PrAssumptions
<1>8. BpAssumptions
  BY CountsAssumption, Zenon DEF BpAssumptions
<1>9. Sem!Spec => []Sem!TypeOK
  BY <1>6, SemTypeCorrect
<1>10. Mx!Spec => []Mx!TypeOK
  BY MxTypeCorrect
<1>11. CP!Spec => []CP!TypeOK
  BY <1>7, CP!TypeCorrect, CallersAssumption
<1>12. Rw!Spec => []Rw!TypeOK
  BY RwTypeCorrect
<1>13. Wg!Spec => []Wg!TypeOK
  BY <1>6, WgTypeCorrect
<1>14. Pr!Spec => []Pr!TypeOK
  BY <1>7, PrTypeCorrect
<1>15. Bp!Spec => []Bp!TypeOK
  BY <1>8, BpTypeCorrect
<1>16. Spec => [](object \in Objects)
  <2>1. Init => object \in Objects
    BY DEF Init
  <2>2. object \in Objects /\ [Next]_vars => (object \in Objects)'
    BY DEF Next, vars, Objects
  <2> QED BY <2>1, <2>2, PTL DEF Spec
<1>17. Spec => [](Sem!TypeOK /\ Mx!TypeOK /\ Ch!TypeOK /\ Rw!TypeOK)
  BY <1>3, <1>9, <1>10, <1>11, <1>12, SemaphoreSpec, MutexSpec, ChannelSpec,
     RWMutexSpec, PTL
<1>18. Spec => [](Wg!TypeOK /\ On!TypeOK /\ Pr!TypeOK /\ Bp!TypeOK)
  BY <1>13, <1>14, <1>15, OnTypeCorrect, WaitGroupSpec, OnceSpec, PoolRunSpec,
     BlockingPoolSpec, PTL
<1> QED BY <1>16, <1>17, <1>18, PTL DEF TypeOK
=============================================================================
