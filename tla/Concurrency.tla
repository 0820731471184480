---------------------------- MODULE Concurrency ----------------------------
(***************************************************************************)
(* The blocking objects of sflang/src/concurrency.rs and the blocking pool *)
(* of scheduler.rs side by side.                                           *)
(*                                                                         *)
(* A behaviour is about one object, chosen in Init: they share nothing but *)
(* the callers, and what a caller does with one says nothing about another.*)
(* Each has its own module; this one states what they all promise: a value,*)
(* a permit or a result reaches exactly one caller, and nobody waits for   *)
(* what is already there.                                                  *)
(***************************************************************************)
EXTENDS Callers, Naturals, FiniteSets, TLC

CONSTANTS
  Permits,            \* of the semaphore
  Senders, MaxSends,  \* of the channel
  MaxCount, MaxAdds,  \* of the wait group
  Items, Workers,     \* of poolRun
  Offloaders, PoolThreads, MaxCalls  \* of the blocking pool: tasks, threads, bound

VARIABLES
  object,  \* the object this behaviour is about
  sem_count, sem_waiters, sem_pc, sem_waking,
  mu_held, mu_waiters, mu_pc, mu_waking,
  ch_sent, ch_queue, ch_waiters, ch_pc, ch_got, ch_out,
  rw_readers, rw_writer, rw_writer_waiting, rw_waiters, rw_pc,
  wg_counter, wg_waiters, wg_pc, wg_adds,
  on_phase, on_executor, on_result, on_waiters, on_pc, on_waking, on_value, on_completed,
  pr_next, pr_slots, pr_pc, pr_idx, pr_joined, pr_results,
  bp_jobs, bp_tpc, bp_calls, bp_answer, bp_pool, bp_dropped

Sem == INSTANCE Semaphore WITH
  count <- sem_count, waiters <- sem_waiters, pc <- sem_pc,
  waking <- sem_waking
Mx == INSTANCE Mutex WITH
  held <- mu_held, waiters <- mu_waiters, pc <- mu_pc, waking <- mu_waking
Ch == INSTANCE Channel WITH
  sent <- ch_sent, queue <- ch_queue, waiters <- ch_waiters, pc <- ch_pc,
  got <- ch_got, out <- ch_out
Rw == INSTANCE RWMutex WITH
  readers <- rw_readers, writer <- rw_writer,
  writer_waiting <- rw_writer_waiting, waiters <- rw_waiters, pc <- rw_pc
Wg == INSTANCE WaitGroup WITH
  counter <- wg_counter, waiters <- wg_waiters, pc <- wg_pc, adds <- wg_adds
On == INSTANCE Once WITH
  phase <- on_phase, executor <- on_executor, result <- on_result,
  waiters <- on_waiters, pc <- on_pc, waking <- on_waking,
  value <- on_value, completed <- on_completed
Pr == INSTANCE PoolRun WITH
  next <- pr_next, slots <- pr_slots, pc <- pr_pc, idx <- pr_idx,
  joined <- pr_joined, results <- pr_results
Bp == INSTANCE BlockingPool WITH
  Tasks <- Offloaders,
  jobs <- bp_jobs, tpc <- bp_tpc, calls <- bp_calls, answer <- bp_answer,
  pool <- bp_pool, dropped <- bp_dropped

\* The counts and the bounds are natural numbers, the pool is finite, and None is
\* no result, no item and no number of a call.
ASSUME CountsAssumption ==
  /\ {Permits, MaxSends, MaxCount, MaxAdds, Items, Workers, MaxCalls} \subseteq Nat
  /\ IsFiniteSet(PoolThreads)
  /\ None \notin On!Results /\ None \notin Pr!Results
  /\ None \notin Pr!ItemIds /\ None \notin 1 .. MaxCalls

Objects == {"semaphore", "mutex", "channel", "rwmutex", "waitgroup", "once", "poolRun", "blocking pool"}

sem == <<sem_count, sem_waiters, sem_pc, sem_waking>>
mu == <<mu_held, mu_waiters, mu_pc, mu_waking>>
ch == <<ch_sent, ch_queue, ch_waiters, ch_pc, ch_got, ch_out>>
rw == <<rw_readers, rw_writer, rw_writer_waiting, rw_waiters, rw_pc>>
wg == <<wg_counter, wg_waiters, wg_pc, wg_adds>>
on == <<on_phase, on_executor, on_result, on_waiters, on_pc, on_waking, on_value, on_completed>>
pr == <<pr_next, pr_slots, pr_pc, pr_idx, pr_joined, pr_results>>
bp == <<bp_jobs, bp_tpc, bp_calls, bp_answer, bp_pool, bp_dropped>>
vars == <<object, sem, mu, ch, rw, wg, on, pr, bp>>

Init ==
  /\ object \in Objects
  /\ Sem!Init /\ Mx!Init /\ Ch!Init /\ Rw!Init /\ Wg!Init /\ On!Init /\ Pr!Init /\ Bp!Init

Next ==
  \/ /\ object = "semaphore" /\ Sem!Next
     /\ UNCHANGED <<object, mu, ch, rw, wg, on, pr, bp>>
  \/ /\ object = "mutex" /\ Mx!Next
     /\ UNCHANGED <<object, sem, ch, rw, wg, on, pr, bp>>
  \/ /\ object = "channel" /\ Ch!Next
     /\ UNCHANGED <<object, sem, mu, rw, wg, on, pr, bp>>
  \/ /\ object = "rwmutex" /\ Rw!Next
     /\ UNCHANGED <<object, sem, mu, ch, wg, on, pr, bp>>
  \/ /\ object = "waitgroup" /\ Wg!Next
     /\ UNCHANGED <<object, sem, mu, ch, rw, on, pr, bp>>
  \/ /\ object = "once" /\ On!Next
     /\ UNCHANGED <<object, sem, mu, ch, rw, wg, pr, bp>>
  \/ /\ object = "poolRun" /\ Pr!Next
     /\ UNCHANGED <<object, sem, mu, ch, rw, wg, on, bp>>
  \/ /\ object = "blocking pool" /\ Bp!Next
     /\ UNCHANGED <<object, sem, mu, ch, rw, wg, on, pr>>

Spec == Init /\ [][Next]_vars

-----------------------------------------------------------------------------
(* Fairness, of the chosen object: callers that can go on do, holders release, *)
(* callbacks and builtins end.  Nobody has to call anything, but the senders   *)
(* send until MaxSends values are sent, and what wgAdd announced gets done.    *)
Fairness ==
  /\ \A p \in Procs :
       /\ WF_(sem)(object = "semaphore" /\ Sem!Progress(p))
       /\ WF_(mu)(object = "mutex" /\ Mx!Progress(p))
       /\ WF_(rw)(object = "rwmutex" /\ Rw!Progress(p))
       /\ WF_(on)(object = "once" /\ On!Progress(p))
       /\ WF_(wg)(object = "waitgroup" /\ Wg!Return(p))
  /\ WF_(wg)(object = "waitgroup" /\ Wg!wgDone)
  /\ \A s \in Senders :
       /\ WF_(ch)(object = "channel" /\ Ch!Send(s))
       /\ WF_(ch)(object = "channel" /\ Ch!Finish(s))
  /\ \A m \in Threads :
       WF_(ch)(object = "channel" /\ ch_pc[m] = "notified" /\ Ch!Receive(m))
  /\ \A w \in Pr!PoolWorkers : WF_(pr)(object = "poolRun" /\ Pr!Step(w))
  /\ WF_(pr)(object = "poolRun" /\ (Pr!Join \/ Pr!Gather))
  /\ \A t \in Offloaders : WF_(bp)(object = "blocking pool" /\ (Bp!Notify(t) \/ Bp!Resume(t)))
  /\ \A w \in PoolThreads : WF_(bp)(object = "blocking pool" /\ Bp!PoolStep(w))

FairSpec == Spec /\ Fairness

-----------------------------------------------------------------------------
\* Every variable of every object keeps to its type.
TypeOK ==
  /\ object \in Objects
  /\ Sem!TypeOK
  /\ Mx!TypeOK
  /\ Ch!TypeOK
  /\ Rw!TypeOK
  /\ Wg!TypeOK
  /\ On!TypeOK
  /\ Pr!TypeOK
  /\ Bp!TypeOK

\* Semaphore: permits are neither lost nor created across barging and retries.
PermitsConserved == Sem!PermitsConserved

\* Mutex: one owner at most, hand-overs to sleeping tasks included, and the mutex
\* implements the abstract lock.
MutualExclusion == Mx!MutualExclusion
ImplementsLock == Mx!ImplementsLock

\* RWMutex: readers or one writer, with admissions registered for sleeping tasks,
\* and an exact count of waiting writers.
ReadersOrWriter == Rw!ReadersOrWriter /\ Rw!WritersAreCounted

\* Channel: every value is in one place or received once; each receiver gets values
\* in the order of the sends, by injection or through the queue.
ExactlyOnce == Ch!ExactlyOnce
InOrder == Ch!ReceivedInOrder /\ Ch!QueueIsNewest

\* Once: one execution at a time, one completion, one result for all callers.
OneResult == On!AtMostOnce /\ On!SameResult

\* poolRun: every item is worked on once and its result returned at its index.
EachItemOnce == Pr!EachItemOnce /\ Pr!AllInOrder

\* Blocking pool: every offloaded call is in one place and answered for itself.
ExactlyOnePlace == Bp!ExactlyOnePlace

\* No lost wake-up in any object: nobody is parked or on a condition variable for
\* something that is there, unless a wake-up is on its way.
NobodyIsStranded ==
  /\ Sem!NoTaskLeftBehind /\ Sem!NoThreadLeftBehind /\ Sem!WaitersAreParked
  /\ Mx!NobodyWaitsForFreeLock
  /\ Ch!NoMissedValue
  /\ Rw!NobodyIsStranded
  /\ Wg!NobodyIsStranded
  /\ On!NobodyIsStranded
  /\ Bp!QueueIsServed

\* A parked task gets its lock, its turn at the channel, or its permit's chance.
TasksAreServed ==
  Mx!TasksAreServed /\ Rw!TasksAreServed /\ Ch!ReceiverIsServed /\ Sem!FreePermitIsTaken

\* A thread on a condition variable is not left there beside a free mutex.
ThreadsMakeProgress == Mx!ThreadsMakeProgress

\* onceDo, wgWait, poolRun and offloaded builtins come back.
CallersReturn ==
  /\ On!CallersReturn
  /\ Wg!WaitersReturn
  /\ Bp!OffloadsReturn
  /\ object = "poolRun" => Pr!Returns

-----------------------------------------------------------------------------
\* For TLC: the callers of one kind are alike.
Sym == Permutations(Tasks) \cup Permutations(Threads) \cup Permutations(Senders)
       \cup Permutations(PoolThreads)
=============================================================================
