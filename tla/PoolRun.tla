------------------------------ MODULE PoolRun ------------------------------
(***************************************************************************)
(* poolRun of sflang/src/concurrency.rs: threads share the items by an     *)
(* atomic index, each result goes into the slot of its item, the caller    *)
(* joins the threads in turn and gathers the slots.                        *)
(*                                                                         *)
(* A call of the function on an item returns or throws; both fill the slot *)
(* (a thrown value as an error).  A panic ends the thread and fills none;  *)
(* join's error is discarded.                                              *)
(*                                                                         *)
(* Operators named Bug... are plausible mistakes that the runs are tried   *)
(* against; no specification uses them.                                    *)
(***************************************************************************)
EXTENDS Naturals, Sequences, FiniteSets

CONSTANTS
  Items,    \* number of items
  Workers,  \* the argument `workers`
  None

\* No more threads than items.
PoolWorkers == 1 .. (IF Workers < Items THEN Workers ELSE Items)
ItemIds == 1 .. Items
Results == [item : ItemIds, kind : {"value", "error"}]

VARIABLES
  next,     \* the atomic index, from 1 here
  slots,    \* item -> result or None
  pc,       \* thread -> "fetch", "call", "end" or "panicked"
  idx,      \* thread -> its item
  joined,   \* how many threads the caller has joined
  results   \* what poolRun returns, None before

vars == <<next, slots, pc, idx, joined, results>>

Init ==
  /\ next = 1
  /\ slots = [i \in ItemIds |-> None]
  /\ pc = [w \in PoolWorkers |-> "fetch"]
  /\ idx = [w \in PoolWorkers |-> None]
  /\ joined = 0
  /\ results = None

Fetch(w) ==
  /\ pc[w] = "fetch"
  /\ next' = next + 1
  /\ IF next <= Items
     THEN idx' = [idx EXCEPT ![w] = next] /\ pc' = [pc EXCEPT ![w] = "call"]
     ELSE idx' = [idx EXCEPT ![w] = None] /\ pc' = [pc EXCEPT ![w] = "end"]
  /\ UNCHANGED <<slots, joined, results>>

\* The result goes to the slot of the item, whichever thread had it.
\* (As if an exception ended the thread.)
BugAfter(kind) == IF kind = "value" THEN "fetch" ELSE "end"
After(kind)    == "fetch"

Call(w, kind) ==
  /\ pc[w] = "call"
  /\ slots' = [slots EXCEPT ![idx[w]] = [item |-> idx[w], kind |-> kind]]
  /\ pc' = [pc EXCEPT ![w] = After(kind)]
  /\ UNCHANGED <<next, idx, joined, results>>

CallPanics(w) ==
  /\ pc[w] = "call"
  /\ pc' = [pc EXCEPT ![w] = "panicked"]
  /\ UNCHANGED <<next, slots, idx, joined, results>>

\* The caller joins the threads in the order in which it started them.
Join ==
  /\ joined < Cardinality(PoolWorkers) /\ pc[joined + 1] \in {"end", "panicked"}
  /\ joined' = joined + 1
  /\ UNCHANGED <<next, slots, pc, idx, results>>

Gather ==
  /\ joined = Cardinality(PoolWorkers) /\ results = None
  /\ results' = slots
  /\ UNCHANGED <<next, slots, pc, idx, joined>>

Step(w) == Fetch(w) \/ (\E kind \in {"value", "error"} : Call(w, kind)) \/ CallPanics(w)
Next == (\E w \in PoolWorkers : Step(w)) \/ Join \/ Gather

Spec == Init /\ [][Next]_vars

\* The function ends on every item; the caller waits for nothing but the threads.
FairSpec == Spec /\ (\A w \in PoolWorkers : WF_vars(Step(w))) /\ WF_vars(Join \/ Gather)

-----------------------------------------------------------------------------
\* Every variable keeps to its type; the index overshoots by one per thread at most.
TypeOK ==
  /\ next \in 1 .. Items + 1 + Cardinality(PoolWorkers)
  /\ slots \in [ItemIds -> Results \cup {None}]
  /\ pc \in [PoolWorkers -> {"fetch", "call", "end", "panicked"}]
  /\ idx \in [PoolWorkers -> ItemIds \cup {None}]
  /\ joined \in 0 .. Cardinality(PoolWorkers)
  /\ results \in [ItemIds -> Results \cup {None}] \cup {None}

\* The items whose call has panicked.
Panicked == {idx[w] : w \in {v \in PoolWorkers : pc[v] = "panicked"}}

\* Every item handed out so far is with one thread, has its result, or was lost to
\* a panic, never two of these: no item is worked on twice and none is skipped.
EachItemOnce ==
  \A i \in ItemIds :
    Cardinality({w \in PoolWorkers : pc[w] \in {"call", "panicked"} /\ idx[w] = i})
      + (IF slots[i] = None THEN 0 ELSE 1) = (IF i < next THEN 1 ELSE 0)

\* poolRun returns the result of item i at index i, for every item but those whose
\* own call panicked, as long as one thread survives.
AllInOrder ==
  results # None =>
    \A i \in ItemIds :
      /\ results[i] # None => results[i].item = i
      /\ results[i] = None => i \in Panicked \/ \A w \in PoolWorkers : pc[w] = "panicked"

\* poolRun returns, whatever the function throws.
Returns == <>(results # None)
=============================================================================
