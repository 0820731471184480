------------------------------- MODULE Config -------------------------------
(***************************************************************************)
(* The configuration of sflang/src/builtins_cfg.rs: setCfgStr, getCfgStr,  *)
(* removeCfgStr over ~/.sf/config.json.                                    *)
(*                                                                         *)
(* A process reads the file once, into CONFIG, at its first access and     *)
(* keeps that copy; every change is written back by fs::write, which       *)
(* truncates the file and then fills it.  Threads of one process take      *)
(* turns by CONFIG's mutex, held from the change to the end of the write;  *)
(* between processes there is no lock at all.  A process may end at any    *)
(* moment.  A file that does not parse is read as an empty configuration.  *)
(***************************************************************************)
EXTENDS Naturals, FiniteSets

CONSTANTS
  Processes, Threads,  \* each process has the same threads
  Keys, Values,
  MaxChanges,          \* bound: changes asked for
  MaxStops,            \* bound: processes that ended
  None

VARIABLES
  memory,    \* CONFIG of each process: a map, or None before the first access
  holder,    \* the thread that has CONFIG's mutex
  pc,        \* of each thread: "idle", "encoded", "opened"
  json,      \* the text a thread is about to write, as a map
  key,       \* the key it has changed
  disk,      \* the file: the map it encodes, or None where it does not parse
  overlaid,  \* savers whose open file another process wrote to meanwhile
  changes, stops,
  expected,  \* history: the changes that were answered without an error, in order
  calm       \* history: no second process, no failed and no interrupted save

vars == <<memory, holder, pc, json, key, disk, overlaid, changes, stops, expected, calm>>

Callers == Processes \X Threads
Map == [Keys -> Values \cup {None}]  \* None: no such key
Empty == [k \in Keys |-> None]
Torn == None  \* the file does not parse

Init ==
  /\ memory = [p \in Processes |-> None]
  /\ holder = [p \in Processes |-> None]
  /\ pc = [c \in Callers |-> "idle"]
  /\ json = [c \in Callers |-> Empty]
  /\ key = [c \in Callers |-> None]
  /\ disk = Empty  \* or no file, which reads the same
  /\ overlaid = {}
  /\ changes = 0 /\ stops = 0
  /\ expected = Empty
  /\ calm = TRUE

Alive(p) == memory[p] # None

\* load_config, by OnceLock: a file that is missing or does not parse is an empty map.
\* (The repair of the old "map{...}" format rewrites what it has just read.)
load_config(p) ==
  /\ ~Alive(p)
  /\ memory' = [memory EXCEPT ![p] = IF disk = Torn THEN Empty ELSE disk]
  /\ calm' = (calm /\ disk # Torn /\ \A q \in Processes : ~Alive(q))
  /\ UNCHANGED <<holder, pc, json, key, disk, overlaid, changes, stops, expected>>

\* A bug for the checks: the mutex is given back before the file is written.
BugKeepsLock(t) == None

\* Who has the mutex while thread t saves: the guard lives to the end of the builtin.
KeepsLock(t) == t

\* setCfgStr and removeCfgStr: change the map, encode it, go on to write it.  Removing
\* what is not there writes nothing.
Change(p, t, k, v) ==
  /\ Alive(p) /\ holder[p] = None /\ pc[<<p, t>>] = "idle"
  /\ changes < MaxChanges
  /\ v = None => memory[p][k] # None
  /\ memory' = [memory EXCEPT ![p][k] = v]
  /\ json' = [json EXCEPT ![<<p, t>>] = memory'[p]]
  /\ key' = [key EXCEPT ![<<p, t>>] = k]
  /\ pc' = [pc EXCEPT ![<<p, t>>] = "encoded"]
  /\ holder' = [holder EXCEPT ![p] = KeepsLock(t)]
  /\ changes' = changes + 1
  /\ UNCHANGED <<disk, overlaid, stops, expected, calm>>

\* fs::write, first half: open and truncate.  An empty file does not parse.
Open(p, t) ==
  /\ pc[<<p, t>>] = "encoded"
  /\ pc' = [pc EXCEPT ![<<p, t>>] = "opened"]
  /\ disk' = Torn
  /\ UNCHANGED <<memory, holder, json, key, overlaid, changes, stops, expected, calm>>

\* The builtin returns, and with it the guard goes.
Returned(p, t) ==
  /\ pc' = [pc EXCEPT ![<<p, t>>] = "idle"]
  /\ holder' = [holder EXCEPT ![p] = None]

\* fs::write, second half.  What another process wrote into the file after it was
\* opened here is overwritten from the start: where it is longer, its tail remains.
Write(p, t) ==
  LET c == <<p, t>> IN
  /\ pc[c] = "opened"
  /\ disk' \in {json[c]} \cup (IF c \in overlaid THEN {Torn} ELSE {})
  /\ Returned(p, t)
  /\ overlaid' = {d \in Callers : pc[d] = "opened"} \ {c}
  /\ expected' = [expected EXCEPT ![key[c]] = json[c][key[c]]]
  /\ UNCHANGED <<memory, json, key, changes, stops, calm>>

\* setCfgStr answers an error: the file could not be opened, or the disk is full.
SaveFails(p, t) ==
  /\ \/ pc[<<p, t>>] = "encoded" /\ disk' = disk
     \/ pc[<<p, t>>] = "opened" /\ disk' = Torn
  /\ Returned(p, t)
  /\ overlaid' = overlaid \ {<<p, t>>}
  /\ calm' = FALSE
  /\ UNCHANGED <<memory, json, key, changes, stops, expected>>

\* A process ends, by itself or not, and may be started again.
Stop(p) ==
  /\ Alive(p) /\ stops < MaxStops
  /\ stops' = stops + 1
  /\ memory' = [memory EXCEPT ![p] = None]
  /\ holder' = [holder EXCEPT ![p] = None]
  /\ pc' = [c \in Callers |-> IF c[1] = p THEN "idle" ELSE pc[c]]
  /\ overlaid' = {c \in overlaid : c[1] # p}
  /\ calm' = (calm /\ \A t \in Threads : pc[<<p, t>>] = "idle")
  /\ UNCHANGED <<json, key, disk, changes, expected>>

Next ==
  \E p \in Processes :
    \/ load_config(p)
    \/ Stop(p)
    \/ \E t \in Threads :
         \/ \E k \in Keys, v \in Values \cup {None} : Change(p, t, k, v)
         \/ Open(p, t) \/ Write(p, t) \/ SaveFails(p, t)

Spec == Init /\ [][Next]_vars

-----------------------------------------------------------------------------
TypeOK ==
  /\ memory \in [Processes -> Map \cup {None}]
  /\ holder \in [Processes -> Threads \cup {None}]
  /\ pc \in [Callers -> {"idle", "encoded", "opened"}]
  /\ json \in [Callers -> Map]
  /\ key \in [Callers -> Keys \cup {None}]
  /\ disk \in Map \cup {Torn}
  /\ overlaid \subseteq Callers
  /\ changes \in 0..MaxChanges /\ stops \in 0..MaxStops
  /\ expected \in Map
  /\ calm \in BOOLEAN

\* Every change setCfgStr or removeCfgStr answered for is in the file and in what the
\* process, or the next one, reads, whichever threads made it: as long as the file is
\* one process's at a time, no save failed, and no process ended in the middle of one.
\* Without that, the code promises nothing: see Stop, SaveFails and Write.
ConfigSurvives ==
  calm /\ (\A c \in Callers : pc[c] = "idle")
    => disk = expected /\ \A p \in Processes : Alive(p) => memory[p] = expected

\* Nor does the file stay torn behind a save that came to its end alone.
TornOnlyInTrouble == calm /\ disk = Torn => \E c \in Callers : pc[c] = "opened"
=============================================================================
